--------------------------- MODULE RoomLedgerProofs ---------------------------
(***************************************************************************)
(* Proofs about RoomLedger, for any number of handlers, request ids,       *)
(* decisions and tasks.                                                    *)
(*                                                                         *)
(* Only the lock holder has uncommitted writes, and while it holds the     *)
(* lock no other transaction of the room commits; so the sequence and the  *)
(* ledger it read are still current when it commits.  LockInv, ReservedInv *)
(* and StagedInv say that; everything else rests on them.                  *)
(***************************************************************************)
EXTENDS RoomLogRefinement, TLAPS

(* Most leaves are first-order: Zenon takes them.  A leaf that needs       *)
(* arithmetic or the theory of functions and sequences cites SMT.          *)
USE Zenon

DraftType == [type : EventTypes, subject : DecisionIds \cup TaskIds \cup {None}]

(* The phases in which a handler owns the room lock. *)
LockInv ==
    \A h \in Handlers : pc[h] \in {"locked", "fresh", "reserved", "staged"} <=> roomLock = h

(* What a handler has read for the task it is about to start. *)
Reserved(h) ==
    /\ current[h].body.method = "agent.task.start"
    /\ \E t \in FreshTasks :
        tx[h].tasks = {[task |-> t, req |-> current[h].id, revision |-> NextSequence]}

ReservedInv == \A h \in Handlers : pc[h] = "reserved" => Reserved(h)

(* Every row was announced by an event, so a fresh id has no row. *)
UsedInv ==
    \A d \in DecisionIds : decisions[d] # "absent" => d \notin FreshDecisions

(* How the staged row of a decision goes with the staged events. *)
StagedRow(events, rows, d) ==
    /\ rows[d] = "active"
        <=> \E e \in events : e.subject = d /\ e.type = "decision.confirmed"
    /\ rows[d] \in {"dismissed", "superseded", "absent"}
        <=> \E e \in events : e.subject = d /\ e.type \in Endings
    /\ rows[d] # "keep" => \E e \in events : e.subject = d
    /\ rows[d] = "draft" => d \in FreshDecisions
    /\ rows[d] = "active" => d \in FreshDecisions \/ decisions[d] = "draft"
    /\ rows[d] \in {"dismissed", "superseded"} => decisions[d] = "draft"

(* Uncommitted events continue the committed sequence, are the whole       *)
(* effect of the request, and go with the uncommitted rows.                *)
Staged(h) ==
    LET events == tx[h].events
    IN  /\ \A e, f \in events : e.seq = f.seq => e = f
        /\ \E n \in 1 .. 4 :
            {e.seq : e \in events} = NextSequence .. Newest + n
        /\ \A e \in events : e.req = current[h].id
        /\ \E types \in Effects(current[h].body) :
            IsBlock(events, types, NextSequence)
        /\ \A t \in tx[h].tasks :
            /\ t.req = current[h].id
            /\ \E e \in events :
                /\ e.seq = t.revision
                /\ e.type = "agent.task.requested"
                /\ e.subject = t.task
        /\ \A d \in DecisionIds : StagedRow(events, tx[h].rows, d)

StagedInv == \A h \in Handlers : pc[h] = "staged" => Staged(h)

CoreInv ==
    /\ TypeOK
    /\ LockInv
    /\ Newest \in Nat
    /\ SequencesContiguous
    /\ UsedInv
    /\ ReservedInv
    /\ StagedInv

(* The largest element of an initial segment is its bound. *)
LEMMA MaxOfSegment ==
    ASSUME NEW n \in Nat
    PROVE  Max({0} \cup 1 .. n) = n
  <1>1. n \in {0} \cup 1 .. n
    BY SMT
  <1>2. \A y \in {0} \cup 1 .. n : n >= y
    BY SMT
  <1>3. \A x \in {0} \cup 1 .. n :
            (\A y \in {0} \cup 1 .. n : x >= y) => x = n
    BY <1>1, SMT
  <1> QED
    BY <1>1, <1>2, <1>3 DEF Max

-------------------------------------------------------------------------------
(* What the operations stage, before the events are numbered.              *)

RowPlan(ds, rows, d) ==
    /\ rows[d] = "active"
        <=> \E k \in DOMAIN ds : ds[k].subject = d /\ ds[k].type = "decision.confirmed"
    /\ rows[d] \in {"dismissed", "superseded", "absent"}
        <=> \E k \in DOMAIN ds : ds[k].subject = d /\ ds[k].type \in Endings
    /\ rows[d] # "keep" => \E k \in DOMAIN ds : ds[k].subject = d
    /\ rows[d] = "draft" => d \in FreshDecisions
    /\ rows[d] = "active" => d \in FreshDecisions \/ decisions[d] = "draft"
    /\ rows[d] \in {"dismissed", "superseded"} => decisions[d] = "draft"

TaskPlan(h, ds, t) ==
    /\ t.req = current[h].id
    /\ t.revision = NextSequence
    /\ ds[1].type = "agent.task.requested"
    /\ ds[1].subject = t.task

Plan(h, ds, rows, ts) ==
    /\ Len(ds) \in 1 .. 4
    /\ \E types \in Effects(current[h].body) :
        /\ DOMAIN types = DOMAIN ds
        /\ \A k \in DOMAIN ds : types[k] = ds[k].type
    /\ \A t \in ts : TaskPlan(h, ds, t)
    /\ \A d \in DecisionIds : RowPlan(ds, rows, d)

Staging(h) ==
    \E ds \in Seq(DraftType),
       rows \in [DecisionIds -> Statuses \cup {"absent", "keep"}],
       ts \in SUBSET Task :
        Plan(h, ds, rows, ts) /\ Stage(h, ds, rows, ts)

LEMMA StagingIntro ==
    ASSUME NEW h \in Handlers, NEW ds \in Seq(DraftType),
           NEW rows \in [DecisionIds -> Statuses \cup {"absent", "keep"}],
           NEW ts \in SUBSET Task,
           Plan(h, ds, rows, ts), Stage(h, ds, rows, ts)
    PROVE  Staging(h)
  BY DEF Staging

LEMMA SinglePlan ==
    ASSUME NEW h \in Handlers, NEW type, NEW subject, NEW rows, NEW ts,
           <<type>> \in Effects(current[h].body),
           \A t \in ts : TaskPlan(h, <<Draft(type, subject)>>, t),
           \A d \in DecisionIds : RowPlan(<<Draft(type, subject)>>, rows, d)
    PROVE  Plan(h, <<Draft(type, subject)>>, rows, ts)
  <1> DEFINE ds == <<Draft(type, subject)>>
             types == <<type>>
  <1>1. /\ Len(ds) \in 1 .. 4
        /\ DOMAIN types = DOMAIN ds
        /\ \A k \in DOMAIN ds : types[k] = ds[k].type
    BY SMT DEF Draft
  <1>2. /\ types \in Effects(current[h].body)
        /\ \A t \in ts : TaskPlan(h, ds, t)
        /\ \A d \in DecisionIds : RowPlan(ds, rows, d)
    OBVIOUS
  <1> HIDE DEF ds, types
  <1>3. Plan(h, ds, rows, ts)
    BY <1>1, <1>2 DEF Plan
  <1> QED
    BY <1>3 DEF ds

LEMMA OperationCases ==
    ASSUME CoreInv, NEW h \in Handlers, Operation(h)
    PROVE  /\ pc[h] \in {"fresh", "reserved"}
           /\ \/ \E error \in Results \ {"accepted", "duplicate", "conflicting_duplicate"} :
                    Reject(h, error)
              \/ Staging(h)
  <1>0. /\ pc[h] \in {"fresh", "reserved"}
        /\ current[h] \in Request
        /\ NextSequence \in Nat
    BY RequestsAssumption, SMT
       DEF CoreInv, TypeOK, NextSequence, Operation, Asks, TransitionDraft,
           RejectAudience, ChatSend, ChatSendActionItems, DecisionPropose,
           RejectTransition, ConfirmDecision, DismissDecision, EditDecision,
           RejectDelete, DeleteDecision, StartAgentTask
  <1>1. NoRows \in [DecisionIds -> Statuses \cup {"absent", "keep"}]
    BY DEF NoRows
  <1>n. {} \in SUBSET Task
    OBVIOUS
  <1>u. \A d \in DecisionIds : decisions[d] # "absent" => d \notin FreshDecisions
    BY DEF CoreInv, UsedInv
  <1>2. CASE RejectAudience(h)
    BY <1>2, <1>0 DEF RejectAudience, Results
  <1>3. CASE ChatSend(h)
    <2> DEFINE ds == <<Draft("message.created", None)>>
    <2>1. ds \in Seq(DraftType)
      BY SMT DEF DraftType, Draft, EventTypes
    <2>2. Stage(h, ds, NoRows, {})
      BY <1>3 DEF ChatSend
    <2>3. <<"message.created">> \in Effects(current[h].body)
      BY <1>3 DEF ChatSend, Asks, Effects
    <2>4. Plan(h, ds, NoRows, {})
      BY <2>3, SMT DEF Plan, Draft, RowPlan, NoRows, Endings
    <2> HIDE DEF ds
    <2> QED
      BY <1>0, <1>1, <1>n, <2>1, <2>2, <2>4, StagingIntro
  <1>4. CASE ChatSendActionItems(h)
    <2>1. PICK t \in FreshTasks :
            Stage(h, ActionItemsTask(current[h], t), NoRows, {})
      BY <1>4 DEF ChatSendActionItems
    <2>2. PICK end \in {"agent.task.succeeded", "agent.task.failed"} :
            ActionItemsTask(current[h], t)
                = <<Draft("message.created", None), Draft("agent.task.queued", t),
                    Draft("agent.task.running", t), Draft(end, t)>>
      BY DEF ActionItemsTask
    <2> DEFINE ds == <<Draft("message.created", None), Draft("agent.task.queued", t),
                       Draft("agent.task.running", t), Draft(end, t)>>
               types == <<"message.created", "agent.task.queued",
                          "agent.task.running", end>>
    <2>3. ds \in Seq(DraftType)
      BY <2>1, SMT DEF DraftType, Draft, EventTypes, FreshTasks
    <2>4. types \in Effects(current[h].body)
      BY <1>4 DEF ChatSendActionItems, Asks, Effects
    <2>5. /\ DOMAIN types = DOMAIN ds
          /\ \A k \in DOMAIN ds : types[k] = ds[k].type
      BY SMT DEF Draft
    <2>6. \A k \in DOMAIN ds :
            ds[k].type \in {"message.created", "agent.task.queued",
                            "agent.task.running", end}
      BY SMT DEF Draft
    <2>7. Len(ds) \in 1 .. 4
      BY SMT
    <2>8. Stage(h, ds, NoRows, {})
      BY <2>1, <2>2
    <2> HIDE DEF ds, types
    <2>9. \A d \in DecisionIds : RowPlan(ds, NoRows, d)
      BY <2>6 DEF RowPlan, NoRows, Endings
    <2>10. Plan(h, ds, NoRows, {})
      BY <2>4, <2>5, <2>7, <2>9 DEF Plan
    <2> QED
      BY <1>0, <1>1, <1>n, <2>3, <2>8, <2>10, StagingIntro
  <1>5. CASE DecisionPropose(h)
    <2>1. PICK d \in FreshDecisions :
            Stage(h, <<Draft("decision.proposed", d)>>,
                  [NoRows EXCEPT ![d] = "draft"], {})
      BY <1>5 DEF DecisionPropose
    <2> DEFINE ds == <<Draft("decision.proposed", d)>>
               rows == [NoRows EXCEPT ![d] = "draft"]
    <2>2. ds \in Seq(DraftType)
      BY SMT DEF DraftType, Draft, EventTypes, FreshDecisions
    <2>3. rows \in [DecisionIds -> Statuses \cup {"absent", "keep"}]
      BY <1>1 DEF Statuses
    <2>4. Stage(h, ds, rows, {})
      BY <2>1
    <2>5. <<"decision.proposed">> \in Effects(current[h].body)
      BY <1>5 DEF DecisionPropose, Asks, Effects
    <2>6. \A x \in DecisionIds : RowPlan(ds, rows, x)
      BY <1>u, SMT DEF RowPlan, Draft, NoRows, Endings
    <2>7. Plan(h, ds, rows, {})
      BY <2>5, <2>6, SinglePlan
    <2> HIDE DEF ds, rows
    <2> QED
      BY <1>0, <1>n, <2>2, <2>3, <2>4, <2>7, StagingIntro
  <1>6. CASE RejectTransition(h)
    BY <1>6, <1>0 DEF RejectTransition, Results
  <1>7. CASE ConfirmDecision(h) \/ DismissDecision(h) \/ DeleteDecision(h)
    <2> DEFINE d == current[h].body.decision
    <2>1. d \in DecisionIds
      BY <1>7, <1>0 DEF ConfirmDecision, DismissDecision, DeleteDecision,
         TransitionDraft, Asks, Request, Body
    <2>2. PICK type \in EventTypes, status \in Statuses \cup {"absent"} :
            /\ Stage(h, <<Draft(type, d)>>, [NoRows EXCEPT ![d] = status], {})
            /\ <<type>> \in Effects(current[h].body)
            /\ \/ /\ type = "decision.confirmed" /\ status = "active"
                  /\ decisions[d] = "draft"
               \/ /\ type = "decision.dismissed" /\ status = "dismissed"
                  /\ decisions[d] = "draft"
               \/ /\ type = "decision.deleted" /\ status = "absent"
                  /\ decisions[d] # "absent"
      <3>1. CASE ConfirmDecision(h)
        BY <3>1 DEF ConfirmDecision, TransitionDraft, Asks, EventTypes, Statuses, Effects
      <3>2. CASE DismissDecision(h)
        BY <3>2 DEF DismissDecision, TransitionDraft, Asks, EventTypes, Statuses, Effects
      <3>3. CASE DeleteDecision(h)
        BY <3>3 DEF DeleteDecision, Asks, EventTypes, Effects
      <3> QED
        BY <1>7, <3>1, <3>2, <3>3
    <2> DEFINE ds == <<Draft(type, d)>>
               rows == [NoRows EXCEPT ![d] = status]
    <2>3. ds \in Seq(DraftType)
      BY <2>1, SMT DEF DraftType, Draft
    <2>4. rows \in [DecisionIds -> Statuses \cup {"absent", "keep"}]
      BY <1>1 DEF Statuses
    <2>5. Stage(h, ds, rows, {})
      BY <2>2
    <2>6. \A x \in DecisionIds : RowPlan(ds, rows, x)
      BY <2>1, <2>2, SMT DEF RowPlan, Draft, NoRows, Endings
    <2>7. Plan(h, ds, rows, {})
      BY <2>2, <2>6, SinglePlan
    <2> HIDE DEF ds, rows
    <2> QED
      BY <1>0, <1>n, <2>3, <2>4, <2>5, <2>7, StagingIntro
  <1>8. CASE EditDecision(h)
    <2> DEFINE d == current[h].body.decision
    <2>1. d \in DecisionIds /\ decisions[d] = "draft" /\ d \notin FreshDecisions
      BY <1>8, <1>0, <1>u DEF EditDecision, TransitionDraft, Asks, Request, Body
    <2>2. PICK replacement \in FreshDecisions :
            Stage(h, <<Draft("decision.edited", d),
                       Draft("decision.confirmed", replacement)>>,
                  [NoRows EXCEPT ![d] = "superseded", ![replacement] = "active"],
                  {})
      BY <1>8 DEF EditDecision
    <2> DEFINE ds == <<Draft("decision.edited", d),
                       Draft("decision.confirmed", replacement)>>
               rows == [NoRows EXCEPT ![d] = "superseded",
                                      ![replacement] = "active"]
    <2>3. ds \in Seq(DraftType)
      BY <2>1, SMT DEF DraftType, Draft, EventTypes, FreshDecisions
    <2>4. rows \in [DecisionIds -> Statuses \cup {"absent", "keep"}]
      BY <1>1 DEF Statuses
    <2>5. Stage(h, ds, rows, {})
      BY <2>2
    <2>6. <<"decision.edited", "decision.confirmed">> \in Effects(current[h].body)
      BY <1>8 DEF EditDecision, TransitionDraft, Asks, Effects
    <2>7. \A x \in DecisionIds : RowPlan(ds, rows, x)
      <3>1. DOMAIN ds = {1, 2} /\ ds[1] = Draft("decision.edited", d)
                /\ ds[2] = Draft("decision.confirmed", replacement)
        BY SMT
      <3>2. replacement # d /\ replacement \in DecisionIds
        BY <2>1 DEF FreshDecisions
      <3>3. /\ rows[d] = "superseded"
            /\ rows[replacement] = "active"
            /\ \A x \in DecisionIds \ {d, replacement} : rows[x] = "keep"
        BY <2>1, <3>2 DEF NoRows
      <3> HIDE DEF ds, rows
      <3> QED
        BY <2>1, <3>1, <3>2, <3>3, SMT DEF RowPlan, Draft, Endings
    <2> DEFINE types == <<"decision.edited", "decision.confirmed">>
    <2>9. /\ Len(ds) \in 1 .. 4
          /\ DOMAIN types = DOMAIN ds
          /\ \A k \in DOMAIN ds : types[k] = ds[k].type
      BY SMT DEF Draft
    <2>10. types \in Effects(current[h].body)
      BY <2>6
    <2> HIDE DEF ds, rows, types
    <2>8. Plan(h, ds, rows, {})
      BY <2>7, <2>9, <2>10 DEF Plan
    <2> QED
      BY <1>0, <1>n, <2>3, <2>4, <2>5, <2>8, StagingIntro
  <1>9. CASE RejectDelete(h)
    BY <1>9, <1>0 DEF RejectDelete, Results
  <1>10. CASE StartAgentTask(h)
    <2>0. pc[h] = "reserved" /\ Reserved(h)
      BY <1>10 DEF StartAgentTask, CoreInv, ReservedInv
    <2>p. PICK t \in FreshTasks :
            tx[h].tasks = {[task |-> t, req |-> current[h].id, revision |-> NextSequence]}
      BY <2>0 DEF Reserved
    <2> DEFINE row == [task |-> t, req |-> current[h].id, revision |-> NextSequence]
               ds == <<Draft("agent.task.requested", t)>>
               ts == {row}
    <2>r. row.revision = NextSequence /\ row.task = t
      OBVIOUS
    <2>1. Stage(h, ds, NoRows, ts)
      <3> HIDE DEF row
      <3> QED
        BY <1>10, <2>p, <2>r DEF StartAgentTask, row
    <2>2. ds \in Seq(DraftType)
      BY SMT DEF DraftType, Draft, EventTypes, FreshTasks
    <2>3. ts \in SUBSET Task
      BY <1>0, SMT DEF Task, FreshTasks, Request
    <2>5. <<"agent.task.requested">> \in Effects(current[h].body)
      BY <2>0 DEF Reserved, Effects
    <2>6. \A x \in DecisionIds : RowPlan(ds, NoRows, x)
      BY SMT DEF RowPlan, Draft, NoRows, Endings
    <2>7. \A x \in ts : TaskPlan(h, ds, x)
      BY SMT DEF TaskPlan, Draft
    <2>8. Plan(h, ds, NoRows, ts)
      BY <2>5, <2>6, <2>7, SMT DEF Plan, Draft
    <2> HIDE DEF ds, ts
    <2> QED
      BY <1>0, <1>1, <2>1, <2>2, <2>3, <2>8, StagingIntro
  <1> QED
    BY <1>2, <1>3, <1>4, <1>5, <1>6, <1>7, <1>8, <1>9, <1>10 DEF Operation

-------------------------------------------------------------------------------
(* The numbers given to staged events.                                     *)

LEMMA NumberedEvents ==
    ASSUME NEW h \in Handlers, current[h] \in Request, Newest \in Nat,
           NEW ds \in Seq(DraftType)
    PROVE  /\ Numbered(h, ds) \subseteq Event
           /\ \A e, f \in Numbered(h, ds) : e.seq = f.seq => e = f
           /\ {e.seq : e \in Numbered(h, ds)} = NextSequence .. Newest + Len(ds)
  <1>1. DOMAIN ds = 1 .. Len(ds) /\ Len(ds) \in Nat
    BY SMT
  <1>2. \A k \in DOMAIN ds : ds[k] \in DraftType
    BY SMT
  <1>3. NextSequence \in Nat /\ NextSequence = Newest + 1
    BY SMT DEF NextSequence
  <1>4. Numbered(h, ds) \subseteq Event
    BY <1>1, <1>2, <1>3, SMT DEF Numbered, Event, DraftType, Request
  <1>5. \A e, f \in Numbered(h, ds) : e.seq = f.seq => e = f
    <2> SUFFICES ASSUME NEW j \in DOMAIN ds, NEW k \in DOMAIN ds,
                        NextSequence + j - 1 = NextSequence + k - 1
                 PROVE  j = k
      BY SMT DEF Numbered
    <2> QED
      BY <1>1, <1>3, SMT
  <1>6. {e.seq : e \in Numbered(h, ds)} = {NextSequence + k - 1 : k \in DOMAIN ds}
    <2> DEFINE Row(k) == [seq |-> NextSequence + k - 1, req |-> current[h].id,
                          type |-> ds[k].type, subject |-> ds[k].subject]
    <2>1. \A k \in DOMAIN ds : Row(k) \in Numbered(h, ds)
      BY DEF Numbered
    <2>2. \A e \in Numbered(h, ds) : \E k \in DOMAIN ds : e = Row(k)
      BY DEF Numbered
    <2>3. \A k : Row(k).seq = NextSequence + k - 1
      OBVIOUS
    <2> HIDE DEF Row
    <2> QED
      BY <2>1, <2>2, <2>3, SMT
  <1>7. {NextSequence + k - 1 : k \in 1 .. Len(ds)} = NextSequence .. Newest + Len(ds)
    <2>1. ASSUME NEW n \in NextSequence .. Newest + Len(ds)
          PROVE  n \in {NextSequence + k - 1 : k \in 1 .. Len(ds)}
      <3>1. n - Newest \in 1 .. Len(ds) /\ NextSequence + (n - Newest) - 1 = n
        BY <2>1, <1>1, <1>3, SMT
      <3> QED
        BY <3>1
    <2>2. ASSUME NEW k \in 1 .. Len(ds)
          PROVE  NextSequence + k - 1 \in NextSequence .. Newest + Len(ds)
      BY <1>1, <1>3, SMT
    <2> QED
      BY <2>1, <2>2
  <1> QED
    BY <1>1, <1>4, <1>5, <1>6, <1>7

(* The plan, read on the numbered events. *)
LEMMA NumberedPlan ==
    ASSUME NEW h \in Handlers, current[h] \in Request, Newest \in Nat,
           NEW ds \in Seq(DraftType), NEW rows, NEW ts, Plan(h, ds, rows, ts)
    PROVE  LET events == Numbered(h, ds)
           IN  /\ \A e \in events : e.req = current[h].id
               /\ \E types \in Effects(current[h].body) :
                    IsBlock(events, types, NextSequence)
               /\ \A t \in ts :
                    /\ t.req = current[h].id
                    /\ \E e \in events :
                        /\ e.seq = t.revision
                        /\ e.type = "agent.task.requested"
                        /\ e.subject = t.task
               /\ \A d \in DecisionIds : StagedRow(events, rows, d)
  <1> DEFINE Row(k) == [seq |-> NextSequence + k - 1, req |-> current[h].id,
                        type |-> ds[k].type, subject |-> ds[k].subject]
             events == Numbered(h, ds)
  <1>1. /\ \A k \in DOMAIN ds : Row(k) \in events
        /\ \A e \in events : \E k \in DOMAIN ds : e = Row(k)
    BY DEF Numbered
  <1>2. \A k : /\ Row(k).seq = NextSequence + k - 1
               /\ Row(k).req = current[h].id
               /\ Row(k).type = ds[k].type
               /\ Row(k).subject = ds[k].subject
    OBVIOUS
  <1> HIDE DEF Row, events
  <1>3. \A e \in events : e.req = current[h].id
    BY <1>1, <1>2
  <1>4. \E types \in Effects(current[h].body) : IsBlock(events, types, NextSequence)
    <2>1. PICK types \in Effects(current[h].body) :
            /\ DOMAIN types = DOMAIN ds
            /\ \A k \in DOMAIN ds : types[k] = ds[k].type
      BY DEF Plan
    <2> DEFINE lhs == {[seq |-> e.seq, type |-> e.type] : e \in events}
               rhs == {[seq |-> NextSequence + k - 1, type |-> types[k]] :
                            k \in DOMAIN types}
    <2>2. ASSUME NEW x \in lhs PROVE x \in rhs
      <3>1. PICK e \in events : x = [seq |-> e.seq, type |-> e.type]
        OBVIOUS
      <3>2. PICK k \in DOMAIN ds : e = Row(k)
        BY <1>1
      <3> QED
        BY <3>1, <3>2, <1>2, <2>1
    <2>3. ASSUME NEW x \in rhs PROVE x \in lhs
      <3>1. PICK k \in DOMAIN ds :
                x = [seq |-> NextSequence + k - 1, type |-> types[k]]
        BY <2>1
      <3>2. Row(k) \in events /\ x = [seq |-> Row(k).seq, type |-> Row(k).type]
        BY <3>1, <1>1, <1>2, <2>1
      <3> QED
        BY <3>2
    <2> QED
      BY <2>2, <2>3 DEF IsBlock
  <1>5. ASSUME NEW t \in ts
        PROVE  /\ t.req = current[h].id
               /\ \E e \in events :
                    /\ e.seq = t.revision
                    /\ e.type = "agent.task.requested"
                    /\ e.subject = t.task
    <2>1. TaskPlan(h, ds, t) /\ 1 \in DOMAIN ds
      BY SMT DEF Plan
    <2>2. Row(1) \in events /\ Row(1).seq = NextSequence
      BY <2>1, <1>1, <1>2, SMT DEF NextSequence
    <2> QED
      BY <2>1, <2>2, <1>2 DEF TaskPlan
  <1>6. ASSUME NEW d \in DecisionIds
        PROVE  StagedRow(events, rows, d)
    <2>1. RowPlan(ds, rows, d)
      BY DEF Plan
    <2>2. \A type : (\E e \in events : e.subject = d /\ e.type = type)
            <=> \E k \in DOMAIN ds : ds[k].subject = d /\ ds[k].type = type
      <3>1. ASSUME NEW type, NEW e \in events, e.subject = d /\ e.type = type
            PROVE  \E k \in DOMAIN ds : ds[k].subject = d /\ ds[k].type = type
        BY <1>1, <1>2, <3>1, SMTT(30)
      <3>2. ASSUME NEW type, NEW k \in DOMAIN ds,
                   ds[k].subject = d /\ ds[k].type = type
            PROVE  \E e \in events : e.subject = d /\ e.type = type
        <4>1. Row(k) \in events /\ Row(k).subject = d /\ Row(k).type = type
          BY <1>1, <1>2, <3>2
        <4> QED
          BY <4>1
      <3> QED
        BY <3>1, <3>2
    <2>3. (\E e \in events : e.subject = d /\ e.type \in Endings)
            <=> \E k \in DOMAIN ds : ds[k].subject = d /\ ds[k].type \in Endings
      BY <2>2
    <2>4. (\E e \in events : e.subject = d) <=> \E k \in DOMAIN ds : ds[k].subject = d
      BY <2>2
    <2> QED
      BY <2>1, <2>2, <2>3, <2>4 DEF RowPlan, StagedRow
  <1> QED
    BY <1>3, <1>4, <1>5, <1>6 DEF events

LEMMA NoWritesType == NoWrites \in Writes
  BY DEF NoWrites, Writes

LEMMA SameLog ==
    ASSUME log' = log
    PROVE  /\ Newest' = Newest
           /\ NextSequence' = NextSequence
           /\ SequencesContiguous' = SequencesContiguous
  BY DEF Newest, NextSequence, SequencesContiguous

-------------------------------------------------------------------------------
(* CoreInv is inductive.                                                   *)

LEMMA CoreInit == Init => CoreInv
  <1> SUFFICES ASSUME Init PROVE CoreInv
    OBVIOUS
  <1>1. TypeOK
    BY NoWritesType DEF Init, TypeOK, Event, Record, Task, Phases, NoReply, Results
  <1>2. {e.seq : e \in log} = {}
    BY DEF Init
  <1>3. Newest = 0
    BY <1>2, MaxOfSegment, SMT DEF Newest
  <1>4. SequencesContiguous
    BY <1>2, <1>3, SMT DEF Init, SequencesContiguous
  <1>5. LockInv /\ UsedInv /\ ReservedInv /\ StagedInv
    BY NoneAssumption DEF Init, LockInv, UsedInv, ReservedInv, StagedInv
  <1> QED
    BY <1>1, <1>3, <1>4, <1>5 DEF CoreInv

LEMMA StagedStays ==
    ASSUME NEW h \in Handlers, Staged(h), log' = log, decisions' = decisions,
           tx'[h] = tx[h], current'[h] = current[h]
    PROVE  Staged(h)'
  <1>1. Newest' = Newest /\ NextSequence' = NextSequence
    BY SameLog
  <1>2. FreshDecisions' = FreshDecisions
    BY DEF FreshDecisions
  <1>3. \A d \in DecisionIds :
            StagedRow(tx[h].events, tx[h].rows, d)
                => StagedRow(tx[h].events, tx[h].rows, d)'
    BY <1>2, SMT DEF StagedRow
  <1> QED
    BY <1>1, <1>3, SMT DEF Staged, IsBlock, StagedRow

LEMMA ReservedStays ==
    ASSUME NEW h \in Handlers, Reserved(h), log' = log,
           tx'[h] = tx[h], current'[h] = current[h]
    PROVE  Reserved(h)'
  <1>1. NextSequence' = NextSequence /\ FreshTasks' = FreshTasks
    BY SameLog DEF FreshTasks
  <1> QED
    BY <1>1 DEF Reserved

(* A step that leaves the tables alone and neither reads a revision nor    *)
(* stages anything.                                                        *)
LEMMA CoreQuiet ==
    ASSUME CoreInv, TypeOK', LockInv', UNCHANGED store,
           \A h \in Handlers : pc'[h] \in {"reserved", "staged"} =>
               pc'[h] = pc[h] /\ tx'[h] = tx[h] /\ current'[h] = current[h]
    PROVE  CoreInv'
  <1>1. log' = log /\ decisions' = decisions
    BY DEF store
  <1>2. UsedInv'
    BY <1>1, SameLog DEF CoreInv, UsedInv, FreshDecisions
  <1>3. StagedInv'
    <2> SUFFICES ASSUME NEW h \in Handlers, pc'[h] = "staged" PROVE Staged(h)'
      BY DEF StagedInv
    <2>1. Staged(h) /\ tx'[h] = tx[h] /\ current'[h] = current[h]
      BY DEF CoreInv, StagedInv
    <2> QED
      BY <1>1, <2>1, StagedStays
  <1>4. ReservedInv'
    <2> SUFFICES ASSUME NEW h \in Handlers, pc'[h] = "reserved" PROVE Reserved(h)'
      BY DEF ReservedInv
    <2>1. Reserved(h) /\ tx'[h] = tx[h] /\ current'[h] = current[h]
      BY DEF CoreInv, ReservedInv
    <2> QED
      BY <1>1, <2>1, ReservedStays
  <1> QED
    BY <1>1, <1>2, <1>3, <1>4, SameLog DEF CoreInv

(* Reading the revision. *)
LEMMA CoreReserve ==
    ASSUME CoreInv, NEW h \in Handlers, ReserveRevision(h)
    PROVE  CoreInv'
  <1>1. PICK t \in FreshTasks :
            tx' = [tx EXCEPT ![h].tasks =
                      {[task |-> t, req |-> current[h].id, revision |-> NextSequence]}]
    BY DEF ReserveRevision
  <1>2. /\ pc[h] = "fresh" /\ current[h].body.method = "agent.task.start"
        /\ pc' = [pc EXCEPT ![h] = "reserved"]
        /\ log' = log /\ decisions' = decisions
        /\ UNCHANGED <<ledger, tasks, roomLock, current, reply>>
    BY DEF ReserveRevision, Asks, store
  <1> DEFINE row == [task |-> t, req |-> current[h].id, revision |-> NextSequence]
  <1>3. row \in Task
    <2>1. current[h] \in Request /\ NextSequence \in Nat
      BY <1>2, RequestsAssumption, SMT DEF CoreInv, TypeOK, NextSequence
    <2> QED
      BY <2>1, SMT DEF Task, FreshTasks, Request
  <1> HIDE DEF row
  <1>4. /\ tx \in [Handlers -> Writes] /\ pc \in [Handlers -> Phases]
        /\ tx' = [tx EXCEPT ![h].tasks = {row}]
    BY <1>1 DEF CoreInv, TypeOK, row
  <1>5. /\ tx' \in [Handlers -> Writes] /\ tx'[h].tasks = {row}
        /\ \A g \in Handlers \ {h} : tx'[g] = tx[g] /\ pc'[g] = pc[g]
        /\ pc' \in [Handlers -> Phases] /\ pc'[h] = "reserved"
    BY <1>2, <1>3, <1>4, SMT DEF Writes, Phases
  <1>6. TypeOK'
    BY <1>2, <1>5 DEF CoreInv, TypeOK
  <1>7. LockInv'
    BY <1>2, <1>5 DEF CoreInv, LockInv
  <1>8. NextSequence' = NextSequence /\ FreshTasks' = FreshTasks
    BY <1>2, SameLog DEF FreshTasks
  <1>9. ReservedInv'
    <2> SUFFICES ASSUME NEW g \in Handlers, pc'[g] = "reserved" PROVE Reserved(g)'
      BY DEF ReservedInv
    <2>1. CASE g = h
      BY <2>1, <1>2, <1>5, <1>8 DEF Reserved, row
    <2>2. CASE g # h
      BY <2>2, <1>2, <1>5, ReservedStays DEF CoreInv, ReservedInv
    <2> QED
      BY <2>1, <2>2
  <1>10. StagedInv'
    <2> SUFFICES ASSUME NEW g \in Handlers, pc'[g] = "staged" PROVE Staged(g)'
      BY DEF StagedInv
    <2>1. g # h /\ pc[g] = "staged" /\ tx'[g] = tx[g] /\ current'[g] = current[g]
      BY <1>2, <1>5
    <2> QED
      BY <2>1, <1>2, StagedStays DEF CoreInv, StagedInv
  <1>11. UsedInv'
    BY <1>2 DEF CoreInv, UsedInv, FreshDecisions
  <1> QED
    BY <1>2, <1>6, <1>7, <1>9, <1>10, <1>11, SameLog DEF CoreInv

LEMMA CoreStage ==
    ASSUME CoreInv, NEW h \in Handlers, pc[h] \in {"fresh", "reserved"}, Staging(h)
    PROVE  CoreInv'
  <1>1. PICK ds \in Seq(DraftType),
             rows \in [DecisionIds -> Statuses \cup {"absent", "keep"}],
             ts \in SUBSET Task :
                 Plan(h, ds, rows, ts) /\ Stage(h, ds, rows, ts)
    BY DEF Staging
  <1>2. current[h] \in Request /\ Newest \in Nat
    BY RequestsAssumption DEF CoreInv, TypeOK
  <1> DEFINE new == Numbered(h, ds)
  <1>3. /\ new \subseteq Event
        /\ \A e, f \in new : e.seq = f.seq => e = f
        /\ {e.seq : e \in new} = NextSequence .. Newest + Len(ds)
    BY <1>2, NumberedEvents
  <1>4. /\ tx' = [tx EXCEPT ![h] = [events |-> new, rows |-> rows, tasks |-> ts]]
        /\ pc' = [pc EXCEPT ![h] = "staged"]
        /\ log' = log
        /\ UNCHANGED <<ledger, decisions, tasks, roomLock, current, reply>>
    BY <1>1 DEF Stage, store
  <1>5. /\ \A e \in new : e.req = current[h].id
        /\ \E types \in Effects(current[h].body) : IsBlock(new, types, NextSequence)
        /\ \A t \in ts :
            /\ t.req = current[h].id
            /\ \E e \in new :
                /\ e.seq = t.revision
                /\ e.type = "agent.task.requested"
                /\ e.subject = t.task
        /\ \A d \in DecisionIds : StagedRow(new, rows, d)
    BY <1>1, <1>2, NumberedPlan
  <1>6. Len(ds) \in 1 .. 4
    BY <1>1 DEF Plan
  <1> HIDE DEF new
  <1>7. TypeOK'
    BY <1>3, <1>4 DEF CoreInv, TypeOK, Writes, Phases
  <1>8. LockInv'
    BY <1>4 DEF CoreInv, TypeOK, LockInv
  <1>9. StagedInv'
    <2> SUFFICES ASSUME NEW g \in Handlers, pc'[g] = "staged" PROVE Staged(g)'
      BY DEF StagedInv
    <2>1. CASE g = h
      <3>1. /\ tx'[h].events = new /\ tx'[h].rows = rows /\ tx'[h].tasks = ts
            /\ current'[h] = current[h]
            /\ Newest' = Newest /\ NextSequence' = NextSequence
            /\ FreshDecisions' = FreshDecisions /\ decisions' = decisions
        BY <1>4, SameLog DEF CoreInv, TypeOK, FreshDecisions
      <3>2. \A d \in DecisionIds : StagedRow(tx[h].events, tx[h].rows, d)'
        BY <3>1, <1>5, SMT DEF StagedRow
      <3>3. \E types \in Effects(current[h].body) :
                IsBlock(tx[h].events, types, NextSequence)'
        BY <3>1, <1>5, SMT DEF IsBlock
      <3> QED
        BY <2>1, <3>1, <3>2, <3>3, <1>3, <1>5, <1>6 DEF Staged
    <2>2. CASE g # h
      <3>1. pc[g] = "staged" /\ tx'[g] = tx[g] /\ current'[g] = current[g]
        BY <2>2, <1>4 DEF CoreInv, TypeOK
      <3> QED
        BY <3>1, <1>4, StagedStays DEF CoreInv, StagedInv
    <2> QED
      BY <2>1, <2>2
  <1>10. UsedInv'
    BY <1>4 DEF CoreInv, UsedInv, FreshDecisions
  <1>11. ReservedInv'
    <2> SUFFICES ASSUME NEW g \in Handlers, pc'[g] = "reserved" PROVE Reserved(g)'
      BY DEF ReservedInv
    <2>1. g # h /\ pc[g] = "reserved" /\ tx'[g] = tx[g] /\ current'[g] = current[g]
      BY <1>4 DEF CoreInv, TypeOK
    <2> QED
      BY <2>1, <1>4, ReservedStays DEF CoreInv, ReservedInv
  <1> QED
    BY <1>4, <1>7, <1>8, <1>9, <1>10, <1>11, SameLog DEF CoreInv

(* What a commit does to the sequence: it extends it by what was staged. *)
LEMMA PersistExtends ==
    ASSUME CoreInv, NEW h \in Handlers, Persist(h)
    PROVE  /\ Newest' \in Nat
           /\ SequencesContiguous'
           /\ \A e \in log, f \in tx[h].events : e.seq < f.seq
  <1>1. PICK n \in 1 .. 4 :
            {e.seq : e \in tx[h].events} = NextSequence .. Newest + n
    BY DEF CoreInv, StagedInv, Staged, Persist
  <1>2. \A e, f \in tx[h].events : e.seq = f.seq => e = f
    BY DEF CoreInv, StagedInv, Staged, Persist
  <1>3. /\ Newest \in Nat
        /\ NextSequence = Newest + 1
        /\ {e.seq : e \in log} = 1 .. Newest
        /\ \A e, f \in log : e.seq = f.seq => e = f
    BY DEF CoreInv, SequencesContiguous, NextSequence
  <1>4. log' = log \cup tx[h].events
    BY DEF Persist
  <1>5. {e.seq : e \in log'}
            = {e.seq : e \in log} \cup {e.seq : e \in tx[h].events}
    BY <1>4
  <1>6. {e.seq : e \in log'} = 1 .. Newest + n
    BY <1>1, <1>3, <1>5, SMT
  <1>7. Newest + n \in Nat
    BY <1>3, SMT
  <1>8. Newest' = Newest + n
    BY <1>6, <1>7, MaxOfSegment DEF Newest
  <1>9. \A e \in log, f \in tx[h].events : e.seq < f.seq
    <2> SUFFICES ASSUME NEW e \in log, NEW f \in tx[h].events PROVE e.seq < f.seq
      OBVIOUS
    <2>1. e.seq \in 1 .. Newest /\ f.seq \in NextSequence .. Newest + n
      BY <1>1, <1>3
    <2> QED
      BY <2>1, <1>3, SMT
  <1>10. \A e, f \in log' : e.seq = f.seq => e = f
    <2> SUFFICES ASSUME NEW e \in log', NEW f \in log', e.seq = f.seq PROVE e = f
      OBVIOUS
    <2>1. CASE e \in log /\ f \in tx[h].events
      <3>1. e.seq < f.seq /\ e.seq \in Int
        BY <2>1, <1>9, <1>3, SMT
      <3> QED
        BY <3>1, SMT
    <2>2. CASE f \in log /\ e \in tx[h].events
      <3>1. f.seq < e.seq /\ f.seq \in Int
        BY <2>2, <1>9, <1>3, SMT
      <3> QED
        BY <3>1, SMT
    <2> QED
      BY <2>1, <2>2, <1>2, <1>3, <1>4
  <1> QED
    BY <1>6, <1>7, <1>8, <1>9, <1>10 DEF SequencesContiguous

LEMMA CorePersist ==
    ASSUME CoreInv, NEW h \in Handlers, Commit(h) \/ CommitUnacknowledged(h)
    PROVE  CoreInv'
  <1>1. Persist(h)
    BY DEF Commit, CommitUnacknowledged
  <1>2. Newest' \in Nat /\ SequencesContiguous'
    BY <1>1, PersistExtends
  <1>3. pc[h] = "staged" /\ roomLock = h /\ roomLock' = None
    BY <1>1 DEF Persist, CoreInv, LockInv
  <1>4. /\ pc' \in [Handlers -> Phases]
        /\ pc'[h] \in {"committed", "answered"}
        /\ \A g \in Handlers \ {h} : pc'[g] = pc[g]
        /\ tx' \in [Handlers -> Writes]
        /\ reply' \in [Handlers -> [result : Results, events : SUBSET Event]]
    <2>1. CASE Commit(h)
      BY <2>1 DEF Commit, CoreInv, TypeOK, Phases
    <2>2. CASE CommitUnacknowledged(h)
      BY <2>2, NoWritesType
         DEF CommitUnacknowledged, Answer, CoreInv, TypeOK, Phases, Results
    <2> QED
      BY <2>1, <2>2
  <1>5. /\ log' \subseteq Event
        /\ tasks' \subseteq Task
        /\ decisions' \in [DecisionIds -> Statuses \cup {"absent"}]
    BY <1>1, SMT DEF Persist, CoreInv, TypeOK, Writes
  <1>6. ledger' \subseteq Record
    <2>1. tx[h].events \subseteq Event
      BY DEF CoreInv, TypeOK, Writes
    <2>2. {e.seq : e \in tx[h].events} \in SUBSET Nat
      BY <2>1 DEF Event
    <2>3. current[h] \in Request
      BY <1>3, RequestsAssumption DEF CoreInv, TypeOK
    <2> DEFINE seqs == {e.seq : e \in tx[h].events}
               rec == [id |-> current[h].id, body |-> current[h].body, seqs |-> seqs]
    <2>4. ledger \subseteq Record /\ ledger' = ledger \cup {rec}
      BY <1>1 DEF Persist, CoreInv, TypeOK
    <2> HIDE DEF seqs
    <2>5. rec \in Record
      BY <2>2, <2>3 DEF Record, Request, seqs
    <2> HIDE DEF rec
    <2> QED
      BY <2>4, <2>5
  <1>7. current' = current
    BY <1>1 DEF Persist
  <1>8. TypeOK'
    BY <1>3, <1>4, <1>5, <1>6, <1>7 DEF CoreInv, TypeOK
  <1>9. \A g \in Handlers : pc'[g] \notin {"locked", "fresh", "reserved", "staged"}
    BY <1>3, <1>4 DEF CoreInv, LockInv
  <1>10. LockInv' /\ ReservedInv' /\ StagedInv'
    BY <1>3, <1>9, NoneAssumption DEF LockInv, ReservedInv, StagedInv
  <1>11. UsedInv'
    <2> SUFFICES ASSUME NEW d \in DecisionIds, decisions'[d] # "absent"
                 PROVE  \E e \in log' : e.subject = d
      BY DEF UsedInv, FreshDecisions
    <2>1. StagedRow(tx[h].events, tx[h].rows, d)
      BY <1>3 DEF CoreInv, StagedInv, Staged
    <2>2. CASE tx[h].rows[d] = "keep"
      BY <2>2, <1>1 DEF Persist, CoreInv, UsedInv, FreshDecisions
    <2>3. CASE tx[h].rows[d] # "keep"
      BY <2>1, <2>3, <1>1 DEF StagedRow, Persist
    <2> QED
      BY <2>2, <2>3
  <1> QED
    BY <1>2, <1>8, <1>10, <1>11 DEF CoreInv

LEMMA CoreReject ==
    ASSUME CoreInv, NEW h \in Handlers, pc[h] # "idle",
           NEW result \in Results, NEW events \in SUBSET Event,
           Rollback(h), Answer(h, result, events), UNCHANGED <<store, current>>
    PROVE  CoreInv'
  <1>1. TypeOK'
    BY NoWritesType DEF CoreInv, TypeOK, Rollback, Answer, store, Phases
  <1>2. LockInv'
    BY NoneAssumption DEF CoreInv, TypeOK, LockInv, Rollback, Answer
  <1>3. \A g \in Handlers :
            pc'[g] \in {"reserved", "staged"} => pc'[g] = pc[g] /\ tx'[g] = tx[g]
    BY DEF CoreInv, TypeOK, Rollback, Answer
  <1> QED
    BY <1>1, <1>2, <1>3, CoreQuiet

LEMMA CoreNext == CoreInv /\ [Next]_vars => CoreInv'
  <1> SUFFICES ASSUME CoreInv, [Next]_vars PROVE CoreInv'
    OBVIOUS
  <1>1. CASE UNCHANGED vars
    <2>1. TypeOK' /\ LockInv' /\ UNCHANGED store
            /\ pc' = pc /\ tx' = tx /\ current' = current
      BY <1>1 DEF CoreInv, TypeOK, LockInv, vars, store
    <2> QED
      BY <2>1, CoreQuiet
  <1>2. ASSUME NEW h \in Handlers, Forbid(h) \/ Begin(h) \/ LockRoom(h) \/ PassLedger(h) \/ Done(h)
        PROVE  CoreInv'
    <2>1. TypeOK'
      <3> USE DEF CoreInv, TypeOK, Phases, store
      <3>1. CASE Forbid(h)
        BY <3>1, SMT DEF Forbid, Results
      <3>2. CASE Begin(h)
        BY <3>2, SMT DEF Begin
      <3>3. CASE LockRoom(h)
        BY <3>3 DEF LockRoom
      <3>4. CASE PassLedger(h)
        BY <3>4 DEF PassLedger
      <3>5. CASE Done(h)
        BY <3>5 DEF Done, Results, NoReply
      <3> QED
        BY <1>2, <3>1, <3>2, <3>3, <3>4, <3>5
    <2>2. LockInv'
      BY <1>2, NoneAssumption, SMT
         DEF Forbid, Begin, LockRoom, PassLedger, Done, CoreInv, TypeOK, LockInv
    <2>3. /\ UNCHANGED store
          /\ \A g \in Handlers :
                pc'[g] \in {"reserved", "staged"} =>
                    pc'[g] = pc[g] /\ tx'[g] = tx[g] /\ current'[g] = current[g]
      BY <1>2 DEF Forbid, Begin, LockRoom, PassLedger, Done, CoreInv, TypeOK
    <2> QED
      BY <2>1, <2>2, <2>3, CoreQuiet
  <1>3. ASSUME NEW h \in Handlers, ReplayPrior(h)
        PROVE  CoreInv'
    <2>1. PICK rec \in Prior(current[h].id) :
            Answer(h, "duplicate", RecordedEvents(rec))
      BY <1>3 DEF ReplayPrior
    <2>2. RecordedEvents(rec) \in SUBSET Event /\ "duplicate" \in Results
      BY DEF RecordedEvents, CoreInv, TypeOK, Results
    <2>3. Rollback(h) /\ UNCHANGED <<store, current>> /\ pc[h] # "idle"
      BY <1>3 DEF ReplayPrior
    <2> QED
      BY <2>1, <2>2, <2>3, CoreReject
  <1>4. ASSUME NEW h \in Handlers, NEW error \in Results, pc[h] # "idle", Reject(h, error)
        PROVE  CoreInv'
    BY <1>4, CoreReject DEF Reject
  <1>5. ASSUME NEW h \in Handlers, RejectConflict(h) \/ Fail(h)
        PROVE  CoreInv'
    BY <1>5, <1>4 DEF RejectConflict, Fail, Results
  <1>6. ASSUME NEW h \in Handlers, Operation(h)
        PROVE  CoreInv'
    BY <1>6, <1>4, OperationCases, CoreStage
  <1>7. ASSUME NEW h \in Handlers, Publish(h)
        PROVE  CoreInv'
    <2>1. tx[h].events \in SUBSET Event /\ "accepted" \in Results
      BY DEF CoreInv, TypeOK, Writes, Results
    <2>2. roomLock # h
      BY <1>7 DEF Publish, CoreInv, LockInv
    <2>3. Rollback(h) /\ Answer(h, "accepted", tx[h].events)
      BY <1>7, <2>2 DEF Publish, Rollback
    <2>4. UNCHANGED <<store, current>> /\ pc[h] # "idle"
      BY <1>7 DEF Publish
    <2> QED
      BY <2>1, <2>3, <2>4, CoreReject
  <1>8. CASE Crash
    <2>1. TypeOK' /\ LockInv'
      BY <1>8, NoWritesType, NoneAssumption
         DEF Crash, CoreInv, TypeOK, LockInv, Phases, Results, NoReply, store
    <2> QED
      BY <1>8, <2>1, CoreQuiet DEF Crash
  <1> QED
    BY <1>1, <1>2, <1>3, <1>5, <1>6, <1>7, <1>8, CoreReserve, CorePersist DEF Next, Step

THEOREM CoreCorrect == Spec => []CoreInv
  BY CoreInit, CoreNext, PTL DEF Spec

(* Every table and every handler keeps its type (process, rooms.rs). *)
THEOREM TypeCorrect == Spec => []TypeOK
  <1>1. CoreInv => TypeOK
    BY DEF CoreInv
  <1> QED
    BY <1>1, CoreCorrect, PTL

(* The room's sequence is 1, 2, 3, ... with no gap and no repetition,      *)
(* whatever handlers interleave, fail or crash                             *)
(* (append_event_in_transaction under lock_room, store.rs).                *)
THEOREM SequenceCorrect == Spec => []SequencesContiguous
  <1>1. CoreInv => SequencesContiguous
    BY DEF CoreInv
  <1> QED
    BY <1>1, CoreCorrect, PTL

-------------------------------------------------------------------------------
(* What a request leaves behind, on top of CoreInv: exactly-once effects,  *)
(* replies that agree, and an event history that agrees with the tables.   *)
(*                                                                         *)
(* ExactlyOnce is not inductive alone.  The ledger lookup happens under    *)
(* the lock and the row is written at the end of the same transaction, so  *)
(* a handler past the lookup must still find nothing under its id when it  *)
(* commits (the first conjunct of HandlerInv), and a handler that          *)
(* committed keeps the complete list of its events until it publishes      *)
(* (the second).                                                           *)

HandlerInv(h) ==
    /\ pc[h] \in {"fresh", "reserved", "staged"} => Prior(current[h].id) = {}
    /\ pc[h] = "committed" =>
        /\ tx[h].events = EventsOf(current[h].id)
        /\ tx[h].events # {}
    /\ pc[h] # "answered" => reply[h].result = "none"
    /\ reply[h].result \in {"accepted", "duplicate"} =>
        /\ reply[h].events = EventsOf(current[h].id)
        /\ reply[h].events # {}

TasksRequested == \A t \in tasks : RequestedAt(t)

EffectInv ==
    /\ CoreInv
    /\ ExactlyOnce
    /\ TasksRequested
    /\ HistoryMatchesTable
    /\ \A h \in Handlers : HandlerInv(h)

LEMMA EffectInit == Init => EffectInv
  <1> SUFFICES ASSUME Init PROVE EffectInv
    OBVIOUS
  <1>1. CoreInv
    BY CoreInit
  <1>2. ExactlyOnce /\ TasksRequested
    BY DEF Init, ExactlyOnce, TasksRequested
  <1>3. HistoryMatchesTable
    BY DEF Init, HistoryMatchesTable, ActiveDecisions
  <1>4. \A h \in Handlers : HandlerInv(h)
    BY DEF Init, HandlerInv, NoReply
  <1> QED
    BY <1>1, <1>2, <1>3, <1>4 DEF EffectInv

(* A step that leaves the tables alone keeps what is said of them. *)
LEMMA TablesStay ==
    ASSUME EffectInv, UNCHANGED store
    PROVE  /\ ExactlyOnce' /\ TasksRequested' /\ HistoryMatchesTable'
           /\ \A id : Prior(id)' = Prior(id) /\ EventsOf(id)' = EventsOf(id)
  <1>1. log' = log /\ ledger' = ledger /\ decisions' = decisions /\ tasks' = tasks
    BY DEF store
  <1>2. \A id : Prior(id)' = Prior(id) /\ EventsOf(id)' = EventsOf(id)
    BY <1>1 DEF Prior, EventsOf
  <1>3. \A rec : WholeEffect(rec) => WholeEffect(rec)'
    BY <1>2 DEF WholeEffect
  <1>4. ExactlyOnce'
    BY <1>1, <1>2, <1>3 DEF EffectInv, ExactlyOnce
  <1>5. TasksRequested'
    BY <1>1 DEF EffectInv, TasksRequested, RequestedAt
  <1>6. HistoryMatchesTable'
    BY <1>1 DEF EffectInv, HistoryMatchesTable, ActiveDecisions
  <1> QED
    BY <1>2, <1>4, <1>5, <1>6

(* The locals of the other handlers. *)
OthersStay(h) ==
    \A g \in Handlers \ {h} :
        /\ pc'[g] = pc[g]
        /\ current'[g] = current[g]
        /\ tx'[g] = tx[g]
        /\ reply'[g] = reply[g]

(* So a step of one handler that leaves the tables alone is a matter of    *)
(* that handler.                                                           *)
LEMMA EffectQuiet ==
    ASSUME EffectInv, CoreInv', UNCHANGED store,
           NEW h \in Handlers, OthersStay(h), HandlerInv(h)'
    PROVE  EffectInv'
  <1>1. /\ ExactlyOnce' /\ TasksRequested' /\ HistoryMatchesTable'
        /\ \A id : Prior(id)' = Prior(id) /\ EventsOf(id)' = EventsOf(id)
    BY TablesStay
  <1>2. ASSUME NEW g \in Handlers \ {h} PROVE HandlerInv(g)'
    BY <1>1, SMT DEF HandlerInv, OthersStay, EffectInv
  <1> QED
    BY <1>1, <1>2 DEF EffectInv

(* A recorded request's row names all the events of its id. *)
LEMMA RecordedAll ==
    ASSUME SequencesContiguous, NEW rec \in ledger, WholeEffect(rec)
    PROVE  RecordedEvents(rec) = EventsOf(rec.id) /\ EventsOf(rec.id) # {}
  <1>1. rec.seqs = {e.seq : e \in EventsOf(rec.id)} /\ rec.seqs # {}
    BY DEF WholeEffect
  <1>2. \A e \in log : e.seq \in rec.seqs => e \in EventsOf(rec.id)
    BY <1>1 DEF EventsOf, SequencesContiguous
  <1> QED
    BY <1>1, <1>2 DEF RecordedEvents, EventsOf

(* What a commit does to the ledger and to the events of each id. *)
LEMMA PersistEvents ==
    ASSUME EffectInv, NEW h \in Handlers, Persist(h)
    PROVE  /\ EventsOf(current[h].id)' = tx[h].events
           /\ tx[h].events # {}
           /\ \A id : id # current[h].id =>
                EventsOf(id)' = EventsOf(id) /\ Prior(id)' = Prior(id)
           /\ \A id : EventsOf(id) # {} => id # current[h].id
  <1>1. /\ log' = log \cup tx[h].events
        /\ Prior(current[h].id) = {}
        /\ current' = current
        /\ Staged(h)
    BY DEF Persist, KeysFree, EffectInv, CoreInv, StagedInv
  <1>2. \A e \in log : e.req # current[h].id
    BY <1>1 DEF EffectInv, ExactlyOnce
  <1>3. \A e \in tx[h].events : e.req = current[h].id
    BY <1>1 DEF Staged
  <1>4. tx[h].events # {}
    <2>1. PICK n \in 1 .. 4 : {e.seq : e \in tx[h].events} = NextSequence .. Newest + n
      BY <1>1 DEF Staged
    <2>2. NextSequence \in NextSequence .. Newest + n
      BY SMT DEF NextSequence, EffectInv, CoreInv
    <2> QED
      BY <2>1, <2>2
  <1>5. EventsOf(current[h].id)' = tx[h].events
    BY <1>1, <1>2, <1>3 DEF EventsOf
  <1>6. \A id : id # current[h].id => EventsOf(id)' = EventsOf(id)
    BY <1>1, <1>3 DEF EventsOf
  <1>7. \A id : id # current[h].id => Prior(id)' = Prior(id)
    BY SMT DEF Prior, Persist
  <1>8. \A id : EventsOf(id) # {} => id # current[h].id
    BY <1>2 DEF EventsOf
  <1> QED
    BY <1>4, <1>5, <1>6, <1>7, <1>8

LEMMA PersistOnce ==
    ASSUME EffectInv, NEW h \in Handlers, Persist(h)
    PROVE  ExactlyOnce'
  <1>0. PICK id, new :
            /\ id = current[h].id
            /\ new = [id |-> id, body |-> current[h].body,
                      seqs |-> {e.seq : e \in tx[h].events}]
    OBVIOUS
  <1>1. /\ EventsOf(id)' = tx[h].events
        /\ \A i : i # id => EventsOf(i)' = EventsOf(i) /\ Prior(i)' = Prior(i)
    BY <1>0, PersistEvents DEF Persist
  <1>2. /\ ledger' = ledger \cup {new}
        /\ log' = log \cup tx[h].events
        /\ \A rec \in ledger : rec.id # id
        /\ Staged(h)
    BY <1>0 DEF Persist, KeysFree, Prior, EffectInv, CoreInv, StagedInv
  <1>3. new.id = id /\ new.body = current[h].body /\ new \in ledger'
        /\ new.seqs = {e.seq : e \in tx[h].events}
    BY <1>0, <1>2
  <1>4. \A rec, other \in ledger' : rec.id = other.id => rec = other
    BY <1>2, <1>3 DEF EffectInv, ExactlyOnce
  <1>5. \A e \in log' : Prior(e.req)' # {}
    <2>1. \A e \in tx[h].events : e.req = id
      BY <1>0, <1>2 DEF Staged
    <2>2. new \in Prior(id)'
      BY <1>3 DEF Prior
    <2> QED
      BY <1>1, <1>2, <2>1, <2>2 DEF EffectInv, ExactlyOnce
  <1>6. ASSUME NEW rec \in ledger PROVE WholeEffect(rec)'
    <2>1. EventsOf(rec.id)' = EventsOf(rec.id)
      BY <1>1, <1>2
    <2> QED
      BY <2>1, SMT DEF WholeEffect, EffectInv, ExactlyOnce
  <1>7. WholeEffect(new)'
    <2>1. PICK types \in Effects(current[h].body) :
                IsBlock(tx[h].events, types, NextSequence)
      BY <1>2 DEF Staged
    <2>2. NextSequence \in new.seqs
      <3>1. PICK n \in 1 .. 4 :
                {e.seq : e \in tx[h].events} = NextSequence .. Newest + n
        BY <1>2 DEF Staged
      <3>2. Newest \in Nat
        BY DEF EffectInv, CoreInv
      <3>3. NextSequence \in NextSequence .. Newest + n
        BY <3>2, SMT DEF NextSequence
      <3> QED
        BY <1>3, <3>1, <3>3
    <2>3. \E ty \in Effects(new.body), first \in new.seqs :
            IsBlock(tx[h].events, ty, first)
      BY <2>1, <2>2, <1>3
    <2> QED
      BY <2>3, <1>1, <1>3 DEF WholeEffect
  <1> QED
    BY <1>2, <1>4, <1>5, <1>6, <1>7 DEF ExactlyOnce

LEMMA PersistContext ==
    ASSUME EffectInv, NEW h \in Handlers, Persist(h)
    PROVE  TasksRequested'
  <1>1. Staged(h) /\ log' = log \cup tx[h].events /\ tasks' = tasks \cup tx[h].tasks
    BY DEF Persist, EffectInv, CoreInv, StagedInv
  <1>2. ASSUME NEW t \in tx[h].tasks
        PROVE  \E e \in log' : /\ e.seq = t.revision
                               /\ e.type = "agent.task.requested"
                               /\ e.subject = t.task
                               /\ e.req = t.req
    BY <1>1 DEF Staged
  <1> QED
    BY <1>1, <1>2 DEF TasksRequested, RequestedAt, EffectInv

LEMMA PersistHistory ==
    ASSUME EffectInv, NEW h \in Handlers, Persist(h)
    PROVE  HistoryMatchesTable'
  <1> DEFINE new == tx[h].events
             Confirms(e, d) == e.subject = d /\ e.type = "decision.confirmed"
             Ends(e, d) == e.subject = d /\ e.type \in Endings
             InForce(es, d) == \E c \in es : /\ Confirms(c, d)
                                             /\ \A x \in es : Ends(x, d) => x.seq < c.seq
  <1>1. /\ Staged(h) /\ log' = log \cup new
        /\ decisions' = [d \in DecisionIds |->
                IF tx[h].rows[d] = "keep" THEN decisions[d] ELSE tx[h].rows[d]]
        /\ log \subseteq Event /\ new \subseteq Event
    BY DEF Persist, EffectInv, CoreInv, StagedInv, TypeOK, Writes
  <1>order. \A e \in log, f \in new : e.seq < f.seq /\ e.seq \in Nat /\ f.seq \in Nat
    BY <1>1, PersistExtends DEF EffectInv, Event
  <1>2. \A d \in DecisionIds : InForce(log, d) <=> decisions[d] = "active"
    BY DEF EffectInv, HistoryMatchesTable, ActiveDecisions
  <1> SUFFICES ASSUME NEW d \in DecisionIds
               PROVE  InForce(log', d) <=> decisions'[d] = "active"
    BY SMT DEF HistoryMatchesTable, ActiveDecisions
  <1>3. /\ tx[h].rows[d] = "active" <=> \E e \in new : Confirms(e, d)
        /\ tx[h].rows[d] \in {"dismissed", "superseded", "absent"}
            <=> \E e \in new : Ends(e, d)
        /\ tx[h].rows[d] = "draft" => \A e \in log : e.subject # d
        /\ tx[h].rows[d] \in Statuses \cup {"absent", "keep"}
    BY <1>1, SMT DEF Staged, StagedRow, FreshDecisions, EffectInv, CoreInv, TypeOK, Writes
  <1> HIDE DEF new
  <1>4. CASE tx[h].rows[d] = "keep"
    BY <1>1, <1>2, <1>3, <1>4
  <1>5. CASE tx[h].rows[d] = "active"
    <2>1. PICK c \in new : Confirms(c, d)
      BY <1>3, <1>5
    <2>2. \A x \in log' : Ends(x, d) => x.seq < c.seq
      BY <1>1, <1>order, <1>3, <1>5
    <2> QED
      BY <1>1, <1>5, <2>1, <2>2
  <1>6. CASE tx[h].rows[d] \in {"dismissed", "superseded", "absent"}
    <2>1. PICK x \in new : Ends(x, d)
      BY <1>3, <1>6
    <2>2. \A c \in log' : Confirms(c, d) => c \in log
      BY <1>1, <1>3, <1>6
    <2>3. \A c \in log : ~(x.seq < c.seq)
      BY <1>order, SMT
    <2>4. ~InForce(log', d)
      BY <1>1, <2>1, <2>2, <2>3
    <2> QED
      BY <1>1, <1>6, <2>4
  <1>7. CASE tx[h].rows[d] = "draft"
    BY <1>1, <1>3, <1>7
  <1> QED
    BY <1>3, <1>4, <1>5, <1>6, <1>7 DEF Statuses

LEMMA EffectPersist ==
    ASSUME EffectInv, CoreInv', NEW h \in Handlers,
           Commit(h) \/ CommitUnacknowledged(h)
    PROVE  EffectInv'
  <1>1. Persist(h) /\ pc[h] = "staged" /\ current' = current
    BY DEF Commit, CommitUnacknowledged, Persist
  <1>2. /\ EventsOf(current[h].id)' = tx[h].events
        /\ tx[h].events # {}
        /\ \A id : id # current[h].id =>
                EventsOf(id)' = EventsOf(id) /\ Prior(id)' = Prior(id)
        /\ \A id : EventsOf(id) # {} => id # current[h].id
    BY <1>1, PersistEvents
  <1>3. OthersStay(h)
    BY <1>1 DEF Commit, CommitUnacknowledged, Answer, OthersStay, EffectInv, CoreInv, TypeOK
  <1>4. HandlerInv(h)'
    <2>1. reply[h].result = "none"
      BY <1>1 DEF EffectInv, HandlerInv
    <2>2. CASE Commit(h)
      <3>1. pc'[h] = "committed" /\ tx'[h] = tx[h] /\ reply'[h] = reply[h]
        BY <2>2 DEF Commit, EffectInv, CoreInv, TypeOK
      <3> QED
        BY <3>1, <2>1, <1>1, <1>2 DEF HandlerInv
    <2>3. CASE CommitUnacknowledged(h)
      <3>1. pc'[h] = "answered" /\ reply'[h].result = "internal_error"
        BY <2>3 DEF CommitUnacknowledged, Answer, EffectInv, CoreInv, TypeOK
      <3> QED
        BY <3>1 DEF HandlerInv
    <2> QED
      BY <2>2, <2>3
  <1>5. ASSUME NEW g \in Handlers \ {h} PROVE HandlerInv(g)'
    <2>1. pc[g] \notin {"locked", "fresh", "reserved", "staged"}
      BY <1>1 DEF EffectInv, CoreInv, LockInv
    <2>2. EventsOf(current[g].id) # {} =>
            EventsOf(current[g].id)' = EventsOf(current[g].id)
      BY <1>1, <1>2
    <2>3. HandlerInv(g)
      BY DEF EffectInv
    <2> QED
      BY <1>1, <1>3, <2>1, <2>2, <2>3 DEF HandlerInv, OthersStay
  <1> QED
    BY <1>1, <1>4, <1>5, PersistOnce, PersistContext, PersistHistory DEF EffectInv

LEMMA EffectReject ==
    ASSUME EffectInv, CoreInv', NEW h \in Handlers, NEW result, NEW events,
           Rollback(h), Answer(h, result, events), UNCHANGED <<store, current>>,
           result \in {"accepted", "duplicate"} =>
                events = EventsOf(current[h].id) /\ events # {}
    PROVE  EffectInv'
  <1>1. OthersStay(h)
    BY DEF Rollback, Answer, OthersStay, EffectInv, CoreInv, TypeOK
  <1>2. /\ pc'[h] = "answered"
        /\ reply'[h].result = result /\ reply'[h].events = events
        /\ current'[h] = current[h]
    BY DEF Answer, EffectInv, CoreInv, TypeOK
  <1>3. EventsOf(current[h].id)' = EventsOf(current[h].id)
    BY TablesStay
  <1>4. HandlerInv(h)'
    BY <1>2, <1>3 DEF HandlerInv
  <1> QED
    BY <1>1, <1>4, EffectQuiet

LEMMA EffectNext == EffectInv /\ [Next]_vars => EffectInv'
  <1> SUFFICES ASSUME EffectInv, [Next]_vars PROVE EffectInv'
    OBVIOUS
  <1>0. CoreInv'
    BY CoreNext DEF EffectInv
  <1>1. CASE UNCHANGED vars
    <2>1. UNCHANGED store /\ pc' = pc /\ current' = current /\ tx' = tx /\ reply' = reply
      BY <1>1 DEF vars, store
    <2> QED
      BY <2>1, <1>0, TablesStay DEF EffectInv, HandlerInv
  <1>2. ASSUME NEW h \in Handlers, Forbid(h) \/ Begin(h) \/ LockRoom(h) \/ PassLedger(h) \/ Done(h)
        PROVE  EffectInv'
    <2>1. UNCHANGED store /\ OthersStay(h)
      BY <1>2 DEF Forbid, Begin, LockRoom, PassLedger, Done, OthersStay,
                  EffectInv, CoreInv, TypeOK
    <2>2. Prior(current[h].id)' = Prior(current[h].id) \/ current'[h] # current[h]
      BY <2>1, TablesStay
    <2>3. HandlerInv(h)'
      <3> USE DEF EffectInv, CoreInv, TypeOK, HandlerInv
      <3>1. CASE Forbid(h)
        BY <3>1 DEF Forbid
      <3>2. CASE Begin(h)
        BY <3>2 DEF Begin
      <3>3. CASE LockRoom(h)
        BY <3>3 DEF LockRoom
      <3>4. CASE PassLedger(h)
        BY <3>4, <2>2 DEF PassLedger
      <3>5. CASE Done(h)
        BY <3>5 DEF Done, NoReply
      <3> QED
        BY <1>2, <3>1, <3>2, <3>3, <3>4, <3>5
    <2> QED
      BY <1>0, <2>1, <2>3, EffectQuiet
  <1>3. ASSUME NEW h \in Handlers, ReplayPrior(h)
        PROVE  EffectInv'
    <2>1. PICK rec \in Prior(current[h].id) :
            Answer(h, "duplicate", RecordedEvents(rec))
      BY <1>3 DEF ReplayPrior
    <2>2. RecordedEvents(rec) = EventsOf(current[h].id) /\ RecordedEvents(rec) # {}
      BY RecordedAll DEF Prior, EffectInv, CoreInv, ExactlyOnce
    <2>3. Rollback(h) /\ UNCHANGED <<store, current>>
      BY <1>3 DEF ReplayPrior
    <2> QED
      BY <1>0, <2>1, <2>2, <2>3, EffectReject
  <1>4. ASSUME NEW h \in Handlers, NEW error \in Results \ {"accepted", "duplicate"},
               Reject(h, error)
        PROVE  EffectInv'
    BY <1>0, <1>4, EffectReject DEF Reject
  <1>5. ASSUME NEW h \in Handlers, RejectConflict(h) \/ Fail(h)
        PROVE  EffectInv'
    BY <1>5, <1>4 DEF RejectConflict, Fail, Results
  <1>6. ASSUME NEW h \in Handlers, pc[h] \in {"fresh", "reserved"}, Staging(h)
        PROVE  EffectInv'
    <2>1. /\ UNCHANGED <<store, current, reply>> /\ pc'[h] = "staged"
          /\ OthersStay(h)
      BY <1>6 DEF Staging, Stage, OthersStay, EffectInv, CoreInv, TypeOK
    <2>2. Prior(current[h].id)' = Prior(current[h].id)
      BY <2>1, TablesStay
    <2>3. HandlerInv(h)'
      BY <1>6, <2>1, <2>2 DEF HandlerInv, EffectInv
    <2> QED
      BY <1>0, <2>1, <2>3, EffectQuiet
  <1>7. ASSUME NEW h \in Handlers, Operation(h)
        PROVE  EffectInv'
    BY <1>4, <1>6, <1>7, OperationCases DEF EffectInv
  <1>8. ASSUME NEW h \in Handlers, Publish(h)
        PROVE  EffectInv'
    <2>1. roomLock # h /\ pc[h] = "committed"
      BY <1>8 DEF Publish, EffectInv, CoreInv, LockInv
    <2>2. Rollback(h) /\ Answer(h, "accepted", tx[h].events)
      BY <1>8, <2>1 DEF Publish, Rollback
    <2>3. UNCHANGED <<store, current>>
      BY <1>8 DEF Publish
    <2>4. tx[h].events = EventsOf(current[h].id) /\ tx[h].events # {}
      BY <2>1 DEF EffectInv, HandlerInv
    <2> QED
      BY <1>0, <2>2, <2>3, <2>4, EffectReject
  <1>9. CASE Crash
    <2>1. UNCHANGED store
      BY <1>9 DEF Crash
    <2>2. \A h \in Handlers : HandlerInv(h)'
      BY <1>9 DEF Crash, HandlerInv, NoReply
    <2> QED
      BY <1>0, <2>1, <2>2, TablesStay DEF EffectInv
  <1>10. ASSUME NEW h \in Handlers, ReserveRevision(h)
         PROVE  EffectInv'
    <2>1. /\ UNCHANGED <<store, current, reply>> /\ pc[h] = "fresh" /\ pc'[h] = "reserved"
          /\ OthersStay(h)
      BY <1>10 DEF ReserveRevision, Asks, OthersStay, EffectInv, CoreInv, TypeOK
    <2>2. Prior(current[h].id)' = Prior(current[h].id)
      BY <2>1, TablesStay
    <2>3. HandlerInv(h)'
      BY <2>1, <2>2 DEF HandlerInv, EffectInv
    <2> QED
      BY <1>0, <2>1, <2>3, EffectQuiet
  <1> QED
    BY <1>0, <1>1, <1>2, <1>3, <1>5, <1>7, <1>8, <1>9, <1>10, EffectPersist DEF Next, Step

THEOREM EffectCorrect == Spec => []EffectInv
  BY EffectInit, EffectNext, PTL DEF Spec

(* A request takes effect at most once and then as a whole, and every      *)
(* event belongs to a recorded request, whatever retries, races, errors    *)
(* and crashes happen (process, rooms.rs; prior_request and                *)
(* record_request, store.rs).                                              *)
THEOREM ExactlyOnceCorrect == Spec => []ExactlyOnce
  <1>1. EffectInv => ExactlyOnce
    BY DEF EffectInv
  <1> QED
    BY <1>1, EffectCorrect, PTL

(* The first answer and every duplicate's answer name the same events      *)
(* (prior_request and events_by_id, store.rs).                             *)
THEOREM RepliesCorrect == Spec => []RepliesAgree
  <1>1. EffectInv => RepliesAgree
    BY DEF EffectInv, HandlerInv, RepliesAgree
  <1> QED
    BY <1>1, EffectCorrect, PTL

(* The decisions the history says are in force are the active rows of the  *)
(* decisions table (active_decisions, agent_service.rs; the transitions,   *)
(* rooms.rs).                                                              *)
THEOREM HistoryCorrect == Spec => []HistoryMatchesTable
  <1>1. EffectInv => HistoryMatchesTable
    BY DEF EffectInv
  <1> QED
    BY <1>1, EffectCorrect, PTL

(* The sequence that start_agent_task_in_transaction reads is still the    *)
(* next one when it appends, whatever any number of handlers do in         *)
(* between, so its own check never fails and an agent task's context       *)
(* revision is the sequence of its own requested event (store.rs).         *)
THEOREM ContextCorrect == Spec => []ContextEndsAtRequest
  <1>1. ASSUME CoreInv, NEW h \in Handlers, pc[h] = "reserved", NEW row \in tx[h].tasks
        PROVE  row.revision = NextSequence
    <2>1. PICK t \in FreshTasks :
            tx[h].tasks = {[task |-> t, req |-> current[h].id, revision |-> NextSequence]}
      BY <1>1 DEF CoreInv, ReservedInv, Reserved
    <2> QED
      BY <2>1, SMT
  <1>2. EffectInv => ContextEndsAtRequest
    BY <1>1 DEF EffectInv, TasksRequested, ContextEndsAtRequest
  <1> QED
    BY <1>2, EffectCorrect, PTL

(* A step moves a decision only along its lifecycle. *)
LEMMA LifecycleStep ==
    CoreInv /\ [Next]_vars => [\A d \in DecisionIds : DecisionStep(d)]_vars
  <1> SUFFICES ASSUME CoreInv, Next, NEW d \in DecisionIds
               PROVE  DecisionStep(d)
    OBVIOUS
  <1>1. ASSUME NEW h \in Handlers, Persist(h)
        PROVE  DecisionStep(d)
    <2>1. /\ StagedRow(tx[h].events, tx[h].rows, d)
          /\ tx[h].rows[d] \in Statuses \cup {"absent", "keep"}
          /\ decisions[d] \in Statuses \cup {"absent"}
          /\ decisions'[d] = IF tx[h].rows[d] = "keep" THEN decisions[d]
                                                       ELSE tx[h].rows[d]
          /\ decisions[d] # "absent" => d \notin FreshDecisions
      BY <1>1, SMT DEF Persist, CoreInv, StagedInv, Staged, TypeOK, Writes, UsedInv
    <2>2. d \in FreshDecisions => \A e \in log : e.subject # d
      BY DEF FreshDecisions
    <2> QED
      BY <2>1, <2>2 DEF StagedRow, DecisionStep, Statuses
  <1>2. ASSUME decisions' = decisions
        PROVE  DecisionStep(d)
    BY <1>2 DEF DecisionStep, CoreInv, TypeOK
  <1>3. ASSUME NEW h \in Handlers, Operation(h)
        PROVE  decisions' = decisions
    BY <1>3, OperationCases DEF Reject, Staging, Stage, store
  <1>4. decisions' = decisions \/ \E h \in Handlers : Persist(h)
    BY <1>3 DEF Next, Step, Forbid, Begin, LockRoom, ReplayPrior, RejectConflict,
                Reject, PassLedger, ReserveRevision, Commit, CommitUnacknowledged, Publish, Fail,
                Done, Crash, store
  <1> QED
    BY <1>1, <1>2, <1>4

(* A decision leaves draft once and never comes back; a deleted id is not  *)
(* reused (transition_decision_in_transaction and                          *)
(* delete_decision_in_transaction, rooms.rs).                              *)
THEOREM LifecycleCorrect == Spec => DecisionLifecycle
  BY CoreCorrect, LifecycleStep, PTL DEF Spec, DecisionLifecycle


(* A request that asks for a task appends nothing that moves a decision. *)
LEMMA RequestedAlone ==
    ASSUME NEW body \in Body, NEW types \in Effects(body), NEW k \in DOMAIN types,
           types[k] = "agent.task.requested"
    PROVE  \A i \in DOMAIN types : types[i] \notin Endings \cup {"decision.confirmed"}
  <1>1. CASE body.method = "agent.task.start"
    <2>1. types = <<"agent.task.requested">>
      BY <1>1 DEF Effects
    <2> QED
      BY <2>1, SMT DEF Endings
  <1>2. CASE body.method = "chat.send"
    <2>1. \/ types = <<"message.created">>
          \/ \E end \in {"agent.task.succeeded", "agent.task.failed"} :
                types = <<"message.created", "agent.task.queued", "agent.task.running", end>>
      BY <1>2 DEF Effects
    <2> QED
      BY <2>1, SMT DEF Endings
  <1>3. CASE body.method = "decision.propose"
    <2>1. types = <<"decision.proposed">>
      BY <1>3 DEF Effects
    <2> QED
      BY <2>1, SMT
  <1>4. CASE body.method = "decision.delete"
    <2>1. types = <<"decision.deleted">>
      BY <1>4 DEF Effects
    <2> QED
      BY <2>1, SMT
  <1>5. CASE body.method = "decision.transition"
    <2>1. \/ types = <<"decision.confirmed">> \/ types = <<"decision.dismissed">>
          \/ types = <<"decision.edited", "decision.confirmed">>
      BY <1>5 DEF Effects
    <2> QED
      BY <2>1, SMT
  <1> QED
    BY <1>1, <1>2, <1>3, <1>4, <1>5 DEF Body

(* Events that neither confirm nor end a decision leave the decisions in   *)
(* force alone.                                                            *)
LEMMA ActiveStays ==
    ASSUME NEW old, NEW new, \A e \in new : e.type \notin Endings \cup {"decision.confirmed"}
    PROVE  ActiveDecisions(old \cup new) = ActiveDecisions(old)
  BY DEF ActiveDecisions

LEMMA ContextSteps ==
    EffectInv /\ [Next]_vars => [\A t \in tasks' : ContextStep(t)]_vars
  <1> SUFFICES ASSUME EffectInv, Next, NEW t \in tasks'
               PROVE  ContextStep(t)
    OBVIOUS
  <1>1. ASSUME log' = log, tasks' = tasks
        PROVE  ContextStep(t)
    BY <1>1 DEF ContextStep, ContextPacket, ContextEvents, ActiveDecisions
  <1>2. ASSUME NEW h \in Handlers, Persist(h)
        PROVE  ContextStep(t)
    <2> DEFINE new == tx[h].events
    <2>1. /\ Staged(h) /\ log' = log \cup new /\ tasks' = tasks \cup tx[h].tasks
          /\ current[h].body \in Body
      BY <1>2, RequestsAssumption
          DEF Persist, EffectInv, CoreInv, StagedInv, TypeOK, Request
    <2>2. \A e \in log, f \in new : e.seq < f.seq /\ e.seq \in Nat /\ f.seq \in Nat
      BY <1>2, PersistExtends, SMT DEF EffectInv, CoreInv, TypeOK, Writes, Event
    <2>3. CASE t \in tasks
      <3>1. PICK r \in log : r.seq = t.revision
        BY <2>3 DEF EffectInv, TasksRequested, RequestedAt
      <3>2. \A e \in new : ~(e.seq <= t.revision)
        BY <2>2, <3>1, SMT
      <3>3. ContextEvents(t)' = ContextEvents(t)
        BY <2>1, <3>2 DEF ContextEvents
      <3>4. ContextPacket(t)' = ContextPacket(t)
        BY <3>3 DEF ContextPacket, ActiveDecisions
      <3> QED
        BY <2>3, <3>4 DEF ContextStep
    <2>4. CASE t \notin tasks
      <3>1. PICK r \in new : r.seq = t.revision /\ r.type = "agent.task.requested"
        BY <2>1, <2>4 DEF Staged
      <3>2. PICK types \in Effects(current[h].body) : IsBlock(new, types, NextSequence)
        BY <2>1 DEF Staged
      <3>3. \A e \in new : \E k \in DOMAIN types : e.type = types[k]
        <4>1. TAKE e \in new
        <4>2. [seq |-> e.seq, type |-> e.type] \in
                {[seq |-> NextSequence + k - 1, type |-> types[k]] : k \in DOMAIN types}
          BY <3>2 DEF IsBlock
        <4> QED
          BY <4>2
      <3>4. \A e \in new : e.type \notin Endings \cup {"decision.confirmed"}
        BY <2>1, <3>1, <3>3, RequestedAlone
      <3> DEFINE seen == {e \in new : e.seq <= t.revision}
      <3>5. ContextEvents(t)' = log \cup seen
        <4>1. \A e \in log : e.seq <= t.revision
          BY <2>2, <3>1, SMT
        <4> QED
          BY <2>1, <4>1 DEF ContextEvents
      <3>6. \A e \in seen : e.type \notin Endings \cup {"decision.confirmed"}
        BY <3>4
      <3> HIDE DEF seen
      <3>7. ActiveDecisions(log \cup seen) = {d \in DecisionIds : decisions[d] = "active"}
        BY <3>6, ActiveStays DEF EffectInv, HistoryMatchesTable
      <3>8. (ContextPacket(t)').active = ActiveDecisions(log \cup seen)
        BY <3>5 DEF ContextPacket, ActiveDecisions
      <3> QED
        BY <2>4, <3>7, <3>8 DEF ContextStep
    <2> QED
      BY <2>3, <2>4
  <1>3. ASSUME NEW h \in Handlers, Operation(h)
        PROVE  UNCHANGED store
    BY <1>3, OperationCases DEF Reject, Staging, Stage, EffectInv
  <1>4. UNCHANGED store \/ \E h \in Handlers : Persist(h)
    BY <1>3 DEF Next, Step, Forbid, Begin, LockRoom, ReplayPrior, RejectConflict,
                Reject, PassLedger, ReserveRevision, Commit, CommitUnacknowledged, Publish, Fail,
                Done, Crash
  <1> QED
    BY <1>1, <1>2, <1>4 DEF store

(* Every worker that claims a task is shown the same context, whose        *)
(* decisions are those in force when the task was requested, whatever is   *)
(* decided or deleted meanwhile (context_for_lease, context_packet).       *)
THEOREM TaskContextCorrect == Spec => TaskContextFixed
  BY EffectCorrect, ContextSteps, PTL DEF Spec, TaskContextFixed


-------------------------------------------------------------------------------
(* The transactions implement the atomic requests of RoomLog.              *)

(* Nobody has been told anything while the request is running. *)
SilentInv == \A h \in Handlers : pc[h] # "answered" => reply[h].events = {}

LEMMA SilentStep ==
    ASSUME EffectInv, SilentInv, [Next]_vars
    PROVE  SilentInv'
  <1> USE DEF SilentInv
  <1>0. /\ pc \in [Handlers -> Phases]
        /\ reply \in [Handlers -> [result : Results, events : SUBSET Event]]
    BY DEF EffectInv, CoreInv, TypeOK
  <1>1. ASSUME NEW h \in Handlers, NEW result, NEW events, Answer(h, result, events)
        PROVE  SilentInv'
    BY <1>0, <1>1 DEF Answer
  <1>2. ASSUME NEW h \in Handlers, reply' = reply, NEW p, pc' = [pc EXCEPT ![h] = p],
               pc[h] # "answered"
        PROVE  SilentInv'
    BY <1>0, <1>2
  <1>3. ASSUME NEW h \in Handlers, Operation(h)
        PROVE  SilentInv'
    <2>1. pc[h] # "answered"
      BY <1>3, OperationCases DEF EffectInv
    <2>2. CASE \E error \in Results \ {"accepted", "duplicate"} : Reject(h, error)
      BY <1>1, <2>2 DEF Reject
    <2>3. CASE Staging(h)
      BY <1>2, <2>1, <2>3 DEF Staging, Stage
    <2> QED
      BY <1>3, <2>2, <2>3, OperationCases DEF EffectInv
  <1>4. ASSUME NEW h \in Handlers,
               \/ ReplayPrior(h) \/ RejectConflict(h) \/ CommitUnacknowledged(h)
               \/ Publish(h) \/ Fail(h)
        PROVE  SilentInv'
    BY <1>1, <1>4 DEF ReplayPrior, RejectConflict, CommitUnacknowledged, Publish, Fail,
        Reject
  <1>5. ASSUME NEW h \in Handlers,
               \/ Begin(h) \/ LockRoom(h) \/ PassLedger(h) \/ ReserveRevision(h)
               \/ Commit(h)
        PROVE  SilentInv'
    BY <1>2, <1>5 DEF Begin, LockRoom, PassLedger, ReserveRevision, Asks, Commit, Persist
  <1>6. ASSUME NEW h \in Handlers, Forbid(h) \/ Done(h)
        PROVE  SilentInv'
    BY <1>0, <1>6, SMT DEF Forbid, Done, NoReply
  <1>7. CASE Crash \/ UNCHANGED vars
    BY <1>7, SMT DEF Crash, NoReply, vars
  <1> QED
    BY <1>3, <1>4, <1>5, <1>6, <1>7 DEF Next, Step

LEMMA VisibleFacts ==
    /\ VisibleEvents({}) = {}
    /\ \A S, T : VisibleEvents(S \cup T) = VisibleEvents(S) \cup VisibleEvents(T)
    /\ \A id : {e \in VisibleEvents(log) : e.req = id} = VisibleEvents(EventsOf(id))
  BY SMT DEF VisibleEvents, EventsOf

(* A step of one handler changes what is seen of that handler only. *)
LEMMA MapsStep ==
    ASSUME NEW h \in Handlers, OthersStay(h)
    PROVE  /\ [g \in Handlers |-> AskOf(g)]'
                = [[g \in Handlers |-> AskOf(g)] EXCEPT ![h] = AskOf(h)']
           /\ [g \in Handlers |-> StatusOf(g)]'
                = [[g \in Handlers |-> StatusOf(g)] EXCEPT ![h] = StatusOf(h)']
           /\ [g \in Handlers |-> VisibleEvents(reply[g].events)]'
                = [[g \in Handlers |-> VisibleEvents(reply[g].events)]
                        EXCEPT ![h] = VisibleEvents(reply[h].events)']
  <1>1. \A g \in Handlers \ {h} :
            /\ AskOf(g)' = AskOf(g) /\ StatusOf(g)' = StatusOf(g)
            /\ VisibleEvents(reply[g].events)' = VisibleEvents(reply[g].events)
    BY DEF OthersStay, AskOf, StatusOf, VisibleEvents
  <1> QED
    BY <1>1


LEMMA AtomicInit == Init => Room!Init
  BY SMT DEF Init, Room!Init, Room!NoRequest, VisibleEvents, Applied, AskOf, StatusOf, NoReply

LEMMA StoreSeen ==
    ASSUME UNCHANGED store
    PROVE  VisibleEvents(log)' = VisibleEvents(log) /\ Applied' = Applied
  BY DEF store, VisibleEvents, Applied

(* A step between the arrival of a request and its commit is not seen. *)
LEMMA HiddenStep ==
    ASSUME UNCHANGED store, NEW h \in Handlers, OthersStay(h), AskOf(h)' = AskOf(h),
           StatusOf(h)' = StatusOf(h), reply'[h] = reply[h]
    PROVE  UNCHANGED Room!vars
  <1>1. VisibleEvents(reply[h].events)' = VisibleEvents(reply[h].events)
    BY DEF VisibleEvents
  <1>2. /\ [g \in Handlers |-> AskOf(g)]' = [g \in Handlers |-> AskOf(g)]
        /\ [g \in Handlers |-> StatusOf(g)]' = [g \in Handlers |-> StatusOf(g)]
        /\ [g \in Handlers |-> VisibleEvents(reply[g].events)]'
                = [g \in Handlers |-> VisibleEvents(reply[g].events)]
    BY <1>1, MapsStep
  <1> QED
    BY <1>2, StoreSeen DEF Room!vars

Running == {"begun", "locked", "fresh", "reserved", "staged"}

LEMMA RunningSeen ==
    ASSUME EffectInv, SilentInv, NEW h \in Handlers, pc[h] \in Running
    PROVE  /\ StatusOf(h) = "asked" /\ VisibleEvents(reply[h].events) = {}
           /\ AskOf(h) = [id |-> current[h].id, body |-> current[h].body]
           /\ AskOf(h).id = current[h].id /\ AskOf(h).body = current[h].body
  <1>1. reply[h].events = {}
    BY DEF SilentInv, Running
  <1> QED
    BY <1>1, VisibleFacts DEF StatusOf, AskOf, Running

(* Answering a running request. *)
LEMMA AnswerSeen ==
    ASSUME EffectInv, SilentInv, NEW h \in Handlers, pc[h] \in Running,
           NEW result, NEW events, Answer(h, result, events), UNCHANGED current
    PROVE  /\ AskOf(h)' = AskOf(h) /\ pc'[h] = "answered"
           /\ reply'[h].result = result /\ reply'[h].events = events
           /\ VisibleEvents(reply[h].events)' = VisibleEvents(events)
  <1>1. /\ pc'[h] = "answered" /\ current'[h] = current[h]
        /\ reply'[h] = [result |-> result, events |-> events]
    BY DEF Answer, EffectInv, CoreInv, TypeOK
  <1>2. reply'[h].result = result /\ reply'[h].events = events
    BY <1>1, SMT
  <1> QED
    BY <1>1, <1>2 DEF AskOf, VisibleEvents, Running

LEMMA RefuseSeen ==
    ASSUME EffectInv, SilentInv, NEW h \in Handlers, pc[h] \in Running,
           NEW result \in Results \ {"accepted", "duplicate", "conflicting_duplicate"},
           Reject(h, result)
    PROVE  Room!Refuse(h)
  <1>1. Answer(h, result, {}) /\ UNCHANGED store /\ UNCHANGED current /\ OthersStay(h)
    BY DEF Reject, Rollback, Answer, OthersStay, EffectInv, CoreInv, TypeOK
  <1>2. /\ AskOf(h)' = AskOf(h) /\ StatusOf(h)' = "refused"
        /\ VisibleEvents(reply[h].events)' = {}
    BY <1>1, AnswerSeen, VisibleFacts DEF StatusOf
  <1>3. /\ [g \in Handlers |-> AskOf(g)]' = [g \in Handlers |-> AskOf(g)]
        /\ [g \in Handlers |-> StatusOf(g)]'
                = [[g \in Handlers |-> StatusOf(g)] EXCEPT ![h] = "refused"]
        /\ [g \in Handlers |-> VisibleEvents(reply[g].events)]'
                = [g \in Handlers |-> VisibleEvents(reply[g].events)]
    BY <1>1, <1>2, MapsStep, RunningSeen
  <1>4. [g \in Handlers |-> StatusOf(g)][h] = "asked"
    BY RunningSeen
  <1> QED
    BY <1>1, <1>3, <1>4, StoreSeen DEF Room!Refuse

LEMMA ConflictSeen ==
    ASSUME EffectInv, SilentInv, NEW h \in Handlers, RejectConflict(h)
    PROVE  Room!Conflict(h)
  <1>0. pc[h] \in Running
    BY DEF RejectConflict, Running
  <1>1. /\ Answer(h, "conflicting_duplicate", {}) /\ UNCHANGED store /\ UNCHANGED current
        /\ OthersStay(h)
    BY DEF RejectConflict, Reject, Rollback, Answer, OthersStay, EffectInv, CoreInv, TypeOK
  <1>2. /\ AskOf(h)' = AskOf(h) /\ StatusOf(h)' = "conflict"
        /\ VisibleEvents(reply[h].events)' = {}
    BY <1>0, <1>1, AnswerSeen, VisibleFacts, SMT DEF StatusOf
  <1>3. /\ [g \in Handlers |-> AskOf(g)]' = [g \in Handlers |-> AskOf(g)]
        /\ [g \in Handlers |-> StatusOf(g)]'
                = [[g \in Handlers |-> StatusOf(g)] EXCEPT ![h] = "conflict"]
        /\ [g \in Handlers |-> VisibleEvents(reply[g].events)]'
                = [g \in Handlers |-> VisibleEvents(reply[g].events)]
    BY <1>0, <1>1, <1>2, MapsStep, RunningSeen
  <1>4. [g \in Handlers |-> StatusOf(g)][h] = "asked"
    BY <1>0, RunningSeen
  <1>5. \E a \in Applied : /\ a.id = [g \in Handlers |-> AskOf(g)][h].id
                           /\ a.body # [g \in Handlers |-> AskOf(g)][h].body
    <2>1. PICK rec \in ledger : rec.id = current[h].id /\ rec.body # current[h].body
      BY DEF RejectConflict, Prior
    <2>2. [id |-> rec.id, body |-> rec.body] \in Applied
      BY DEF Applied
    <2> QED
      BY <1>0, <2>1, <2>2, RunningSeen
  <1> QED
    BY <1>1, <1>3, <1>4, <1>5, StoreSeen DEF Room!Conflict

LEMMA DuplicateSeen ==
    ASSUME EffectInv, SilentInv, NEW h \in Handlers, ReplayPrior(h)
    PROVE  Room!Duplicate(h)
  <1>0. pc[h] \in Running
    BY DEF ReplayPrior, Running
  <1>1. PICK rec \in Prior(current[h].id) :
            rec.body = current[h].body /\ Answer(h, "duplicate", RecordedEvents(rec))
    BY DEF ReplayPrior
  <1>2. /\ UNCHANGED store /\ UNCHANGED current /\ OthersStay(h)
    BY <1>1 DEF ReplayPrior, Rollback, Answer, OthersStay, EffectInv, CoreInv, TypeOK
  <1>3. /\ AskOf(h)' = AskOf(h) /\ StatusOf(h)' = "duplicate"
        /\ VisibleEvents(reply[h].events)' = VisibleEvents(RecordedEvents(rec))
    BY <1>0, <1>1, <1>2, AnswerSeen, SMT DEF StatusOf
  <1>4. VisibleEvents(RecordedEvents(rec)) = {e \in VisibleEvents(log) : e.req = current[h].id}
    <2>1. rec \in ledger /\ rec.id = current[h].id
      BY <1>1 DEF Prior
    <2>2. RecordedEvents(rec) = EventsOf(current[h].id)
      BY <2>1, RecordedAll DEF EffectInv, CoreInv, ExactlyOnce
    <2> QED
      BY <2>2, VisibleFacts
  <1>5. /\ [g \in Handlers |-> AskOf(g)]' = [g \in Handlers |-> AskOf(g)]
        /\ [g \in Handlers |-> StatusOf(g)]'
                = [[g \in Handlers |-> StatusOf(g)] EXCEPT ![h] = "duplicate"]
        /\ [g \in Handlers |-> VisibleEvents(reply[g].events)]'
                = [[g \in Handlers |-> VisibleEvents(reply[g].events)]
                    EXCEPT ![h] = {e \in VisibleEvents(log) : e.req = current[h].id}]
    BY <1>2, <1>3, <1>4, MapsStep
  <1>6. [g \in Handlers |-> StatusOf(g)][h] = "asked"
        /\ [g \in Handlers |-> AskOf(g)][h] = [id |-> current[h].id, body |-> current[h].body]
        /\ [g \in Handlers |-> AskOf(g)][h].id = current[h].id
    BY <1>0, RunningSeen
  <1>7. [g \in Handlers |-> AskOf(g)][h] \in Applied
    BY <1>1, <1>6 DEF Applied, Prior
  <1>8. Room!BlockOf([g \in Handlers |-> AskOf(g)][h].id)
            = {e \in VisibleEvents(log) : e.req = current[h].id}
    BY <1>6 DEF Room!BlockOf
  <1> QED
    BY <1>2, <1>5, <1>6, <1>7, <1>8, StoreSeen DEF Room!Duplicate


LEMMA AcceptSeen ==
    ASSUME EffectInv, SilentInv, NEW h \in Handlers, Publish(h)
    PROVE  Room!Accept(h)
  <1>0. /\ pc[h] = "committed" /\ UNCHANGED store /\ UNCHANGED current
        /\ Answer(h, "accepted", tx[h].events)
        /\ tx[h].events = EventsOf(current[h].id)
    BY DEF Publish, EffectInv, HandlerInv
  <1>1. OthersStay(h)
    BY DEF Publish, Answer, OthersStay, EffectInv, CoreInv, TypeOK
  <1>2. /\ pc'[h] = "answered" /\ current'[h] = current[h]
        /\ reply'[h] = [result |-> "accepted", events |-> tx[h].events]
    BY <1>0 DEF Answer, EffectInv, CoreInv, TypeOK
  <1>3. reply'[h].result = "accepted" /\ reply'[h].events = EventsOf(current[h].id)
    BY <1>0, <1>2, SMT
  <1>4. /\ AskOf(h)' = AskOf(h) /\ StatusOf(h)' = "accepted" /\ StatusOf(h) = "applied"
        /\ AskOf(h) = [id |-> current[h].id, body |-> current[h].body]
    BY <1>0, <1>2, <1>3 DEF AskOf, StatusOf
  <1>5. VisibleEvents(reply[h].events)' = {e \in VisibleEvents(log) : e.req = current[h].id}
    <2>1. VisibleEvents(reply[h].events)' = VisibleEvents(EventsOf(current[h].id))
      BY <1>3 DEF VisibleEvents
    <2> QED
      BY <2>1, VisibleFacts
  <1>6. /\ [g \in Handlers |-> AskOf(g)]' = [g \in Handlers |-> AskOf(g)]
        /\ [g \in Handlers |-> StatusOf(g)]'
                = [[g \in Handlers |-> StatusOf(g)] EXCEPT ![h] = "accepted"]
        /\ [g \in Handlers |-> VisibleEvents(reply[g].events)]'
                = [[g \in Handlers |-> VisibleEvents(reply[g].events)]
                    EXCEPT ![h] = {e \in VisibleEvents(log) : e.req = current[h].id}]
    BY <1>1, <1>4, <1>5, MapsStep
  <1>7. [g \in Handlers |-> StatusOf(g)][h] = "applied"
        /\ [g \in Handlers |-> AskOf(g)][h].id = current[h].id
    BY <1>4, SMT
  <1>8. Room!BlockOf([g \in Handlers |-> AskOf(g)][h].id)
            = {e \in VisibleEvents(log) : e.req = current[h].id}
    BY <1>7 DEF Room!BlockOf
  <1> QED
    BY <1>0, <1>6, <1>7, <1>8, StoreSeen DEF Room!Accept

(* The events of a block, seen from outside. *)
LEMMA BlockSeen ==
    ASSUME NEW events, NEW types, NEW n \in Nat, NEW id, IsBlock(events, types, n + 1),
           \A e \in events : e.req = id, DOMAIN types \subseteq Nat
    PROVE  VisibleEvents(events)
                = {[seq |-> n + k, req |-> id, type |-> types[k]] : k \in DOMAIN types}
  <1> DEFINE Pair(e) == [seq |-> e.seq, type |-> e.type]
             Planned(k) == [seq |-> (n + 1) + k - 1, type |-> types[k]]
             View(e) == [seq |-> e.seq, req |-> e.req, type |-> e.type]
             Made(k) == [seq |-> n + k, req |-> id, type |-> types[k]]
  <1>1. {Pair(e) : e \in events} = {Planned(k) : k \in DOMAIN types}
    BY DEF IsBlock
  <1>2. ASSUME NEW e \in events, NEW k \in DOMAIN types, Pair(e) = Planned(k)
        PROVE  View(e) = Made(k)
    <2>1. e.seq = n + k /\ e.type = types[k]
      BY <1>2, SMT
    <2> QED
      BY <2>1
  <1>3. VisibleEvents(events) = {View(e) : e \in events}
    BY DEF VisibleEvents
  <1> HIDE DEF Pair, Planned, View, Made
  <1>4. {View(e) : e \in events} = {Made(k) : k \in DOMAIN types}
    <2>1. \A e \in events : \E k \in DOMAIN types : View(e) = Made(k)
      BY <1>1, <1>2
    <2>2. \A k \in DOMAIN types : \E e \in events : View(e) = Made(k)
      BY <1>1, <1>2
    <2> QED
      BY <2>1, <2>2
  <1> QED
    BY <1>3, <1>4 DEF Made

LEMMA TypesDomain ==
    ASSUME NEW body \in Body, NEW types \in Effects(body)
    PROVE  DOMAIN types \subseteq Nat
  <1>1. \/ \E a : types = <<a>>
        \/ \E a, b : types = <<a, b>>
        \/ \E a, b, c, d : types = <<a, b, c, d>>
    BY DEF Effects, Body
  <1> QED
    BY <1>1, SMT

LEMMA EffectSeen ==
    ASSUME EffectInv, SilentInv, NEW h \in Handlers, Commit(h) \/ CommitUnacknowledged(h)
    PROVE  Room!TakeEffect(h)
  <1>0. /\ Persist(h) /\ pc[h] \in Running /\ Staged(h) /\ current' = current
        /\ log' = log \cup tx[h].events /\ Prior(current[h].id) = {}
        /\ current[h].body \in Body
    BY RequestsAssumption DEF Commit, CommitUnacknowledged, Persist, Running, KeysFree,
        EffectInv, CoreInv, StagedInv, TypeOK, Request
  <1>1. OthersStay(h)
    BY <1>0 DEF Commit, CommitUnacknowledged, Answer, OthersStay, EffectInv, CoreInv, TypeOK
  <1>2. /\ AskOf(h)' = AskOf(h) /\ VisibleEvents(reply[h].events)' = {}
        /\ \E s \in {"applied", "refused"} : StatusOf(h)' = s
    <2>1. CASE Commit(h)
      <3>1. pc'[h] = "committed" /\ reply'[h] = reply[h] /\ reply[h].events = {}
        BY <1>0, <2>1 DEF Commit, EffectInv, CoreInv, TypeOK, SilentInv, Running
      <3> QED
        BY <1>0, <3>1 DEF AskOf, StatusOf, Running, VisibleEvents
    <2>2. CASE CommitUnacknowledged(h)
      <3>1. Answer(h, "internal_error", {})
        BY <2>2 DEF CommitUnacknowledged
      <3> QED
        BY <1>0, <3>1, AnswerSeen, VisibleFacts, SMT DEF StatusOf
    <2> QED
      BY <2>1, <2>2
  <1>3. /\ [g \in Handlers |-> AskOf(g)]' = [g \in Handlers |-> AskOf(g)]
        /\ \E s \in {"applied", "refused"} :
                [g \in Handlers |-> StatusOf(g)]'
                    = [[g \in Handlers |-> StatusOf(g)] EXCEPT ![h] = s]
        /\ [g \in Handlers |-> VisibleEvents(reply[g].events)]'
                = [g \in Handlers |-> VisibleEvents(reply[g].events)]
    BY <1>0, <1>1, <1>2, MapsStep, RunningSeen
  <1>4. /\ [g \in Handlers |-> StatusOf(g)][h] = "asked"
        /\ [g \in Handlers |-> AskOf(g)][h] = [id |-> current[h].id, body |-> current[h].body]
        /\ [g \in Handlers |-> AskOf(g)][h].id = current[h].id
        /\ [g \in Handlers |-> AskOf(g)][h].body = current[h].body
    BY <1>0, RunningSeen
  <1>5. \A a \in Applied : a.id # current[h].id
    BY <1>0, SMT DEF Applied, Prior
  <1>6. Applied' = Applied \cup {[id |-> current[h].id, body |-> current[h].body]}
    <2> DEFINE View(rec) == [id |-> rec.id, body |-> rec.body]
               new == [id |-> current[h].id, body |-> current[h].body,
                       seqs |-> {e.seq : e \in tx[h].events}]
    <2>1. new.id = current[h].id /\ new.body = current[h].body
      OBVIOUS
    <2>2. ledger' = ledger \cup {new}
      BY <1>0 DEF Persist
    <2> HIDE DEF new
    <2>3. {View(rec) : rec \in ledger'} = {View(rec) : rec \in ledger} \cup {View(new)}
      BY <2>2
    <2> QED
      BY <2>1, <2>3 DEF Applied
  <1>7. \E n \in {0} \cup {e.seq : e \in VisibleEvents(log)},
           types \in Effects(current[h].body) :
            /\ {e.seq : e \in VisibleEvents(log)} = 1 .. n
            /\ VisibleEvents(log)' = VisibleEvents(log) \cup
                {[seq |-> n + k, req |-> current[h].id, type |-> types[k]] : k \in DOMAIN types}
    <2>1. {e.seq : e \in VisibleEvents(log)} = {e.seq : e \in log}
      <3> DEFINE View(e) == [seq |-> e.seq, req |-> e.req, type |-> e.type]
      <3>1. VisibleEvents(log) = {View(e) : e \in log} /\ \A e \in log : View(e).seq = e.seq
        BY DEF VisibleEvents
      <3> HIDE DEF View
      <3> QED
        BY <3>1, SMT
    <2>2. {e.seq : e \in log} = 1 .. Newest /\ Newest \in Nat
      BY DEF EffectInv, CoreInv, SequencesContiguous
    <2>3. Newest \in {0} \cup {e.seq : e \in VisibleEvents(log)}
      BY <2>1, <2>2, SMT
    <2>4. PICK types \in Effects(current[h].body) : IsBlock(tx[h].events, types, Newest + 1)
      BY <1>0 DEF Staged, NextSequence
    <2>5. \A e \in tx[h].events : e.req = current[h].id
      BY <1>0 DEF Staged
    <2>6. DOMAIN types \subseteq Nat
      BY <1>0, TypesDomain
    <2>7. VisibleEvents(tx[h].events)
            = {[seq |-> Newest + k, req |-> current[h].id, type |-> types[k]] : k \in DOMAIN types}
      <3>1. ASSUME NEW n \in Nat, n = Newest, NEW id, id = current[h].id
            PROVE  VisibleEvents(tx[h].events)
                    = {[seq |-> n + k, req |-> id, type |-> types[k]] : k \in DOMAIN types}
        <4>1. IsBlock(tx[h].events, types, n + 1) /\ \A e \in tx[h].events : e.req = id
          BY <2>4, <2>5, <3>1
        <4> QED
          BY <2>6, <4>1, BlockSeen, SMT
      <3> QED
        BY <2>2, <3>1
    <2>8. VisibleEvents(log)' = VisibleEvents(log) \cup VisibleEvents(tx[h].events)
      <3>1. VisibleEvents(log)' = VisibleEvents(log \cup tx[h].events)
        BY <1>0 DEF VisibleEvents
      <3> QED
        BY <3>1, VisibleFacts
    <2> QED
      BY <2>1, <2>2, <2>3, <2>7, <2>8
  <1>8. [body \in Body |-> Effects(body)][current[h].body] = Effects(current[h].body)
    BY <1>0
  <1> DEFINE asks == [g \in Handlers |-> AskOf(g)]
             status == [g \in Handlers |-> StatusOf(g)]
             told == [g \in Handlers |-> VisibleEvents(reply[g].events)]
             all == VisibleEvents(log)
  <1>9. /\ status[h] = "asked"
        /\ \A a \in Applied : a.id # asks[h].id
        /\ Applied' = Applied \cup {asks[h]}
        /\ \E n \in {0} \cup {e.seq : e \in all},
              types \in [body \in Body |-> Effects(body)][asks[h].body] :
            /\ {e.seq : e \in all} = 1 .. n
            /\ all' = all \cup {[seq |-> n + k, req |-> asks[h].id, type |-> types[k]] :
                                    k \in DOMAIN types}
        /\ \E s \in {"applied", "refused"} : status' = [status EXCEPT ![h] = s]
        /\ UNCHANGED <<asks, told>>
    <2>1. UNCHANGED <<asks, told>>
      BY <1>3
    <2>2. Applied' = Applied \cup {asks[h]}
      BY <1>4, <1>6
    <2> HIDE DEF asks, all
    <2>3. asks[h].id = current[h].id /\ asks[h].body = current[h].body
      BY <1>4 DEF asks
    <2>4. \E n \in {0} \cup {e.seq : e \in all}, types \in Effects(current[h].body) :
            /\ {e.seq : e \in all} = 1 .. n
            /\ all' = all \cup {[seq |-> n + k, req |-> asks[h].id, type |-> types[k]] :
                                    k \in DOMAIN types}
      BY <1>7, <2>3, SMT DEF all
    <2>5. \A a \in Applied : a.id # asks[h].id
      BY <1>5, <2>3
    <2>6. [body \in Body |-> Effects(body)][asks[h].body] = Effects(current[h].body)
      BY <1>8, <2>3
    <2>7. status[h] = "asked" /\ \E s \in {"applied", "refused"} : status' = [status EXCEPT ![h] = s]
      BY <1>3, <1>4
    <2> HIDE DEF status, told
    <2>8. \E n \in {0} \cup {e.seq : e \in all},
             types \in [body \in Body |-> Effects(body)][asks[h].body] :
            /\ {e.seq : e \in all} = 1 .. n
            /\ all' = all \cup {[seq |-> n + k, req |-> asks[h].id, type |-> types[k]] :
                                    k \in DOMAIN types}
      <3> DEFINE Base == {0} \cup {e.seq : e \in all}
                 Appends(n, types) ==
                    /\ {e.seq : e \in all} = 1 .. n
                    /\ all' = all \cup {[seq |-> n + k, req |-> asks[h].id, type |-> types[k]] :
                                            k \in DOMAIN types}
      <3>1. \E n \in Base, types \in Effects(current[h].body) : Appends(n, types)
        BY <2>4
      <3> HIDE DEF Base, Appends
      <3>2. \E n \in Base, types \in [body \in Body |-> Effects(body)][asks[h].body] :
                Appends(n, types)
        BY <2>6, <3>1
      <3> QED
        BY <3>2 DEF Base, Appends
    <2> QED
      BY <2>1, <2>2, <2>5, <2>7, <2>8
  <1> QED
    BY <1>9 DEF Room!TakeEffect


(* A request arrives. *)
LEMMA AskSeen ==
    ASSUME EffectInv, SilentInv, NEW h \in Handlers, Forbid(h) \/ Begin(h)
    PROVE  Room!Ask(h)
  <1>0. /\ pc[h] = "idle" /\ UNCHANGED store /\ reply[h].events = {} /\ OthersStay(h)
    BY DEF Forbid, Begin, OthersStay, EffectInv, CoreInv, TypeOK, SilentInv
  <1>1. PICK r \in Requests : current'[h] = r
    BY DEF Forbid, Begin, EffectInv, CoreInv, TypeOK
  <1>2. r.id \in RequestIds /\ r.body \in Body
    BY RequestsAssumption DEF Request
  <1>3. /\ \E s \in {"asked", "refused"} : StatusOf(h)' = s
        /\ reply'[h].events = {} /\ pc'[h] # "idle"
    <2>1. CASE Forbid(h)
      <3>1. pc'[h] = "answered" /\ reply'[h] = [result |-> "forbidden", events |-> {}]
        BY <2>1 DEF Forbid, EffectInv, CoreInv, TypeOK
      <3> QED
        BY <3>1, SMT DEF StatusOf
    <2>2. CASE Begin(h)
      <3>1. pc'[h] = "begun" /\ reply'[h] = reply[h]
        BY <2>2 DEF Begin, EffectInv, CoreInv, TypeOK
      <3> QED
        BY <1>0, <3>1 DEF StatusOf
    <2> QED
      BY <2>1, <2>2
  <1>4. AskOf(h)' = [id |-> r.id, body |-> r.body]
    BY <1>1, <1>3 DEF AskOf
  <1>5. VisibleEvents(reply[h].events)' = {} /\ VisibleEvents(reply[h].events) = {}
    BY <1>0, <1>3 DEF VisibleEvents
  <1>6. /\ [g \in Handlers |-> AskOf(g)]'
                = [[g \in Handlers |-> AskOf(g)] EXCEPT ![h] = [id |-> r.id, body |-> r.body]]
        /\ \E s \in {"asked", "refused"} :
                [g \in Handlers |-> StatusOf(g)]'
                    = [[g \in Handlers |-> StatusOf(g)] EXCEPT ![h] = s]
        /\ [g \in Handlers |-> VisibleEvents(reply[g].events)]'
                = [g \in Handlers |-> VisibleEvents(reply[g].events)]
    BY <1>0, <1>3, <1>4, <1>5, MapsStep
  <1>7. [g \in Handlers |-> StatusOf(g)][h] = "idle"
    BY <1>0 DEF StatusOf
  <1> DEFINE asks == [g \in Handlers |-> AskOf(g)]
  <1>8. \E id \in RequestIds, body \in Body : asks' = [asks EXCEPT ![h] = [id |-> id, body |-> body]]
    <2> DEFINE Asked(id, body) == asks' = [asks EXCEPT ![h] = [id |-> id, body |-> body]]
    <2>1. Asked(r.id, r.body)
      BY <1>6
    <2> HIDE DEF Asked
    <2>2. \E id \in RequestIds, body \in Body : Asked(id, body)
      BY <1>2, <2>1
    <2> QED
      BY <2>2 DEF Asked
  <1> QED
    BY <1>0, <1>6, <1>7, <1>8, StoreSeen DEF Room!Ask

LEMMA DoneSeen ==
    ASSUME EffectInv, NEW h \in Handlers, Done(h)
    PROVE  Room!Next
  <1>0. pc[h] = "answered" /\ UNCHANGED store /\ OthersStay(h)
    BY DEF Done, OthersStay, EffectInv, CoreInv, TypeOK
  <1>1. pc'[h] = "idle" /\ reply'[h].events = {}
    BY DEF Done, NoReply, EffectInv, CoreInv, TypeOK
  <1>2. /\ AskOf(h)' = [id |-> {}, body |-> {}] /\ StatusOf(h)' = "idle"
        /\ VisibleEvents(reply[h].events)' = {}
    BY <1>1 DEF AskOf, StatusOf, VisibleEvents
  <1>3. [g \in Handlers |-> StatusOf(g)][h] \in {"accepted", "duplicate", "conflict", "refused"}
    BY <1>0 DEF StatusOf
  <1>4. \A g \in Handlers \ {h} :
            /\ AskOf(g)' = AskOf(g) /\ StatusOf(g)' = StatusOf(g)
            /\ VisibleEvents(reply[g].events)' = VisibleEvents(reply[g].events)
    BY <1>0 DEF OthersStay, AskOf, StatusOf, VisibleEvents
  <1>5. Room!Forget({h})
    BY <1>0, <1>2, <1>4, StoreSeen DEF Room!Forget, Room!NoRequest
  <1> QED
    BY <1>3, <1>5 DEF Room!Next, Room!Answers

LEMMA CrashSeen ==
    ASSUME EffectInv, Crash
    PROVE  Room!Next
  <1>0. UNCHANGED store
    BY DEF Crash
  <1>1. \A g \in Handlers : pc'[g] = "idle" /\ reply'[g].events = {}
    BY DEF Crash, NoReply
  <1>2. \A g \in Handlers : /\ AskOf(g)' = [id |-> {}, body |-> {}] /\ StatusOf(g)' = "idle"
                            /\ VisibleEvents(reply[g].events)' = {}
    BY <1>1 DEF AskOf, StatusOf, VisibleEvents
  <1>3. Room!Forget(Handlers)
    BY <1>0, <1>2, StoreSeen DEF Room!Forget, Room!NoRequest
  <1> QED
    BY <1>3 DEF Room!Next

LEMMA AtomicStep ==
    ASSUME EffectInv, SilentInv, [Next]_vars
    PROVE  [Room!Next]_(Room!vars)
  <1>1. CASE UNCHANGED vars
    BY <1>1, SMT DEF vars, Room!vars, VisibleEvents, Applied, AskOf, StatusOf
  <1>2. ASSUME NEW h \in Handlers, LockRoom(h) \/ PassLedger(h) \/ ReserveRevision(h)
        PROVE  UNCHANGED Room!vars
    <2>1. /\ UNCHANGED store /\ OthersStay(h) /\ pc[h] \in Running /\ pc'[h] \in Running
          /\ current'[h] = current[h] /\ reply'[h] = reply[h]
      BY <1>2 DEF LockRoom, PassLedger, ReserveRevision, Asks, OthersStay, Running, EffectInv, CoreInv, TypeOK
    <2>2. AskOf(h)' = AskOf(h) /\ StatusOf(h)' = StatusOf(h)
      BY <2>1 DEF AskOf, StatusOf, Running
    <2> QED
      BY <2>1, <2>2, HiddenStep
  <1>3. ASSUME NEW h \in Handlers, Operation(h)
        PROVE  [Room!Next]_(Room!vars)
    <2>0. pc[h] \in {"fresh", "reserved"}
      BY <1>3, OperationCases DEF EffectInv
    <2>1. CASE Staging(h)
      <3>1. /\ UNCHANGED store /\ OthersStay(h) /\ pc'[h] = "staged"
            /\ current'[h] = current[h] /\ reply'[h] = reply[h]
        BY <2>1 DEF Staging, Stage, OthersStay, EffectInv, CoreInv, TypeOK
      <3>2. AskOf(h)' = AskOf(h) /\ StatusOf(h)' = StatusOf(h)
        BY <2>0, <3>1 DEF AskOf, StatusOf
      <3> QED
        BY <3>1, <3>2, HiddenStep
    <2>2. CASE ~Staging(h)
      <3>1. PICK error \in Results \ {"accepted", "duplicate", "conflicting_duplicate"} :
                Reject(h, error)
        BY <1>3, <2>2, OperationCases DEF EffectInv
      <3> QED
        BY <2>0, <3>1, RefuseSeen DEF Room!Next, Running
    <2> QED
      BY <2>1, <2>2
  <1>4. ASSUME NEW h \in Handlers, Fail(h)
        PROVE  Room!Refuse(h)
    BY <1>4, RefuseSeen DEF Fail, Running, Results
  <1> QED
    BY <1>1, <1>2, <1>3, <1>4, AskSeen, DuplicateSeen, ConflictSeen, EffectSeen, AcceptSeen,
       DoneSeen, CrashSeen DEF Next, Step, Room!Next

(* Every behaviour of the transactions, seen from the clients, is one of   *)
(* requests that take effect at one moment, once and whole, or not at all, *)
(* with retries, races on one id, failures at any statement, lost commit   *)
(* acknowledgements and crashes (process, prior_request, record_request).  *)
(* It is the part of RequestsAreAtomic without the promise of an answer.   *)
THEOREM AtomicStepsCorrect == Spec => Room!AtomicSteps
  <1>1. Init => SilentInv
    BY SMT DEF Init, SilentInv, NoReply
  <1>2. EffectInv /\ SilentInv /\ [Next]_vars => SilentInv'
    BY SilentStep
  <1>3. EffectInv /\ SilentInv /\ [Next]_vars => [Room!Next]_(Room!vars)
    BY AtomicStep
  <1> QED
    BY <1>1, <1>2, <1>3, AtomicInit, EffectCorrect, PTL DEF Spec, Room!AtomicSteps
===============================================================================

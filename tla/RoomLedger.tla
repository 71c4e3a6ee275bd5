------------------------------ MODULE RoomLedger ------------------------------
(***************************************************************************)
(* The durable half of one room: GatewayState::process (rooms.rs) and the  *)
(* store operations it calls (store.rs).                                   *)
(*                                                                         *)
(* A handler is the task of one socket.  It runs a request in one          *)
(* PostgreSQL transaction: begin, take the room's advisory lock, look the  *)
(* request id up in room_requests, write, record the request, commit; it   *)
(* publishes only afterwards.  Transactions run READ COMMITTED, so a       *)
(* handler reads what is committed at that step, and its own writes stay   *)
(* in tx[h] until Commit.  Tables are sets of rows.  Rooms share nothing   *)
(* but the clock, so one room is modelled.                                 *)
(***************************************************************************)
EXTENDS Integers, FiniteSets, FiniteSetsExt

CONSTANTS
    Handlers,     \* socket tasks that may run a request at the same time
    RequestIds,   \* client-chosen request ids
    DecisionIds,  \* the supply of decision ids (Uuid::new_v4)
    TaskIds,      \* the supply of agent task ids (Uuid::new_v4)
    Requests,     \* the requests clients may send
    None          \* no handler, no subject

Roles == {"human", "agent"}

Statuses == {"draft", "active", "dismissed", "superseded"}

ChatVariants ==
    {"message", "action_items", "unusable_action_items", "unknown_audience"}

TransitionActions == {"confirm", "dismiss", "edit", "edit_without_text"}

(* What a validated request asks for, wording aside. *)
Body ==
    [method : {"chat.send"}, variant : ChatVariants, decision : {None}]
        \cup [method : {"decision.propose", "agent.task.start"},
              variant : {"plain"}, decision : {None}]
        \cup [method : {"decision.transition"}, variant : TransitionActions,
              decision : DecisionIds]
        \cup [method : {"decision.delete"}, variant : {"plain"},
              decision : DecisionIds]

Request == [id : RequestIds, body : Body, role : Roles]

ASSUME RequestsAssumption == Requests \subseteq Request

ASSUME NoneAssumption ==
    None \notin Handlers \cup DecisionIds \cup TaskIds \cup Requests

EventTypes ==
    {"message.created", "agent.task.queued", "agent.task.running",
     "agent.task.succeeded", "agent.task.failed", "agent.task.requested",
     "decision.proposed", "decision.confirmed", "decision.dismissed",
     "decision.edited", "decision.deleted"}

(* A row of room_events.  The sequence also stands for event_id: both are  *)
(* unique keys of the room's events.                                       *)
Event == [seq : Nat, req : RequestIds, type : EventTypes,
          subject : DecisionIds \cup TaskIds \cup {None}]

(* A row of room_requests: the fingerprint (the body; the actor is not     *)
(* part of it) and the events the request appended.                        *)
Record == [id : RequestIds, body : Body, seqs : SUBSET Nat]

(* A row of agent_tasks as process inserts it. *)
Task == [task : TaskIds, req : RequestIds, revision : Nat]

Results ==
    {"none", "accepted", "duplicate", "conflicting_duplicate", "forbidden",
     "not_found", "invalid_transition", "invalid_request", "internal_error"}

Phases ==
    {"idle", "begun", "locked", "fresh", "reserved", "staged", "committed", "answered"}

VARIABLES
    log,        \* room_events
    ledger,     \* room_requests
    decisions,  \* decisions: status of every id, "absent" when there is no row
    tasks,      \* agent_tasks
    roomLock,   \* holder of the room's transaction-scoped advisory lock
    pc,         \* where each handler is
    current,    \* the request each handler runs or has just answered
    tx,         \* each handler's uncommitted writes
    reply       \* what each handler answered

store == <<log, ledger, decisions, tasks>>
vars == <<log, ledger, decisions, tasks, roomLock, pc, current, tx, reply>>

NoWrites ==
    [events |-> {}, rows |-> [d \in DecisionIds |-> "keep"], tasks |-> {}]

NoReply == [result |-> "none", events |-> {}]

Init ==
    /\ log = {}
    /\ ledger = {}
    /\ decisions = [d \in DecisionIds |-> "absent"]
    /\ tasks = {}
    /\ roomLock = None
    /\ pc = [h \in Handlers |-> "idle"]
    /\ current = [h \in Handlers |-> None]
    /\ tx = [h \in Handlers |-> NoWrites]
    /\ reply = [h \in Handlers |-> NoReply]
-------------------------------------------------------------------------------
(* Reading the store.                                                      *)

(* COALESCE(MAX(sequence), 0) over the committed events. *)
Newest == Max({0} \cup {e.seq : e \in log})

NextSequence == Newest + 1

(* Mutant of Numbered: the first append starts one too high. *)
NumberedFromTwo(h, drafts) ==
    {[seq |-> NextSequence + k, req |-> current[h].id,
      type |-> drafts[k].type, subject |-> drafts[k].subject] :
        k \in DOMAIN drafts}

(* The rows n successive appends insert: each append sees the previous     *)
(* ones of its own transaction.                                            *)
Numbered(h, drafts) ==
    {[seq |-> NextSequence + k - 1, req |-> current[h].id,
      type |-> drafts[k].type, subject |-> drafts[k].subject] :
        k \in DOMAIN drafts}

Draft(type, subject) == [type |-> type, subject |-> subject]

(* Uuid::new_v4: an id no event has carried. *)
FreshDecisions == DecisionIds \ {e.subject : e \in log}
FreshTasks == TaskIds \ {e.subject : e \in log}

(* Mutant of RecordedEvents: a replay returns the first event only. *)
FirstRecordedEvent(rec) ==
    {e \in log : e.seq \in rec.seqs /\ \A s \in rec.seqs : e.seq <= s}

(* room_requests rows under the request id, and the events they list. *)
Prior(id) == {rec \in ledger : rec.id = id}
RecordedEvents(rec) == {e \in log : e.seq \in rec.seqs}

-------------------------------------------------------------------------------
(* The life of a transaction.                                              *)

HumanOnly == {"decision.transition", "decision.delete", "agent.task.start"}

(* A request arrives: only people may transition, delete or start a task;  *)
(* anything else opens a transaction.                                      *)
Forbid(h) ==
    /\ pc[h] = "idle"
    /\ \E r \in Requests :
        /\ r.body.method \in HumanOnly
        /\ r.role # "human"
        /\ current' = [current EXCEPT ![h] = r]
    /\ pc' = [pc EXCEPT ![h] = "answered"]
    /\ reply' = [reply EXCEPT ![h] = [result |-> "forbidden", events |-> {}]]
    /\ UNCHANGED <<store, roomLock, tx>>

Begin(h) ==
    /\ pc[h] = "idle"
    /\ \E r \in Requests :
        /\ r.body.method \in HumanOnly => r.role = "human"
        /\ current' = [current EXCEPT ![h] = r]
    /\ pc' = [pc EXCEPT ![h] = "begun"]
    /\ UNCHANGED <<store, roomLock, tx, reply>>

(* Mutant of LockRoom: nobody waits for the holder. *)
LockRoomAtOnce(h) ==
    /\ pc[h] = "begun"
    /\ roomLock' = h
    /\ pc' = [pc EXCEPT ![h] = "locked"]
    /\ UNCHANGED <<store, current, tx, reply>>

(* lock_room: pg_advisory_xact_lock waits until no transaction holds it. *)
LockRoom(h) ==
    /\ pc[h] = "begun"
    /\ roomLock = None
    /\ roomLock' = h
    /\ pc' = [pc EXCEPT ![h] = "locked"]
    /\ UNCHANGED <<store, current, tx, reply>>

(* The end of a transaction drops its writes and its advisory lock. *)
Rollback(h) ==
    /\ tx' = [tx EXCEPT ![h] = NoWrites]
    /\ roomLock' = IF roomLock = h THEN None ELSE roomLock

Answer(h, result, events) ==
    /\ pc' = [pc EXCEPT ![h] = "answered"]
    /\ reply' = [reply EXCEPT ![h] = [result |-> result, events |-> events]]

Reject(h, error) ==
    /\ Rollback(h)
    /\ Answer(h, error, {})
    /\ UNCHANGED <<store, current>>

(* prior_request finds a row: same fingerprint replays its events. *)
ReplayPrior(h) ==
    /\ pc[h] = "locked"
    /\ \E rec \in Prior(current[h].id) :
        /\ rec.body = current[h].body
        /\ Answer(h, "duplicate", RecordedEvents(rec))
    /\ Rollback(h)
    /\ UNCHANGED <<store, current>>

RejectConflict(h) ==
    /\ pc[h] = "locked"
    /\ \E rec \in Prior(current[h].id) : rec.body # current[h].body
    /\ Reject(h, "conflicting_duplicate")

PassLedger(h) ==
    /\ pc[h] = "locked"
    /\ Prior(current[h].id) = {}
    /\ pc' = [pc EXCEPT ![h] = "fresh"]
    /\ UNCHANGED <<store, roomLock, current, tx, reply>>

(* The writes of the request, uncommitted. *)
Stage(h, drafts, rows, newTasks) ==
    /\ tx' = [tx EXCEPT ![h] = [events |-> Numbered(h, drafts),
                                rows |-> rows, tasks |-> newTasks]]
    /\ pc' = [pc EXCEPT ![h] = "staged"]
    /\ UNCHANGED <<store, roomLock, current, reply>>

Asks(h, method) == pc[h] = "fresh" /\ current[h].body.method = method

-------------------------------------------------------------------------------
(* The operations of a request that the ledger has not seen.               *)

NoRows == [d \in DecisionIds |-> "keep"]

(* A human room message that mentions the Action Items agent runs it in    *)
(* the same transaction; whether extraction succeeds depends on the text.  *)
InvokesActionItems(r) ==
    /\ r.role = "human"
    /\ r.body.variant \in {"action_items", "unusable_action_items"}

ActionItemsTask(r, t) ==
    <<Draft("message.created", None),
      Draft("agent.task.queued", t),
      Draft("agent.task.running", t),
      Draft(IF r.body.variant = "action_items"
              THEN "agent.task.succeeded" ELSE "agent.task.failed", t)>>

(* resolve_chat_audience refuses mentions the roster does not resolve. *)
RejectAudience(h) ==
    /\ Asks(h, "chat.send")
    /\ current[h].body.variant = "unknown_audience"
    /\ Reject(h, "invalid_request")

ChatSend(h) ==
    /\ Asks(h, "chat.send")
    /\ current[h].body.variant # "unknown_audience"
    /\ ~InvokesActionItems(current[h])
    /\ Stage(h, <<Draft("message.created", None)>>, NoRows, {})

ChatSendActionItems(h) ==
    /\ Asks(h, "chat.send")
    /\ InvokesActionItems(current[h])
    /\ \E t \in FreshTasks :
        Stage(h, ActionItemsTask(current[h], t), NoRows, {})

DecisionPropose(h) ==
    /\ Asks(h, "decision.propose")
    /\ \E d \in FreshDecisions :
        Stage(h, <<Draft("decision.proposed", d)>>,
              [NoRows EXCEPT ![d] = "draft"], {})

(* transition_decision_in_transaction: only drafts move. *)
RejectTransition(h) ==
    /\ Asks(h, "decision.transition")
    /\ LET status == decisions[current[h].body.decision]
       IN  \/ status = "absent" /\ Reject(h, "not_found")
           \/ status \notin {"absent", "draft"} /\ Reject(h, "invalid_transition")
           \/ /\ status = "draft"
              /\ current[h].body.variant = "edit_without_text"
              /\ Reject(h, "invalid_request")

(* Mutant of TransitionDraft: any existing decision may move. *)
TransitionAny(h) ==
    /\ Asks(h, "decision.transition")
    /\ decisions[current[h].body.decision] # "absent"

TransitionDraft(h) ==
    /\ Asks(h, "decision.transition")
    /\ decisions[current[h].body.decision] = "draft"

ConfirmDecision(h) ==
    /\ TransitionDraft(h)
    /\ current[h].body.variant = "confirm"
    /\ LET d == current[h].body.decision
       IN  Stage(h, <<Draft("decision.confirmed", d)>>,
                 [NoRows EXCEPT ![d] = "active"], {})

DismissDecision(h) ==
    /\ TransitionDraft(h)
    /\ current[h].body.variant = "dismiss"
    /\ LET d == current[h].body.decision
       IN  Stage(h, <<Draft("decision.dismissed", d)>>,
                 [NoRows EXCEPT ![d] = "dismissed"], {})

(* Mutant of EditDecision: a status the table does not know. *)
EditDecisionUnknownStatus(h) ==
    /\ TransitionDraft(h)
    /\ current[h].body.variant = "edit"
    /\ \E replacement \in FreshDecisions :
        LET d == current[h].body.decision
        IN  Stage(h, <<Draft("decision.edited", d),
                       Draft("decision.confirmed", replacement)>>,
                  [NoRows EXCEPT ![d] = "edited", ![replacement] = "active"],
                  {})

(* An edit supersedes the draft and activates a new row in its place. *)
EditDecision(h) ==
    /\ TransitionDraft(h)
    /\ current[h].body.variant = "edit"
    /\ \E replacement \in FreshDecisions :
        LET d == current[h].body.decision
        IN  Stage(h, <<Draft("decision.edited", d),
                       Draft("decision.confirmed", replacement)>>,
                  [NoRows EXCEPT ![d] = "superseded", ![replacement] = "active"],
                  {})

(* delete_decision_in_transaction: any existing row, whatever its status. *)
RejectDelete(h) ==
    /\ Asks(h, "decision.delete")
    /\ decisions[current[h].body.decision] = "absent"
    /\ Reject(h, "not_found")

(* Mutant of DeleteDecision: the event without the row. *)
DeleteDecisionEventOnly(h) ==
    /\ Asks(h, "decision.delete")
    /\ LET d == current[h].body.decision
       IN  /\ decisions[d] # "absent"
           /\ Stage(h, <<Draft("decision.deleted", d)>>, NoRows, {})

DeleteDecision(h) ==
    /\ Asks(h, "decision.delete")
    /\ LET d == current[h].body.decision
       IN  /\ decisions[d] # "absent"
           /\ Stage(h, <<Draft("decision.deleted", d)>>,
                    [NoRows EXCEPT ![d] = "absent"], {})

(* start_agent_task_in_transaction: the lock is already held and the       *)
(* ledger already searched, so its own lookup finds nothing.  The next     *)
(* sequence is read for the context revision of the new row, ...           *)
ReserveRevision(h) ==
    /\ Asks(h, "agent.task.start")
    /\ \E t \in FreshTasks :
        tx' = [tx EXCEPT ![h].tasks =
                  {[task |-> t, req |-> current[h].id, revision |-> NextSequence]}]
    /\ pc' = [pc EXCEPT ![h] = "reserved"]
    /\ UNCHANGED <<store, roomLock, current, reply>>

(* ... then the requested event is appended, with a sequence of its own:   *)
(* InvalidAgentTask if they differ.                                        *)
StartAgentTask(h) ==
    /\ pc[h] = "reserved"
    /\ \E row \in tx[h].tasks :
        IF row.revision = NextSequence
        THEN Stage(h, <<Draft("agent.task.requested", row.task)>>, NoRows, {row})
        ELSE Reject(h, "internal_error")

-------------------------------------------------------------------------------
(* record_request and commit.  The unique keys of room_events and          *)
(* room_requests refuse a row that is already there; that is one of the    *)
(* errors of Fail.                                                         *)

KeysFree(h) ==
    /\ Prior(current[h].id) = {}
    /\ \A e \in log, n \in tx[h].events : e.seq # n.seq

(* Mutant of Persist: record_request is forgotten. *)
PersistUnrecorded(h) ==
    /\ pc[h] = "staged"
    /\ KeysFree(h)
    /\ log' = log \cup tx[h].events
    /\ decisions' = [d \in DecisionIds |->
            IF tx[h].rows[d] = "keep" THEN decisions[d] ELSE tx[h].rows[d]]
    /\ tasks' = tasks \cup tx[h].tasks
    /\ roomLock' = IF roomLock = h THEN None ELSE roomLock
    /\ UNCHANGED <<current, ledger>>

Persist(h) ==
    /\ pc[h] = "staged"
    /\ KeysFree(h)
    /\ log' = log \cup tx[h].events
    /\ ledger' = ledger \cup
            {[id |-> current[h].id, body |-> current[h].body,
              seqs |-> {e.seq : e \in tx[h].events}]}
    /\ decisions' = [d \in DecisionIds |->
            IF tx[h].rows[d] = "keep" THEN decisions[d] ELSE tx[h].rows[d]]
    /\ tasks' = tasks \cup tx[h].tasks
    /\ roomLock' = IF roomLock = h THEN None ELSE roomLock
    /\ UNCHANGED current

(* The commit is acknowledged; its events are still to be published. *)
Commit(h) ==
    /\ Persist(h)
    /\ pc' = [pc EXCEPT ![h] = "committed"]
    /\ UNCHANGED <<tx, reply>>

(* The commit takes effect but its acknowledgement is lost: the client is  *)
(* told internal_error and nothing is published.                           *)
CommitUnacknowledged(h) ==
    /\ Persist(h)
    /\ Answer(h, "internal_error", {})
    /\ tx' = [tx EXCEPT ![h] = NoWrites]

(* handle_message publishes the committed events, in order. *)
Publish(h) ==
    /\ pc[h] = "committed"
    /\ Answer(h, "accepted", tx[h].events)
    /\ tx' = [tx EXCEPT ![h] = NoWrites]
    /\ UNCHANGED <<store, roomLock, current>>

(* Any statement before the commit may fail: map_err(internal_error), and  *)
(* the dropped transaction rolls back.                                     *)
Fail(h) ==
    /\ pc[h] \in {"begun", "locked", "fresh", "reserved", "staged"}
    /\ Reject(h, "internal_error")

(* The socket task goes back to its loop. *)
Done(h) ==
    /\ pc[h] = "answered"
    /\ pc' = [pc EXCEPT ![h] = "idle"]
    /\ current' = [current EXCEPT ![h] = None]
    /\ reply' = [reply EXCEPT ![h] = NoReply]
    /\ UNCHANGED <<store, roomLock, tx>>

(* The gateway process stops: its connections close, the database rolls    *)
(* their transactions back, and what was not published never is.           *)
Crash ==
    /\ roomLock' = None
    /\ pc' = [h \in Handlers |-> "idle"]
    /\ current' = [h \in Handlers |-> None]
    /\ tx' = [h \in Handlers |-> NoWrites]
    /\ reply' = [h \in Handlers |-> NoReply]
    /\ UNCHANGED store

Operation(h) ==
    \/ RejectAudience(h) \/ ChatSend(h) \/ ChatSendActionItems(h)
    \/ DecisionPropose(h)
    \/ RejectTransition(h) \/ ConfirmDecision(h) \/ DismissDecision(h)
    \/ EditDecision(h)
    \/ RejectDelete(h) \/ DeleteDecision(h)
    \/ StartAgentTask(h)

(* The steps a handler takes once it has a request. *)
Step(h) ==
    \/ ReplayPrior(h) \/ RejectConflict(h) \/ PassLedger(h)
    \/ ReserveRevision(h) \/ Operation(h)
    \/ Commit(h) \/ Publish(h) \/ Done(h)

Next ==
    \/ \E h \in Handlers :
        \/ Forbid(h) \/ Begin(h) \/ LockRoom(h)
        \/ Step(h)
        \/ CommitUnacknowledged(h) \/ Fail(h)
    \/ Crash

(* A socket task keeps running its request, and PostgreSQL serves waiters  *)
(* for an advisory lock in their order of arrival, so a waiter that finds  *)
(* the lock free again and again gets it.                                  *)
Fairness ==
    \A h \in Handlers : WF_vars(Step(h)) /\ SF_vars(LockRoom(h))

Spec == Init /\ [][Next]_vars /\ Fairness

-------------------------------------------------------------------------------
(* Correctness.                                                            *)

Writes == [events : SUBSET Event,
           rows : [DecisionIds -> Statuses \cup {"absent", "keep"}],
           tasks : SUBSET Task]

(* Every table and every handler's local state has its type, and a busy    *)
(* handler has a request (process, rooms.rs).                              *)
TypeOK ==
    /\ log \subseteq Event
    /\ ledger \subseteq Record
    /\ decisions \in [DecisionIds -> Statuses \cup {"absent"}]
    /\ tasks \subseteq Task
    /\ roomLock \in Handlers \cup {None}
    /\ pc \in [Handlers -> Phases]
    /\ current \in [Handlers -> Requests \cup {None}]
    /\ tx \in [Handlers -> Writes]
    /\ reply \in [Handlers -> [result : Results, events : SUBSET Event]]
    /\ \A h \in Handlers : pc[h] # "idle" => current[h] \in Requests

(* The room's sequence has no gap and no repetition, whatever handlers     *)
(* interleave, fail or crash: MAX(sequence) + 1 under the room lock        *)
(* (append_event_in_transaction).                                          *)
SequencesContiguous ==
    /\ \A e, f \in log : e.seq = f.seq => e = f
    /\ {e.seq : e \in log} = 1 .. Newest

(* The event types a committed request may have appended, in order. *)
Effects(body) ==
    CASE body.method = "chat.send" ->
            {<<"message.created">>} \cup
            {<<"message.created", "agent.task.queued", "agent.task.running", end>> :
                end \in {"agent.task.succeeded", "agent.task.failed"}}
      [] body.method = "decision.propose" -> {<<"decision.proposed">>}
      [] body.method = "decision.delete" -> {<<"decision.deleted">>}
      [] body.method = "agent.task.start" -> {<<"agent.task.requested">>}
      [] body.method = "decision.transition" ->
            {CASE body.variant = "confirm" -> <<"decision.confirmed">>
               [] body.variant = "dismiss" -> <<"decision.dismissed">>
               [] OTHER -> <<"decision.edited", "decision.confirmed">>}

(* The events are one uninterrupted block of these types, from first on. *)
IsBlock(events, types, first) ==
    {[seq |-> e.seq, type |-> e.type] : e \in events}
        = {[seq |-> first + k - 1, type |-> types[k]] : k \in DOMAIN types}

EventsOf(id) == {e \in log : e.req = id}

(* A recorded request has exactly its whole effect in the log, once, in    *)
(* one block, and its row lists exactly that block.                        *)
WholeEffect(rec) ==
    /\ \E types \in Effects(rec.body), first \in rec.seqs :
        IsBlock(EventsOf(rec.id), types, first)
    /\ rec.seqs = {e.seq : e \in EventsOf(rec.id)}

(* Exactly once: retries, races on one request id, failures and crashes    *)
(* never apply a request twice or in part, and no event lacks the row that *)
(* makes its retry a replay (process, prior_request, record_request).      *)
ExactlyOnce ==
    /\ \A rec, other \in ledger : rec.id = other.id => rec = other
    /\ \A e \in log : Prior(e.req) # {}
    /\ \A rec \in ledger : WholeEffect(rec)

(* Whoever is told that a request id went through, first or as a duplicate, *)
(* is told of the same events: all the room's events under that id.        *)
RepliesAgree ==
    \A h \in Handlers :
        reply[h].result \in {"accepted", "duplicate"} =>
            /\ reply[h].events = EventsOf(current[h].id)
            /\ reply[h].events # {}

Endings == {"decision.dismissed", "decision.deleted", "decision.edited"}

(* active_decisions: the decisions the event history says are in force.    *)
(* A confirmation stands unless a later event of that decision ends it.    *)
ActiveDecisions(events) ==
    {d \in DecisionIds :
        \E c \in events :
            /\ c.type = "decision.confirmed"
            /\ c.subject = d
            /\ \A x \in events :
                x.subject = d /\ x.type \in Endings => x.seq < c.seq}

(* Mutant of ContextEvents: the context goes on growing. *)
ContextEventsSoFar(t) == log

(* context_for_lease: the history up to the task's revision. *)
ContextEvents(t) == {e \in log : e.seq <= t.revision}

(* context_packet, which is computed again for every worker that asks.     *)
ContextPacket(t) ==
    [events |-> ContextEvents(t), active |-> ActiveDecisions(ContextEvents(t))]

(* The history shown to agents and the decisions table, two records of the *)
(* same thing kept by different code, agree after every commit.            *)
HistoryMatchesTable ==
    ActiveDecisions(log) = {d \in DecisionIds : decisions[d] = "active"}

(* The task's own requested event is the last of its context. *)
RequestedAt(t) ==
    \E e \in log :
        /\ e.seq = t.revision
        /\ e.type = "agent.task.requested"
        /\ e.subject = t.task
        /\ e.req = t.req

(* "The room advisory lock reserves the next room-local sequence for this  *)
(* transaction" (start_agent_task_in_transaction): whatever other handlers *)
(* do between the read and the append, the sequence read is still the next *)
(* one, so the append never ends in InvalidAgentTask, and the context of   *)
(* every task ends at its own request.                                     *)
ContextEndsAtRequest ==
    /\ \A h \in Handlers : pc[h] = "reserved" =>
        \A row \in tx[h].tasks : row.revision = NextSequence
    /\ \A t \in tasks : RequestedAt(t)

(* A task's context names the decisions in force when it was requested,    *)
(* and every worker that claims the task is shown the same context,        *)
(* whatever is decided, edited or deleted in the meantime                  *)
(* (context_for_lease, context_packet).                                    *)
ContextStep(t) ==
    IF t \in tasks THEN ContextPacket(t)' = ContextPacket(t)
    ELSE (ContextPacket(t)').active = {d \in DecisionIds : decisions[d] = "active"}

TaskContextFixed == [][\A t \in tasks' : ContextStep(t)]_vars

(* A decision leaves draft once, for good; a settled one may only be       *)
(* deleted; a deleted one never returns under the same id.                 *)
DecisionStep(d) ==
    LET was == decisions[d]
        is == decisions'[d]
    IN  /\ was \notin {"absent", "draft"} => is \in {was, "absent"}
        /\ was = "draft" => is \in Statuses \cup {"absent"}
        /\ was = "absent" /\ is # "absent" =>
            /\ is \in {"draft", "active"}
            /\ \A e \in log : e.subject # d

DecisionLifecycle == [][\A d \in DecisionIds : DecisionStep(d)]_vars
===============================================================================

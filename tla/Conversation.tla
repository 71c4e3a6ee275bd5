----------------------------- MODULE Conversation -----------------------------
(***************************************************************************)
(* Conversations of a room with the Codex agent (conversation_store.rs).   *)
(*                                                                         *)
(* A turn reserves a task: it appends the person's prompt to the room,     *)
(* freezes a context that ends at it, and opens or continues a generation. *)
(* A worker claims the task, gets a lease token, and posts updates; the    *)
(* completing one appends the reply and moves the generation's cursor.  A  *)
(* failed task makes its generation unusable.  Every handler is one        *)
(* PostgreSQL transaction under the room's lock, except that a claim reads *)
(* its candidate first, under the claim lock.  The lock of a room          *)
(* serialises its turns, claims and updates; one room is modelled.         *)
(*                                                                         *)
(* A task is named by the request id of its turn (UNIQUE (room_id,         *)
(* request_id)); a generation is an index of conversations.  How appends   *)
(* get their sequence is RoomLedger's matter: here position n of the log   *)
(* is sequence n.  Requests refused before they open a transaction, and    *)
(* the read-only views and receipts, change nothing and are left out.      *)
(***************************************************************************)
EXTENDS Integers, Sequences, FiniteSets

CONSTANTS
    RequestIds,   \* client-chosen request ids
    Turns,        \* turns people ask for
    Turners,      \* turn requests that may run at the same time
    Claimers,     \* claim requests that may run at the same time
    Workers,      \* packet and update requests that may run at the same time
    Updates,      \* what workers post
    Tokens,       \* the supply of lease tokens (Uuid::new_v4)
    Policies,     \* configurations the gateway may be started with
    Deadline,     \* turn_deadline_seconds
    Grace,        \* interrupt_grace_seconds
    Skew,         \* bound on the database clock's distance from the host's
    MaxOrdinal,   \* MAX_SAFE_INTEGER
    MaxTime,      \* bound: the clock stops here
    MaxMessages,  \* bound: ordinary messages of the room
    Audiences,    \* are messages public (TRUE) or targeted (FALSE)?
    MaxDecisions, \* bound: accepted decisions
    None          \* no token, no task, no handler

Modes == {"unspecified", "new", "continue"}

(* generation counts only for "continue"; expiry is that of the token. *)
Turn == [id : RequestIds, mode : Modes, generation : Nat, expiry : Nat]

Kinds == {"accepted", "working", "settings", "usage", "completed", "failed"}

(* accepted and working are the progress updates. *)
Progress == {"accepted", "working"}

Final == {"completed", "failed"}

(* What a reply may cite: an event by its sequence, a decision by number. *)
Source == [kind : {"event", "decision"}, n : Nat]

(* cites is that of a completing update. *)
Update == [id : Nat, ordinal : 1 .. MaxOrdinal, kind : Kinds, cites : SUBSET Source]

Policy == [enabled : BOOLEAN, revision : Nat]

ASSUME ConversationAssumption ==
    /\ Deadline \in Nat \ {0} /\ Grace \in Nat \ {0} /\ Skew \in Nat
    /\ MaxOrdinal \in Nat \ {0} /\ MaxTime \in Nat /\ MaxMessages \in Nat
    /\ Audiences \subseteq BOOLEAN /\ MaxDecisions \in Nat
    /\ Turns \subseteq Turn
    /\ Updates \subseteq Update
    /\ Policies \subseteq Policy
    /\ None \notin Tokens \cup Turns \cup Updates \cup RequestIds \cup Claimers
                \cup Turners \cup Workers
    /\ Turners \cap Claimers = {} /\ Turners \cap Workers = {} /\ Claimers \cap Workers = {}

(* An event of the room: what it is, of which task, for everyone? *)
LogEntry ==
    [kind : {"message", "decision", "prompt", "reply"}, task : RequestIds \cup {None},
     public : BOOLEAN]

(* A row of agent_conversations.  policy stands for the policy and the     *)
(* guidance revision.                                                      *)
ConversationRow ==
    [state : {"reserved", "running", "ready", "unusable", "superseded"},
     active : RequestIds \cup {None}, consumed : Nat, policy : Nat]

(* A row of conversation_tasks.  The frozen context is what the messages   *)
(* base + 1 .. revision say in public, and decisions; reply = 0 when there *)
(* is none.                                                                *)
TaskRow ==
    [state : {"absent", "reserved", "running", "completed", "failed"},
     generation : Nat, base : Nat, revision : Nat, policy : Nat, issued : Nat,
     expires : Nat, authExpires : Nat, token : Tokens \cup {None},
     leaseExpires : Nat, ordinal : 0 .. MaxOrdinal, progressed : Int, reply : Nat,
     decisions : SUBSET (1 .. MaxDecisions), cites : SUBSET Source]

(* The locals of a turn, a claim, and a packet or update request. *)
Plan == [mode : {"new", "continue"}, generation : Nat, base : Nat]

TurnRequest ==
    [phase : {"idle", "begun", "locked", "planned"}, turn : Turns \cup {None},
     now : Nat, plan : Plan]

ClaimRequest ==
    [phase : {"idle", "begun", "candidate", "locked"}, began : Nat,
     task : RequestIds \cup {None}]

WorkRequest ==
    [phase : {"idle", "begun", "locked", "staged", "checked"},
     task : RequestIds \cup {None}, token : Tokens \cup {None},
     update : Updates \cup {None}, now : Nat]

NoTask ==
    [state |-> "absent", generation |-> 0, base |-> 0, revision |-> 0,
     policy |-> 0, issued |-> 0, expires |-> 0, authExpires |-> 0,
     token |-> None, leaseExpires |-> 0, ordinal |-> 0, progressed |-> -1,
     reply |-> 0, decisions |-> {}, cites |-> {}]

Open == {"reserved", "running"}

VARIABLES
    log,            \* room_events: what each one is, and of which task
    decisions,      \* decisions that were accepted: source event, still active?
    ledger,         \* room_requests: id and turn (None: another method's)
    conversations,  \* agent_conversations by generation
    tasks,          \* conversation_tasks by request id
    retained,       \* conversation_updates: what browsers are shown
    replay,         \* conversation_update_requests: what retries are told
    disclosures,    \* conversation_disclosures: what each generation was told
    policy,         \* the policy the gateway was started with
    clock,          \* the gateway host's clock
    roomLock,       \* holder of the room's advisory lock
    claimLock,      \* holder of the claim lock
    turning,        \* each turn: phase, request, time and plan
    claiming,       \* each claim: phase, time its transaction began, candidate
    working         \* each packet or update: phase, task, token, update, time

store == <<log, decisions, ledger, conversations, tasks, retained, replay,
           disclosures>>
locks == <<roomLock, claimLock>>
handlers == <<turning, claiming, working>>
vars == <<log, decisions, ledger, conversations, tasks, retained, replay,
          disclosures, policy, clock, roomLock, claimLock, turning, claiming,
          working>>

NoPlan == [mode |-> "new", generation |-> 0, base |-> 0]
NoTurn == [phase |-> "idle", turn |-> None, now |-> 0, plan |-> NoPlan]
NoClaim == [phase |-> "idle", began |-> 0, task |-> None]
NoWork == [phase |-> "idle", task |-> None, token |-> None, update |-> None,
           now |-> 0]

Init ==
    /\ log = <<>>
    /\ decisions = <<>>
    /\ ledger = {}
    /\ conversations = <<>>
    /\ tasks = [t \in RequestIds |-> NoTask]
    /\ retained = {}
    /\ replay = {}
    /\ disclosures = {}
    /\ policy \in Policies
    /\ clock = 0
    /\ roomLock = None
    /\ claimLock = None
    /\ turning = [h \in Turners |-> NoTurn]
    /\ claiming = [c \in Claimers |-> NoClaim]
    /\ working = [w \in Workers |-> NoWork]

Tick ==
    /\ clock < MaxTime
    /\ clock' = clock + 1
    /\ UNCHANGED <<store, policy, locks, handlers>>

(* The end of a transaction gives the room's lock back. *)
Release(h) == roomLock' = IF roomLock = h THEN None ELSE roomLock

LockRoom(h) ==
    /\ roomLock = None
    /\ roomLock' = h

Prior(id) == {rec \in ledger : rec.id = id}

Entry(kind, task, public) == [kind |-> kind, task |-> task, public |-> public]

Messages == {n \in DOMAIN log : log[n].kind = "message"}

(* Any other request of the room (RoomLedger): it uses up its id and       *)
(* appends to the room.                                                    *)
RoomMessage(id) ==
    /\ Cardinality(Messages) < MaxMessages
    /\ roomLock = None
    /\ Prior(id) = {}
    /\ \E public \in Audiences : log' = Append(log, Entry("message", None, public))
    /\ ledger' = ledger \cup {[id |-> id, turn |-> None]}
    /\ UNCHANGED <<decisions, conversations, tasks, retained, replay, disclosures,
                   policy, clock, locks, handlers>>

(* A decision about some event of the room is accepted, or reversed. *)
RoomDecide ==
    /\ Len(decisions) < MaxDecisions
    /\ roomLock = None
    /\ \E n \in DOMAIN log :
        decisions' = Append(decisions, [source |-> n, active |-> TRUE])
    /\ log' = Append(log, Entry("decision", None, TRUE))
    /\ UNCHANGED <<ledger, conversations, tasks, retained, replay, disclosures,
                   policy, clock, locks, handlers>>

RoomReverse(d) ==
    /\ roomLock = None
    /\ decisions[d].active
    /\ decisions' = [decisions EXCEPT ![d].active = FALSE]
    /\ log' = Append(log, Entry("decision", None, TRUE))
    /\ UNCHANGED <<ledger, conversations, tasks, retained, replay, disclosures,
                   policy, clock, locks, handlers>>

-------------------------------------------------------------------------------
(* turn: reserve_inner.                                                    *)

(* authorize_conversation_turn: the token outlives the turn and its grace. *)
Authorized(expiry, now) == expiry >= now + Deadline + Grace

TurnBegin(h) ==
    /\ turning[h].phase = "idle"
    /\ policy.enabled
    /\ \E turn \in Turns :
        /\ Authorized(turn.expiry, clock)
        /\ turning' = [turning EXCEPT ![h].phase = "begun", ![h].turn = turn]
    /\ UNCHANGED <<store, policy, clock, locks, claiming, working>>

TurnLock(h) ==
    /\ turning[h].phase = "begun"
    /\ LockRoom(h)
    /\ turning' = [turning EXCEPT ![h].phase = "locked", ![h].now = clock]
    /\ UNCHANGED <<store, policy, clock, claimLock, claiming, working>>

Current == {g \in DOMAIN conversations : conversations[g].state # "superseded"}

(* Mutant of Busy: a claimed task no longer keeps the room busy. *)
BusyUntilClaimed == \E g \in Current : conversations[g].state = "reserved"

Busy == \E g \in Current : conversations[g].state \in {"reserved", "running"}

ModeOf(turn) ==
    IF turn.mode # "unspecified" THEN turn.mode
    ELSE IF Current # {} THEN "continue" ELSE "new"

(* The generation a turn may continue. *)
Continues(turn, g) ==
    /\ conversations[g].state = "ready"
    /\ conversations[g].policy = policy.revision
    /\ turn.mode = "continue" => turn.generation = g
    /\ conversations[g].consumed > 0

Plans(turn) ==
    IF ModeOf(turn) = "new"
    THEN {[mode |-> "new", generation |-> Len(conversations) + 1, base |-> 0]}
    ELSE {[mode |-> "continue", generation |-> g, base |-> conversations[g].consumed] :
            g \in {c \in Current : Continues(turn, c)}}

(* Not seen before, the room is not busy, and there is a generation for    *)
(* it: the transaction writes.                                             *)
TurnPlan(h) ==
    /\ turning[h].phase = "locked"
    /\ Authorized(turning[h].turn.expiry, turning[h].now)
    /\ Prior(turning[h].turn.id) = {}
    /\ ~Busy
    /\ \E plan \in Plans(turning[h].turn) :
        turning' = [turning EXCEPT ![h].phase = "planned", ![h].plan = plan]
    /\ UNCHANGED <<store, policy, clock, locks, claiming, working>>

(* freeze_context: messages everyone may read, ... *)
PublicMessage(n) == log[n].kind \in {"message", "prompt", "reply"} /\ log[n].public

(* ... and active decisions all of whose sources everyone may read. *)
Tellable == {d \in DOMAIN decisions : decisions[d].active /\ log[decisions[d].source].public}

(* Replies of the generation itself that a continued turn is to be told of *)
(* by reference: each has to be the answer to a context already consumed.  *)
ContextAgrees(h) ==
    LET plan == turning[h].plan
    IN  plan.base > 0 =>
        \A n \in plan.base + 1 .. Len(log) :
            /\ log[n].kind = "reply"
            /\ tasks[log[n].task].generation = plan.generation
            => tasks[log[n].task].revision <= plan.base

(* A replay of the accepted turn, or one of the refusals. *)
TurnRefuse(h) ==
    /\ \/ /\ turning[h].phase = "locked"
          /\ \/ ~Authorized(turning[h].turn.expiry, turning[h].now)
             \/ Prior(turning[h].turn.id) # {}
             \/ Busy
             \/ Plans(turning[h].turn) = {}
       \/ /\ turning[h].phase = "planned"
          /\ ~Authorized(turning[h].turn.expiry, clock) \/ ~ContextAgrees(h)
    /\ turning' = [turning EXCEPT ![h] = NoTurn]
    /\ Release(h)
    /\ UNCHANGED <<store, policy, clock, claimLock, claiming, working>>

(* agent_conversations after the reservation. *)
Reserved(h) ==
    LET plan == turning[h].plan
        id == turning[h].turn.id
    IN  IF plan.mode = "new"
        THEN Append([g \in DOMAIN conversations |->
                        [conversations[g] EXCEPT !.state = "superseded", !.active = None]],
                    [state |-> "reserved", active |-> id, consumed |-> 0,
                     policy |-> policy.revision])
        ELSE [conversations EXCEPT ![plan.generation].state = "reserved",
                                   ![plan.generation].active = id]

(* The unique keys of room_requests and agent_conversations. *)
KeysFree(h) ==
    /\ Prior(turning[h].turn.id) = {}
    /\ turning[h].plan.mode = "new" =>
        turning[h].plan.generation = Len(conversations) + 1

(* Mutant of NewTask: a continued turn is given the whole room again. *)
NewTaskFromStart(h) ==
    [NoTask EXCEPT
        !.state = "reserved", !.generation = turning[h].plan.generation,
        !.revision = Len(log) + 1, !.decisions = Tellable,
        !.policy = policy.revision, !.issued = turning[h].now,
        !.expires = turning[h].now + Deadline,
        !.authExpires = turning[h].turn.expiry]

(* The context is frozen from the cursor to the prompt just appended. *)
NewTask(h) ==
    [NoTask EXCEPT
        !.state = "reserved", !.generation = turning[h].plan.generation,
        !.base = turning[h].plan.base, !.revision = Len(log) + 1,
        !.decisions = Tellable,
        !.policy = policy.revision, !.issued = turning[h].now,
        !.expires = turning[h].now + Deadline,
        !.authExpires = turning[h].turn.expiry]

(* Mutant of TurnPersist: the request is not recorded. *)
TurnPersistUnrecorded(h) ==
    /\ log' = Append(log, Entry("prompt", turning[h].turn.id, TRUE))
    /\ conversations' = Reserved(h)
    /\ tasks' = [tasks EXCEPT ![turning[h].turn.id] = NewTask(h)]
    /\ UNCHANGED <<decisions, ledger, retained, replay, disclosures>>

(* Prompt, request, generation and task commit together. *)
TurnPersist(h) ==
    /\ log' = Append(log, Entry("prompt", turning[h].turn.id, TRUE))
    /\ ledger' = ledger \cup {[id |-> turning[h].turn.id, turn |-> turning[h].turn]}
    /\ conversations' = Reserved(h)
    /\ tasks' = [tasks EXCEPT ![turning[h].turn.id] = NewTask(h)]
    /\ UNCHANGED <<decisions, retained, replay, disclosures>>

(* The catalog query and the snapshot took time: authority is checked a    *)
(* third time, then the transaction commits.                               *)
TurnCommit(h) ==
    /\ turning[h].phase = "planned"
    /\ Authorized(turning[h].turn.expiry, clock)
    /\ ContextAgrees(h)
    /\ KeysFree(h)
    /\ TurnPersist(h)
    /\ turning' = [turning EXCEPT ![h] = NoTurn]
    /\ Release(h)
    /\ UNCHANGED <<policy, clock, claimLock, claiming, working>>

(* Mentions, settings, catalog, context or a statement fail: nothing is    *)
(* written.                                                                *)
TurnFail(h) ==
    /\ turning[h].phase # "idle"
    /\ turning' = [turning EXCEPT ![h] = NoTurn]
    /\ Release(h)
    /\ UNCHANGED <<store, policy, clock, claimLock, claiming, working>>

-------------------------------------------------------------------------------
(* Authority over a task, and its failure.                                 *)

(* Mutant of Barred: the policy is not compared. *)
BarredByDisabling(t) == ~policy.enabled

Barred(t) == ~policy.enabled \/ tasks[t].policy # policy.revision

Lapsed(t, now) == tasks[t].authExpires <= now \/ tasks[t].expires <= now

Stale(t) ==
    \/ tasks[t].state \notin Open
    \/ conversations[tasks[t].generation].active # t
    \/ conversations[tasks[t].generation].state \notin {"reserved", "running"}

(* task_authority for a claim and for the holder of a lease. *)
ClaimAuthority(t) ==
    /\ ~Barred(t) /\ ~Lapsed(t, clock) /\ ~Stale(t)
    /\ tasks[t].state = "reserved" /\ tasks[t].token = None

LeaseAuthority(t, token) ==
    /\ ~Barred(t) /\ ~Lapsed(t, clock) /\ ~Stale(t)
    /\ tasks[t].token = token /\ tasks[t].leaseExpires > clock

(* fail_task_state: only an open task fails, and only the generation it is *)
(* active in becomes unusable.                                             *)
FailedState(state) == IF state \in Open THEN "failed" ELSE state

(* Mutant of Unusable: a state agent_conversations does not know. *)
UnusableFailed(t) ==
    [g \in DOMAIN conversations |->
        IF g = tasks[t].generation /\ conversations[g].active = t
        THEN [conversations[g] EXCEPT !.state = "failed", !.active = None]
        ELSE conversations[g]]

Unusable(t) ==
    [g \in DOMAIN conversations |->
        IF g = tasks[t].generation /\ conversations[g].active = t
        THEN [conversations[g] EXCEPT !.state = "unusable", !.active = None]
        ELSE conversations[g]]

Shown(t, ordinal, kind) == [task |-> t, ordinal |-> ordinal, kind |-> kind]

(* fail_task: whatever the task's state, a failed update is shown under    *)
(* the next ordinal.                                                       *)
FailTask(t) ==
    /\ tasks[t].ordinal < MaxOrdinal
    /\ tasks' = [tasks EXCEPT ![t].state = FailedState(@), ![t].ordinal = @ + 1]
    /\ conversations' = Unusable(t)
    /\ retained' = retained \cup {Shown(t, tasks[t].ordinal + 1, "failed")}
    /\ UNCHANGED <<log, decisions, ledger, replay, disclosures>>

-------------------------------------------------------------------------------
(* claim.                                                                  *)

(* CURRENT_TIMESTAMP is the time the transaction began on the database. *)
DatabaseTimes == {n \in clock - Skew .. clock + Skew : n >= 0}

ClaimBegin(c) ==
    /\ claiming[c].phase = "idle"
    /\ policy.enabled
    /\ \E now \in DatabaseTimes :
        claiming' = [claiming EXCEPT ![c] = [phase |-> "begun", began |-> now,
                                             task |-> None]]
    /\ UNCHANGED <<store, policy, clock, locks, turning, working>>

(* Mutant of Claimable: a task whose worker went silent is not found. *)
ClaimableReserved(now) == {t \in RequestIds : tasks[t].state = "reserved"}

Claimable(now) ==
    {t \in RequestIds :
        \/ tasks[t].state = "reserved"
        \/ /\ tasks[t].state = "running"
           /\ \/ tasks[t].leaseExpires <= now
              \/ tasks[t].expires <= now
              \/ tasks[t].authExpires <= now}

(* ORDER BY created_at, task_id LIMIT 1; ties are broken either way. *)
Oldest(candidates) ==
    {t \in candidates : \A o \in candidates : tasks[t].issued <= tasks[o].issued}

(* Under the claim lock, and before the room's, the candidate is read. *)
ClaimCandidate(c) ==
    /\ claiming[c].phase = "begun"
    /\ claimLock = None
    /\ claimLock' = c
    /\ \E t \in Oldest(Claimable(claiming[c].began)) :
        claiming' = [claiming EXCEPT ![c].phase = "candidate", ![c].task = t]
    /\ UNCHANGED <<store, policy, clock, roomLock, turning, working>>

EndClaim(c) ==
    /\ claiming' = [claiming EXCEPT ![c] = NoClaim]
    /\ Release(c)
    /\ claimLock' = IF claimLock = c THEN None ELSE claimLock

ClaimNothing(c) ==
    /\ claiming[c].phase = "begun"
    /\ claimLock = None
    /\ Claimable(claiming[c].began) = {}
    /\ EndClaim(c)
    /\ UNCHANGED <<store, policy, clock, turning, working>>

ClaimLockRoom(c) ==
    /\ claiming[c].phase = "candidate"
    /\ LockRoom(c)
    /\ claiming' = [claiming EXCEPT ![c].phase = "locked"]
    /\ UNCHANGED <<store, policy, clock, claimLock, turning, working>>

Least(a, b) == IF a < b THEN a ELSE b

Leased(t, token) ==
    [tasks EXCEPT ![t].state = "running", ![t].token = token,
                  ![t].leaseExpires = Least(tasks[t].expires + Grace, tasks[t].authExpires)]

(* Mutant of ClaimGrant: a running task whose lease ran out is leased     *)
(* again.                                                                  *)
ClaimGrantAgain(c) ==
    /\ claiming[c].phase = "locked"
    /\ tasks[claiming[c].task].state \in Open
    /\ \E token \in Tokens \ {tasks[t].token : t \in RequestIds} :
        tasks' = Leased(claiming[c].task, token)
    /\ conversations' =
            [conversations EXCEPT ![tasks[claiming[c].task].generation].state = "running"]
    /\ EndClaim(c)
    /\ UNCHANGED <<log, decisions, ledger, retained, replay, disclosures, policy,
                   clock, turning, working>>

(* The task is read again under the room's lock and leased. *)
ClaimGrant(c) ==
    /\ claiming[c].phase = "locked"
    /\ ClaimAuthority(claiming[c].task)
    /\ \E token \in Tokens \ {tasks[t].token : t \in RequestIds} :
        tasks' = Leased(claiming[c].task, token)
    /\ conversations' =
            [conversations EXCEPT ![tasks[claiming[c].task].generation].state = "running"]
    /\ EndClaim(c)
    /\ UNCHANGED <<log, decisions, ledger, retained, replay, disclosures, policy,
                   clock, turning, working>>

(* Any want of authority fails the task, commits, and tries the next one   *)
(* in a new transaction; after a hundred of them the request ends          *)
(* (ClaimFail).                                                            *)
ClaimFailTask(c) ==
    /\ claiming[c].phase = "locked"
    /\ ~ClaimAuthority(claiming[c].task)
    /\ FailTask(claiming[c].task)
    /\ \E now \in DatabaseTimes :
        claiming' = [claiming EXCEPT ![c] = [phase |-> "begun", began |-> now,
                                             task |-> None]]
    /\ Release(c)
    /\ claimLock' = None
    /\ UNCHANGED <<policy, clock, turning, working>>

(* There is no ordinal left for the failure: the request ends in an error. *)
ClaimExhausted(c) ==
    /\ claiming[c].phase = "locked"
    /\ ~ClaimAuthority(claiming[c].task)
    /\ tasks[claiming[c].task].ordinal = MaxOrdinal
    /\ EndClaim(c)
    /\ UNCHANGED <<store, policy, clock, turning, working>>

ClaimFail(c) ==
    /\ claiming[c].phase # "idle"
    /\ EndClaim(c)
    /\ UNCHANGED <<store, policy, clock, turning, working>>

-------------------------------------------------------------------------------
(* packet (context and authority; update = None) and record_update.        *)

WorkBegin(w) ==
    /\ working[w].phase = "idle"
    /\ \E t \in RequestIds, update \in Updates \cup {None},
          token \in {tasks[o].token : o \in RequestIds} \ {None} :
        /\ tasks[t].state # "absent"
        /\ working' = [working EXCEPT ![w] = [phase |-> "begun", task |-> t,
                            token |-> token, update |-> update, now |-> 0]]
    /\ UNCHANGED <<store, policy, clock, locks, turning, claiming>>

WorkLock(w) ==
    /\ working[w].phase = "begun"
    /\ LockRoom(w)
    /\ working' = [working EXCEPT ![w].phase = "locked"]
    /\ UNCHANGED <<store, policy, clock, claimLock, turning, claiming>>

EndWork(w) ==
    /\ working' = [working EXCEPT ![w] = NoWork]
    /\ Release(w)

Replayed(t, id) == {rec \in replay : rec.task = t /\ rec.update.id = id}

HoldsToken(w) == tasks[working[w].task].token = working[w].token

HasAuthority(w) == LeaseAuthority(working[w].task, working[w].token)

(* An update the gateway has not seen, from the lease's holder. *)
NewUpdate(w) ==
    /\ working[w].phase = "locked"
    /\ working[w].update # None
    /\ policy.enabled
    /\ HoldsToken(w)
    /\ Replayed(working[w].task, working[w].update.id) = {}

(* Mutant of OrdinalAccepted: any later ordinal will do. *)
OrdinalLater(w) == working[w].update.ordinal > tasks[working[w].task].ordinal

(* Ordinals increase, and the last one is kept for the end of the task. *)
OrdinalAccepted(w) ==
    /\ working[w].update.ordinal > tasks[working[w].task].ordinal
    /\ working[w].update.ordinal = MaxOrdinal => working[w].update.kind \in Final

(* source_manifest: the events a task is told, its decisions and theirs. *)
Manifest(t) ==
    {[kind |-> "event", n |-> n] :
        n \in {e \in tasks[t].base + 1 .. tasks[t].revision : PublicMessage(e)}
              \cup {decisions[d].source : d \in tasks[t].decisions}}
    \cup {[kind |-> "decision", n |-> d] : d \in tasks[t].decisions}

(* conversation_disclosures once the task has completed: the first row of  *)
(* a source stays.                                                         *)
Disclosed(t) ==
    disclosures \cup
        {[generation |-> tasks[t].generation, source |-> c, policy |-> policy.revision] :
            c \in {c \in Manifest(t) :
                    ~\E row \in disclosures :
                        row.generation = tasks[t].generation /\ row.source = c}}

(* Everyone may read it. *)
Visible(c) ==
    IF c.kind = "event" THEN log[c.n].public
    ELSE log[decisions[c.n].source].public

(* Mutant of CitationsValid: anything public may be cited. *)
CitationsPublic(w) ==
    working[w].update.kind = "completed" =>
        \A c \in working[w].update.cites :
            c.n \in (IF c.kind = "event" THEN DOMAIN log ELSE DOMAIN decisions) /\ Visible(c)

(* validate_citations: what this task, or an earlier one of the generation *)
(* under the present policy, was told, and is public still.                *)
CitationsValid(w) ==
    LET t == working[w].task
        known == Manifest(t) \cup
            {row.source : row \in {r \in disclosures :
                r.generation = tasks[t].generation /\ r.policy = policy.revision}}
    IN  working[w].update.kind = "completed" =>
            \A c \in working[w].update.cites : c \in known /\ Visible(c)

(* A packet, a retry, or a refusal: nothing is written. *)
WorkAnswer(w) ==
    /\ \/ /\ working[w].phase = "locked"
          /\ \/ ~HoldsToken(w)
             \/ tasks[working[w].task].state \notin Open
             \/ working[w].update = None /\ HasAuthority(w)
             \/ working[w].update # None /\ ~NewUpdate(w)
             \/ /\ NewUpdate(w) /\ HasAuthority(w)
                /\ ~OrdinalAccepted(w) \/ ~CitationsValid(w)
       \/ working[w].phase = "staged" /\ ~HasAuthority(w)
    /\ EndWork(w)
    /\ UNCHANGED <<store, policy, clock, claimLock, turning, claiming>>

(* The holder of an open task has lost its authority: the task fails.  An  *)
(* open task is never stale (ConversationMatchesTask), the one error for   *)
(* which packet would not fail it.                                         *)
WorkFailTask(w) ==
    /\ \/ working[w].phase = "locked" /\ working[w].update = None /\ HoldsToken(w)
       \/ NewUpdate(w)
    /\ tasks[working[w].task].state \in Open
    /\ ~HasAuthority(w)
    /\ FailTask(working[w].task)
    /\ EndWork(w)
    /\ UNCHANGED <<policy, clock, claimLock, turning, claiming>>

UpdateStage(w) ==
    /\ NewUpdate(w)
    /\ HasAuthority(w)
    /\ OrdinalAccepted(w)
    /\ CitationsValid(w)
    /\ working' = [working EXCEPT ![w].phase = "staged", ![w].now = clock]
    /\ UNCHANGED <<store, policy, clock, locks, turning, claiming>>

(* The last look at authority. *)
UpdateCheck(w) ==
    /\ working[w].phase = "staged"
    /\ HasAuthority(w)
    /\ working' = [working EXCEPT ![w].phase = "checked"]
    /\ UNCHANGED <<store, policy, clock, locks, turning, claiming>>

(* Progress within a second of the last is not shown, except the first     *)
(* acceptance.                                                             *)
Coalesced(w) ==
    LET t == working[w].task
        kind == working[w].update.kind
    IN  \/ kind = "accepted" /\ \E row \in retained : row.task = t /\ row.kind = kind
        \/ /\ kind = "working"
           /\ tasks[t].progressed >= 0
           /\ working[w].now - tasks[t].progressed < 1

(* Mutant of Replaced: older progress stays. *)
ReplacedMetadata(t, kind) ==
    {row \in retained : row.task = t /\ row.kind = kind /\ kind \in {"settings", "usage"}}

(* The rows an update takes the place of. *)
Replaced(t, kind) ==
    {row \in retained :
        /\ row.task = t
        /\ \/ kind \in {"settings", "usage"} /\ row.kind = kind
           \/ kind \in Progress /\ row.kind = "working"}

(* conversation_updates and its copies in the task. *)
ShowUpdate(w) ==
    LET t == working[w].task
        update == working[w].update
    IN  retained' = IF Coalesced(w) THEN retained
                    ELSE (retained \ Replaced(t, update.kind))
                            \cup {Shown(t, update.ordinal, update.kind)}

(* The task after the update. *)
Updated(w) ==
    LET t == working[w].task
        update == working[w].update
    IN  [tasks EXCEPT
            ![t].ordinal = update.ordinal,
            ![t].state = CASE update.kind = "completed" -> "completed"
                           [] update.kind = "failed" -> FailedState(@)
                           [] OTHER -> @,
            ![t].reply = IF update.kind = "completed" THEN Len(log) + 1 ELSE @,
            ![t].cites = IF update.kind = "completed" THEN update.cites ELSE @,
            ![t].progressed = IF update.kind \in Progress /\ ~Coalesced(w)
                                THEN working[w].now ELSE @]

(* Mutant of Ready: the cursor stays where the turn began. *)
ReadyAtBase(t) ==
    [conversations EXCEPT ![tasks[t].generation].state = "ready",
                          ![tasks[t].generation].active = None,
                          ![tasks[t].generation].consumed =
                                IF tasks[t].base > 0 THEN tasks[t].base ELSE 1]

Ready(t) ==
    [conversations EXCEPT ![tasks[t].generation].state = "ready",
                          ![tasks[t].generation].active = None,
                          ![tasks[t].generation].consumed = tasks[t].revision]

(* Mutant of UpdatePersist: the update id is not recorded. *)
UpdatePersistUnrecorded(w) ==
    LET t == working[w].task
        update == working[w].update
    IN  /\ log' = IF update.kind = "completed"
                    THEN Append(log, Entry("reply", t, TRUE)) ELSE log
        /\ tasks' = Updated(w)
        /\ conversations' = CASE update.kind = "completed" -> Ready(t)
                              [] update.kind = "failed" -> Unusable(t)
                              [] OTHER -> conversations
        /\ ShowUpdate(w)
        /\ disclosures' = IF update.kind = "completed" THEN Disclosed(t) ELSE disclosures
        /\ UNCHANGED <<decisions, ledger, replay>>

(* Reply, cursor, task, shown update and replay row commit together. *)
UpdatePersist(w) ==
    LET t == working[w].task
        update == working[w].update
    IN  /\ log' = IF update.kind = "completed"
                    THEN Append(log, Entry("reply", t, TRUE)) ELSE log
        /\ tasks' = Updated(w)
        /\ conversations' = CASE update.kind = "completed" -> Ready(t)
                              [] update.kind = "failed" -> Unusable(t)
                              [] OTHER -> conversations
        /\ ShowUpdate(w)
        /\ replay' = replay \cup {[task |-> t, update |-> update]}
        /\ disclosures' = IF update.kind = "completed" THEN Disclosed(t) ELSE disclosures
        /\ UNCHANGED <<decisions, ledger>>

UpdateCommit(w) ==
    /\ working[w].phase = "checked"
    /\ UpdatePersist(w)
    /\ EndWork(w)
    /\ UNCHANGED <<policy, clock, claimLock, turning, claiming>>

(* Invalid contents, another context, or a statement that fails: nothing   *)
(* is written.                                                             *)
WorkFail(w) ==
    /\ working[w].phase # "idle"
    /\ EndWork(w)
    /\ UNCHANGED <<store, policy, clock, claimLock, turning, claiming>>

-------------------------------------------------------------------------------
(* The gateway stops and starts again, perhaps with another policy. *)
Restart ==
    /\ policy' \in Policies
    /\ roomLock' = None
    /\ claimLock' = None
    /\ turning' = [h \in Turners |-> NoTurn]
    /\ claiming' = [c \in Claimers |-> NoClaim]
    /\ working' = [w \in Workers |-> NoWork]
    /\ UNCHANGED <<store, clock>>

TurnStep(h) == TurnPlan(h) \/ TurnRefuse(h) \/ TurnCommit(h)

ClaimRead(c) == ClaimCandidate(c) \/ ClaimNothing(c)

ClaimStep(c) == ClaimGrant(c) \/ ClaimFailTask(c) \/ ClaimExhausted(c)

WorkStep(w) ==
    \/ WorkAnswer(w) \/ WorkFailTask(w)
    \/ UpdateStage(w) \/ UpdateCheck(w) \/ UpdateCommit(w)

Next ==
    \/ Tick
    \/ \E id \in RequestIds : RoomMessage(id)
    \/ RoomDecide
    \/ \E d \in DOMAIN decisions : RoomReverse(d)
    \/ \E h \in Turners :
        TurnBegin(h) \/ TurnLock(h) \/ TurnStep(h) \/ TurnFail(h)
    \/ \E c \in Claimers :
        \/ ClaimBegin(c) \/ ClaimRead(c) \/ ClaimLockRoom(c)
        \/ ClaimStep(c) \/ ClaimFail(c)
    \/ \E w \in Workers :
        WorkBegin(w) \/ WorkLock(w) \/ WorkStep(w) \/ WorkFail(w)
    \/ Restart

(* Requests keep running, and PostgreSQL grants a lock that is free again  *)
(* and again to each of its waiters.  Time passes, workers keep asking for *)
(* work while they may, and not every one of their claims fails.           *)
Fairness ==
    /\ WF_vars(Tick)
    /\ \A h \in Turners : WF_vars(TurnStep(h)) /\ SF_vars(TurnLock(h))
    /\ \A c \in Claimers : WF_vars(ClaimBegin(c)) /\ SF_vars(ClaimRead(c))
            /\ SF_vars(ClaimLockRoom(c)) /\ SF_vars(ClaimStep(c))
    /\ \A w \in Workers : WF_vars(WorkStep(w)) /\ SF_vars(WorkLock(w))

Spec == Init /\ [][Next]_vars /\ Fairness

-------------------------------------------------------------------------------
(* Correctness.                                                            *)

(* The tables and the handlers' locals have their types. *)
TypeOK ==
    /\ log \in Seq(LogEntry)
    /\ decisions \in Seq([source : DOMAIN log, active : BOOLEAN])
    /\ ledger \subseteq [id : RequestIds, turn : Turns \cup {None}]
    /\ conversations \in Seq(ConversationRow)
    /\ tasks \in [RequestIds -> TaskRow]
    /\ retained \subseteq [task : RequestIds, ordinal : 1 .. MaxOrdinal, kind : Kinds]
    /\ replay \subseteq [task : RequestIds, update : Updates]
    /\ disclosures \subseteq [generation : Nat, source : Source, policy : Nat]
    /\ policy \in Policies
    /\ clock \in Nat
    /\ roomLock \in Turners \cup Claimers \cup Workers \cup {None}
    /\ claimLock \in Claimers \cup {None}
    /\ turning \in [Turners -> TurnRequest]
    /\ claiming \in [Claimers -> ClaimRequest]
    /\ working \in [Workers -> WorkRequest]

TasksOf(g) == {t \in RequestIds : tasks[t].generation = g}

(* The two tables agree: only the newest generation is current, its state  *)
(* is that of its active task, the room has no other open task, and a      *)
(* generation with a failed task is never used again (reserve_inner,       *)
(* fail_task_state, record_update).                                        *)
ConversationMatchesTask ==
    \A g \in DOMAIN conversations :
        LET c == conversations[g]
        IN  /\ c.state = "superseded" <=> g < Len(conversations)
            /\ c.state \in {"reserved", "running"} <=> c.active # None
            /\ c.active # None =>
                c.active \in TasksOf(g) /\ tasks[c.active].state = c.state
            /\ \A t \in TasksOf(g) :
                /\ tasks[t].state \in Open => c.active = t
                /\ tasks[t].state = "failed" => c.state \in {"unusable", "superseded"}

(* A generation is told every event of the room exactly once: the contexts *)
(* of its turns follow each other without gap or overlap, from the room's  *)
(* first event on, through restarts, failures and messages in between      *)
(* (reserve_inner, build_context, and the cursor in record_update).        *)
ToldOnce ==
    \A g \in DOMAIN conversations :
        /\ \A n \in DOMAIN log :
            Cardinality({t \in TasksOf(g) : n > tasks[t].base /\ n <= tasks[t].revision}) <= 1
        /\ \A t \in TasksOf(g) :
            \/ tasks[t].base = 0
            \/ \E o \in TasksOf(g) :
                tasks[o].state = "completed" /\ tasks[o].revision = tasks[t].base
        /\ \A t \in TasksOf(g) :
            tasks[t].state = "completed" => tasks[t].revision <= conversations[g].consumed

EventsAt(kind, t) == {n \in DOMAIN log : log[n].kind = kind /\ log[n].task = t}

(* A turn has one prompt, at the end of its context, a ledger row that     *)
(* makes its retry a replay, and one reply if it completed and none        *)
(* otherwise, however turns and updates are retried or raced.              *)
TurnsOnce ==
    \A t \in RequestIds :
        LET row == tasks[t]
            accepted == {rec \in Prior(t) : rec.turn # None}
        IN  /\ row.state = "absent" => EventsAt("prompt", t) = {} /\ accepted = {}
            /\ row.state # "absent" =>
                /\ EventsAt("prompt", t) = {row.revision}
                /\ Cardinality(Prior(t)) = 1 /\ accepted # {}
            /\ EventsAt("reply", t) =
                IF row.state = "completed" THEN {row.reply} ELSE {}
            /\ row.state = "completed" => row.reply > row.revision

(* What generation g was told by task t or before it. *)
ToldBy(g, t) ==
    UNION {Manifest(o) : o \in {o \in TasksOf(g) : tasks[o].revision <= tasks[t].revision}}

(* A reply cites only what its generation was told by then, and nothing    *)
(* that was said to some of the room only: not what came after its context *)
(* was frozen, not a decision about a targeted message (validate_citations,*)
(* freeze_context, conversation_disclosures).                              *)
RepliesCiteToldSources ==
    \A t \in RequestIds : \A c \in tasks[t].cites :
        c \in ToldBy(tasks[t].generation, t) /\ Visible(c)

(* The checks of a continued turn on the generation's own replies never    *)
(* fail: each one after the cursor answers a context that was consumed     *)
(* (freeze_context's ContextMismatch).                                     *)
OwnRepliesBind == \A h \in Turners : turning[h].phase = "planned" => ContextAgrees(h)

(* An update id and an ordinal count once per task, and the update that    *)
(* completed a task is there for its retry (conversation_update_requests). *)
UpdatesOnce ==
    /\ \A a, b \in replay :
        /\ a.task = b.task
        /\ a.update.id = b.update.id \/ a.update.ordinal = b.update.ordinal
        => a = b
    /\ \A t \in RequestIds : tasks[t].state = "completed" =>
        \E rec \in replay : rec.task = t /\ rec.update.kind = "completed"

(* What browsers are shown stays bounded: one row of each kind, failures   *)
(* aside (the 256 retained rows of the specification are never needed).    *)
ShownOnce ==
    \A a, b \in retained :
        a.task = b.task /\ a.kind = b.kind /\ a.kind # "failed" => a = b

(* An open task can always be failed: an ordinal is left for it            *)
(* (record_update's guard at MAX_SAFE_INTEGER, fail_task).                 *)
OrdinalLeft ==
    \A t \in RequestIds : tasks[t].state \in Open => tasks[t].ordinal < MaxOrdinal

(* Who may have w's reply committed: the holder of the lease of the        *)
(* generation's active task, under the policy of the reservation, with the *)
(* deadline, the lease and the requester's token alive when it was checked. *)
MayReply(w, t) ==
    /\ working[w].phase = "checked"
    /\ working[w].task = t
    /\ working[w].token = tasks[t].token
    /\ policy.enabled /\ policy.revision = tasks[t].policy
    /\ conversations[tasks[t].generation].active = t
    /\ working[w].now < tasks[t].expires
    /\ working[w].now < tasks[t].leaseExpires
    /\ working[w].now < tasks[t].authExpires

(* No reply without authority: restarts with a narrower policy, expiry and *)
(* waiting for the room lock included (record_update).                     *)
RepliesAuthorized ==
    [][\A t \in RequestIds : tasks'[t].reply # tasks[t].reply =>
        \E w \in Workers : MayReply(w, t)]_vars

WorkState(t) == IF tasks[t].state \in Open THEN "open" ELSE tasks[t].state

Work == INSTANCE LeasedWork WITH
    Items <- RequestIds,
    UpdateIds <- {u.id : u \in Updates},
    Outcomes <- Final,
    Takeover <- FALSE,
    state <- [t \in RequestIds |-> WorkState(t)],
    holder <- [t \in RequestIds |-> tasks[t].token],
    effects <- [t \in RequestIds |->
        {[id |-> rec.update.id, token |-> tasks[t].token] :
            rec \in {r \in replay : r.task = t}}]

(* Turns are leased work that is never handed on: claim, packet,           *)
(* record_update and fail_task only do what LeasedWork allows.  Work that  *)
(* may have been submitted is never leased again, and the outcome of a     *)
(* task never changes.                                                     *)
TurnsAreLeasedWork == Work!Spec

(* A reserved turn does not keep the room busy for ever: it is answered or *)
(* failed, also when its worker goes silent or its lease is lost, as long  *)
(* as workers ask for work (claim, task_authority, fail_task).             *)
TurnSettles ==
    \A t \in RequestIds : tasks[t].state \in Open ~> tasks[t].state \in Final

(* Late and conflicting terminal results are rejected: no task shows both  *)
(* a completed and a failed update (claim, fail_task).                     *)
NoConflictingResults ==
    \A a, b \in retained : a.task = b.task => ~(a.kind = "completed" /\ b.kind = "failed")
===============================================================================

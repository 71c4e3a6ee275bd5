------------------------------ MODULE AgentTasks ------------------------------
(***************************************************************************)
(* Governed external-agent tasks: the claim, context and update endpoints  *)
(* (agent_service.rs) over agent_tasks and agent_task_updates (store.rs).  *)
(*                                                                         *)
(* Workers poll for the oldest claimable task of one agent, get a lease    *)
(* with a fresh token, and post updates under it until the task is         *)
(* terminal or the lease runs out and somebody else claims it.  Every      *)
(* handler is an HTTP task with one PostgreSQL transaction (READ           *)
(* COMMITTED): a locking read waits for the row and then looks at its      *)
(* latest version, and NOW() is the time the transaction began.  The       *)
(* claim's time is the gateway host's clock, at most Skew off the          *)
(* database's.                                                             *)
(***************************************************************************)
EXTENDS Integers, Sequences, FiniteSets

CONSTANTS
    Tasks,          \* task ids
    Rooms,          \* rooms the tasks belong to
    RoomOf,         \* the room of each task
    Tokens,         \* the supply of lease tokens (Uuid::new_v4)
    Claimers,       \* claim requests that may run at the same time
    Updaters,       \* update requests that may run at the same time
    Updates,        \* what workers post: [id, type, valid]
    LeaseDuration,  \* AGENT_TASK_LEASE_DURATION
    Skew,           \* bound on the host clock's distance from the database's
    MaxTime,        \* bound: the database clock stops here
    None            \* no token, no handler, no task

States == {"absent", "queued", "running", "awaiting_external_input",
           "succeeded", "failed"}

Open == {"queued", "running", "awaiting_external_input"}

Terminal == {"succeeded", "failed"}

UpdateTypes == {"progressed", "awaiting_external_input", "succeeded", "failed"}

(* valid: the payload and its handoff pass the checks of the update. *)
Update == [id : Nat, type : UpdateTypes, valid : BOOLEAN]

ASSUME TasksAssumption ==
    /\ RoomOf \in [Tasks -> Rooms]
    /\ Updates \subseteq Update
    /\ LeaseDuration \in Nat /\ Skew \in Nat /\ MaxTime \in Nat
    /\ None \notin Tasks \cup Tokens \cup Updaters \cup Claimers

(* A row of agent_tasks.  expires = 0 and owner = None: never claimed. *)
Row == [state : States, owner : Tokens \cup {None}, expires : Int, created : Nat]

(* An event of the task in the room log: the update it came from and the   *)
(* lease it was posted under.                                              *)
Entry == [type : UpdateTypes \cup {"requested"}, update : Nat \cup {None},
          token : Tokens \cup {None}]

(* The locals of a claim and of an update request. *)
ClaimRequest ==
    [phase : {"idle", "begun", "locked", "selected"}, now : Nat,
     token : Tokens \cup {None}, candidates : SUBSET Tasks]

PostRequest ==
    [phase : {"idle", "matched", "begun", "row", "room"}, task : Tasks \cup {None},
     token : Tokens \cup {None}, update : Updates \cup {None}, began : Nat]

VARIABLES
    task,       \* agent_tasks
    starting,   \* created_at of the start transactions in progress
    history,    \* the events of each task, in room order
    recorded,   \* agent_task_updates: [task, id, index into history]
    issued,     \* tokens drawn so far
    clock,      \* the database's clock
    agentLock,  \* holder of the agent's advisory lock
    rowLock,    \* holder of each row of agent_tasks
    roomLock,   \* holder of each room's advisory lock
    claim,      \* each claim request: phase, time, token, candidates
    post        \* each update request: phase, task, token, update, tx start

table == <<task, starting, history, recorded, issued>>
vars == <<task, starting, history, recorded, issued, clock, agentLock, rowLock,
          roomLock, claim, post>>

NoClaim == [phase |-> "idle", now |-> 0, token |-> None, candidates |-> {}]

NoPost == [phase |-> "idle", task |-> None, token |-> None,
           update |-> None, began |-> 0]

Init ==
    /\ task = [t \in Tasks |->
            [state |-> "absent", owner |-> None, expires |-> 0, created |-> 0]]
    /\ starting = [t \in Tasks |-> None]
    /\ history = [t \in Tasks |-> <<>>]
    /\ recorded = {}
    /\ issued = {}
    /\ clock = 0
    /\ agentLock = None
    /\ rowLock = [t \in Tasks |-> None]
    /\ roomLock = [r \in Rooms |-> None]
    /\ claim = [c \in Claimers |-> NoClaim]
    /\ post = [u \in Updaters |-> NoPost]

Tick ==
    /\ clock < MaxTime
    /\ clock' = clock + 1
    /\ UNCHANGED <<table, agentLock, rowLock, roomLock, claim, post>>

(* Utc::now() on a gateway host. *)
HostTimes == {n \in clock - Skew .. clock + Skew : n >= 0}

-------------------------------------------------------------------------------
(* start_agent_task_in_transaction (see RoomLedger for the whole request): *)
(* created_at is when the transaction began, the row appears at commit.    *)

StartBegin(t) ==
    /\ task[t].state = "absent"
    /\ starting[t] = None
    /\ starting' = [starting EXCEPT ![t] = clock]
    /\ UNCHANGED <<task, history, recorded, issued, clock, agentLock, rowLock,
                   roomLock, claim, post>>

StartCommit(t) ==
    /\ starting[t] # None
    /\ roomLock[RoomOf[t]] = None
    /\ task' = [task EXCEPT ![t] =
            [state |-> "queued", owner |-> None, expires |-> 0,
             created |-> starting[t]]]
    /\ history' = [history EXCEPT ![t] =
            <<[type |-> "requested", update |-> None, token |-> None]>>]
    /\ starting' = [starting EXCEPT ![t] = None]
    /\ UNCHANGED <<recorded, issued, clock, agentLock, rowLock, roomLock,
                   claim, post>>

-------------------------------------------------------------------------------
(* claim_oldest_queued_agent_task.                                         *)

Claimable(t, now) ==
    /\ task[t].state \in Open
    /\ task[t].owner = None \/ task[t].expires <= now

(* ORDER BY created_at, task_id LIMIT 1; ties go to some fixed order of    *)
(* the ids, here any.                                                      *)
Oldest(candidates) ==
    {t \in candidates : \A o \in candidates : task[t].created <= task[o].created}

(* The handler draws its token and reads its clock before it queues for    *)
(* the agent's lock.                                                       *)
ClaimBegin(c) ==
    /\ claim[c].phase = "idle"
    /\ \E token \in Tokens \ issued, now \in HostTimes :
        /\ claim' = [claim EXCEPT ![c] = [phase |-> "begun", now |-> now,
                                          token |-> token, candidates |-> {}]]
        /\ issued' = issued \cup {token}
    /\ UNCHANGED <<task, starting, history, recorded, clock, agentLock, rowLock,
                   roomLock, post>>

ClaimLock(c) ==
    /\ claim[c].phase = "begun"
    /\ agentLock = None
    /\ agentLock' = c
    /\ claim' = [claim EXCEPT ![c].phase = "locked"]
    /\ UNCHANGED <<table, clock, rowLock, roomLock, post>>

(* The statement's snapshot: what it found claimable, oldest first. *)
ClaimSelect(c) ==
    /\ claim[c].phase = "locked"
    /\ claim' = [claim EXCEPT
            ![c].phase = "selected",
            ![c].candidates = {t \in Tasks : Claimable(t, claim[c].now)}]
    /\ UNCHANGED <<table, clock, agentLock, rowLock, roomLock, post>>

EndClaim(c) ==
    /\ claim' = [claim EXCEPT ![c] = NoClaim]
    /\ agentLock' = IF agentLock = c THEN None ELSE agentLock

Lease(c, t) ==
    [task EXCEPT ![t].state = "running", ![t].owner = claim[c].token,
                 ![t].expires = claim[c].now + LeaseDuration]

(* Mutant of ClaimGrant: SKIP LOCKED. *)
ClaimGrantSkipLocked(c) ==
    /\ claim[c].phase = "selected"
    /\ \E t \in Oldest({o \in claim[c].candidates : rowLock[o] = None}) :
        /\ Claimable(t, claim[c].now)
        /\ task' = Lease(c, t)
    /\ EndClaim(c)
    /\ UNCHANGED <<starting, history, recorded, issued, clock, rowLock, roomLock,
                   post>>

(* Mutant of ClaimGrant: the candidate is not looked at again. *)
ClaimGrantStale(c) ==
    /\ claim[c].phase = "selected"
    /\ \E t \in Oldest(claim[c].candidates) :
        /\ rowLock[t] = None
        /\ task' = Lease(c, t)
    /\ EndClaim(c)
    /\ UNCHANGED <<starting, history, recorded, issued, clock, rowLock, roomLock,
                   post>>

(* FOR UPDATE waits for the head's row; the latest version still           *)
(* qualifies, so the row is leased and the transaction commits.            *)
ClaimGrant(c) ==
    /\ claim[c].phase = "selected"
    /\ \E t \in Oldest(claim[c].candidates) :
        /\ rowLock[t] = None
        /\ Claimable(t, claim[c].now)
        /\ task' = Lease(c, t)
    /\ EndClaim(c)
    /\ UNCHANGED <<starting, history, recorded, issued, clock, rowLock, roomLock,
                   post>>

(* The latest version no longer qualifies: on to the next candidate. *)
ClaimRecheck(c) ==
    /\ claim[c].phase = "selected"
    /\ \E t \in Oldest(claim[c].candidates) :
        /\ rowLock[t] = None
        /\ ~Claimable(t, claim[c].now)
        /\ claim' = [claim EXCEPT ![c].candidates = @ \ {t}]
    /\ UNCHANGED <<table, clock, agentLock, rowLock, roomLock, post>>

(* No row: 204 No Content. *)
ClaimNothing(c) ==
    /\ claim[c].phase = "selected"
    /\ claim[c].candidates = {}
    /\ EndClaim(c)
    /\ UNCHANGED <<table, clock, rowLock, roomLock, post>>

ClaimFail(c) ==
    /\ claim[c].phase # "idle"
    /\ EndClaim(c)
    /\ UNCHANGED <<table, clock, rowLock, roomLock, post>>

-------------------------------------------------------------------------------
(* update and record_agent_task_update_with_outcome.                       *)

Mine(u) == post[u].task

HoldsLease(t, token, now) == task[t].owner = token /\ task[t].expires > now

(* The end of a transaction releases its row and advisory locks. *)
Release(u) ==
    /\ rowLock' = [t \in Tasks |-> IF rowLock[t] = u THEN None ELSE rowLock[t]]
    /\ roomLock' = [r \in Rooms |-> IF roomLock[r] = u THEN None ELSE roomLock[r]]

EndPost(u) ==
    /\ post' = [post EXCEPT ![u] = NoPost]
    /\ Release(u)

(* matching_live_lease: the lease in the header is the task's, by the host's *)
(* clock.                                                                  *)
PostBegin(u) ==
    /\ post[u].phase = "idle"
    /\ \E t \in Tasks, token \in issued, update \in Updates, now \in HostTimes :
        /\ HoldsLease(t, token, now)
        /\ post' = [post EXCEPT ![u] = [phase |-> "matched", task |-> t,
                        token |-> token, update |-> update, began |-> 0]]
    /\ UNCHANGED <<table, clock, agentLock, rowLock, roomLock, claim>>

(* context_for_lease checks the lease again by the database's clock; the   *)
(* revision and citation checks read what never changes.  The transaction  *)
(* begins: NOW() is fixed.                                                 *)
PostTransaction(u) ==
    /\ post[u].phase = "matched"
    /\ HoldsLease(Mine(u), post[u].token, clock)
    /\ post' = [post EXCEPT ![u].phase = "begun", ![u].began = clock]
    /\ UNCHANGED <<table, clock, agentLock, rowLock, roomLock, claim>>

(* Mutant of PostLockRow: the row is read without FOR UPDATE. *)
PostReadRow(u) ==
    /\ post[u].phase = "begun"
    /\ HoldsLease(Mine(u), post[u].token, post[u].began)
    /\ post' = [post EXCEPT ![u].phase = "row"]
    /\ UNCHANGED <<table, clock, agentLock, rowLock, roomLock, claim>>

(* The row is locked if the lease still matches, by the transaction's time. *)
PostLockRow(u) ==
    /\ post[u].phase = "begun"
    /\ rowLock[Mine(u)] = None
    /\ HoldsLease(Mine(u), post[u].token, post[u].began)
    /\ rowLock' = [rowLock EXCEPT ![Mine(u)] = u]
    /\ post' = [post EXCEPT ![u].phase = "row"]
    /\ UNCHANGED <<table, clock, agentLock, roomLock, claim>>

(* The lease is gone: 404 or 422. *)
PostRefuse(u) ==
    /\ \/ /\ post[u].phase = "matched"
          /\ ~HoldsLease(Mine(u), post[u].token, clock)
       \/ /\ post[u].phase = "begun"
          /\ ~HoldsLease(Mine(u), post[u].token, post[u].began)
    /\ EndPost(u)
    /\ UNCHANGED <<table, clock, agentLock, claim>>

PostLockRoom(u) ==
    /\ post[u].phase = "row"
    /\ roomLock[RoomOf[Mine(u)]] = None
    /\ roomLock' = [roomLock EXCEPT ![RoomOf[Mine(u)]] = u]
    /\ post' = [post EXCEPT ![u].phase = "room"]
    /\ UNCHANGED <<table, clock, agentLock, rowLock, claim>>

Recorded(t, id) == {rec \in recorded : rec.task = t /\ rec.id = id}

(* A recorded update id is a duplicate or a conflict: nothing is written.  *)
PostReplay(u) ==
    /\ post[u].phase = "room"
    /\ Recorded(Mine(u), post[u].update.id) # {}
    /\ EndPost(u)
    /\ UNCHANGED <<table, clock, agentLock, claim>>

(* A closed task or an invalid payload: nothing is written. *)
PostInvalid(u) ==
    /\ post[u].phase = "room"
    /\ Recorded(Mine(u), post[u].update.id) = {}
    /\ task[Mine(u)].state \notin Open \/ ~post[u].update.valid
    /\ EndPost(u)
    /\ UNCHANGED <<table, clock, agentLock, claim>>

StateFor(type) == IF type = "progressed" THEN "running" ELSE type

(* Mutant of PostCommit: the event type is stored as the task's state. *)
PostCommitRawState(u) ==
    /\ post[u].phase = "room"
    /\ LET t == Mine(u)
           update == post[u].update
       IN  /\ Recorded(t, update.id) = {}
           /\ task[t].state \in Open
           /\ update.valid
           /\ history' = [history EXCEPT ![t] = Append(@,
                    [type |-> update.type, update |-> update.id,
                     token |-> post[u].token])]
           /\ recorded' = recorded \cup
                    {[task |-> t, id |-> update.id, index |-> Len(history[t]) + 1]}
           /\ task' = [task EXCEPT ![t].state = update.type]
    /\ EndPost(u)
    /\ UNCHANGED <<starting, issued, clock, agentLock, claim>>

(* The event, its update row and the task's state commit together. *)
PostCommit(u) ==
    /\ post[u].phase = "room"
    /\ LET t == Mine(u)
           update == post[u].update
       IN  /\ Recorded(t, update.id) = {}
           /\ task[t].state \in Open
           /\ update.valid
           /\ history' = [history EXCEPT ![t] = Append(@,
                    [type |-> update.type, update |-> update.id,
                     token |-> post[u].token])]
           /\ recorded' = recorded \cup
                    {[task |-> t, id |-> update.id, index |-> Len(history[t]) + 1]}
           /\ task' = [task EXCEPT ![t].state = StateFor(update.type)]
    /\ EndPost(u)
    /\ UNCHANGED <<starting, issued, clock, agentLock, claim>>

PostFail(u) ==
    /\ post[u].phase # "idle"
    /\ EndPost(u)
    /\ UNCHANGED <<table, clock, agentLock, claim>>

-------------------------------------------------------------------------------
(* The gateway stops: its connections close and roll back. *)
Crash ==
    /\ agentLock' = None
    /\ rowLock' = [t \in Tasks |-> None]
    /\ roomLock' = [r \in Rooms |-> None]
    /\ claim' = [c \in Claimers |-> NoClaim]
    /\ post' = [u \in Updaters |-> NoPost]
    /\ starting' = [t \in Tasks |-> None]
    /\ UNCHANGED <<task, history, recorded, issued, clock>>

ClaimStep(c) ==
    ClaimSelect(c) \/ ClaimGrant(c) \/ ClaimRecheck(c) \/ ClaimNothing(c)

PostStep(u) ==
    PostTransaction(u) \/ PostRefuse(u) \/ PostReplay(u) \/ PostInvalid(u)
        \/ PostCommit(u)

Next ==
    \/ Tick
    \/ \E t \in Tasks : StartBegin(t) \/ StartCommit(t)
    \/ \E c \in Claimers :
        ClaimBegin(c) \/ ClaimLock(c) \/ ClaimStep(c) \/ ClaimFail(c)
    \/ \E u \in Updaters :
        \/ PostBegin(u) \/ PostLockRow(u) \/ PostLockRoom(u)
        \/ PostStep(u) \/ PostFail(u)
    \/ Crash

Spec == Init /\ [][Next]_vars

-------------------------------------------------------------------------------
(* Correctness.                                                            *)

(* The tables, the locks and the handlers' locals have their types. *)
TypeOK ==
    /\ task \in [Tasks -> Row]
    /\ starting \in [Tasks -> Nat \cup {None}]
    /\ history \in [Tasks -> Seq(Entry)]
    /\ recorded \subseteq [task : Tasks, id : Nat, index : Nat]
    /\ issued \subseteq Tokens
    /\ clock \in Nat
    /\ agentLock \in Claimers \cup {None}
    /\ rowLock \in [Tasks -> Updaters \cup {None}]
    /\ roomLock \in [Rooms -> Updaters \cup {None}]
    /\ claim \in [Claimers -> ClaimRequest]
    /\ post \in [Updaters -> PostRequest]

(* A terminal event is the last event of its task and the row says so for  *)
(* good: a claim that waited for the row while the task was completed does *)
(* not reopen it (claim_oldest_queued_agent_task).                         *)
TerminalIsFinal ==
    \A t \in Tasks :
        /\ \A i \in DOMAIN history[t] :
            history[t][i].type \in Terminal => i = Len(history[t])
        /\ task[t].state \in Terminal =>
            history[t][Len(history[t])].type = task[t].state
        /\ \A i \in DOMAIN history[t] :
            history[t][i].type \in Terminal => task[t].state \in Terminal

(* A claim never passes over an older task that it saw and that is still   *)
(* claimable, not even while that row is locked by an update               *)
(* (claim_oldest_queued_agent_task, store.rs:691-692).                     *)
GrantsHead(c, t) ==
    claim[c].phase = "selected" /\ task'[t].owner # task[t].owner
            /\ task'[t].owner = claim[c].token =>
        \A o \in claim[c].candidates :
            task[o].created < task[t].created => ~Claimable(o, claim[c].now)

HeadNotSkipped == [][\A c \in Claimers, t \in Tasks : GrantsHead(c, t)]_vars

WorkState(t) == IF task[t].state \in Open THEN "open" ELSE task[t].state

Work == INSTANCE LeasedWork WITH
    Items <- Tasks,
    UpdateIds <- {u.id : u \in Updates},
    Outcomes <- Terminal,
    Takeover <- TRUE,
    state <- [t \in Tasks |-> WorkState(t)],
    holder <- [t \in Tasks |-> task[t].owner],
    effects <- [t \in Tasks |->
        {[id |-> history[t][i].update, token |-> history[t][i].token] :
            i \in {j \in DOMAIN history[t] : j > 1}}]

(* Tasks are leased work: through expiry, takeover, retries, failures and  *)
(* crashes, claim and update only do what LeasedWork allows.  In           *)
(* particular only the current lease writes, however long a request waited *)
(* after its lease was checked and whoever claimed in between, and an      *)
(* update id takes effect once (claim_oldest_queued_agent_task,            *)
(* record_agent_task_update_with_outcome; the comment on claim,            *)
(* agent_service.rs:113-115).                                              *)
TasksAreLeasedWork == Work!Spec

(* The order the protocol document gives the events of a task: requested,  *)
(* progress, at most one awaiting_external_input, then the terminal event. *)
DocumentedOrder ==
    \A t \in Tasks : \A i, j \in DOMAIN history[t] :
        i < j /\ history[t][i].type = "awaiting_external_input" =>
            history[t][j].type \in Terminal
===============================================================================

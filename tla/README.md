# Verification of the room gateway

TLA+ models of the room gateway, checked by TLC on small instances, with proofs
checked by TLAPS. All line references are to the repository the project
belongs to; `PROJECT.json` maps every definition to its lines.

## The system

The gateway serves shared rooms over WebSockets (`ws.rs`), keeps each room as
an append-only sequence of events in PostgreSQL (`store.rs`, `rooms.rs`), and
gives external agents and conversation workers HTTP endpoints to claim work and
post results (`agent_service.rs`, `conversation_*.rs`).

| Part | State | Operations | Interacts with |
| --- | --- | --- | --- |
| Room ledger (`rooms.rs` process, `store.rs`) | `room_events`, `room_requests`, `decisions`, `agent_tasks`; the room's advisory lock | chat.send (with or without an Action Items run), decision.propose / transition / delete, agent.task.start | sockets call it; its events are published after commit |
| Room delivery (`ws.rs`, `rooms.rs`) | broadcast channel of each room, presence map, each socket's `last_sequence` and receiver | accept, room.join, rejoin, live events, gap and lag recovery, participant lists, leave | reads the ledger's events |
| External agent tasks (`agent_service.rs`, `store.rs`) | `agent_tasks` (state, lease owner, expiry), `agent_task_updates` | claim, context, update | tasks come from the ledger; updates append to the room |
| Agent conversations (`conversation_*.rs`) | conversations by generation, tasks, update rows | turn, claim, context, authority, update, receipt | shares room lock, sequence and request ids with the ledger |
| Model catalog (`catalog_bridge.rs`, `conversation_service.rs` models) | two maps of opaque cursors, at most 1024 each | page, list, select | the upstream catalog; asked under the room lock by a turn |
| Memory engine client (`memory_engine_client.rs`) | bounded queue | enqueue, post | filled by the ledger after commit |
| Participants and mentions (`rooms.rs`) | names in events and presence map | snapshot, roster of a turn, tokens, audience | used by messages, turns, participant lists |
| Shared resources (`main.rs`, all handlers) | pool of connections, advisory and row locks | acquire, lock, end of transaction | every request |
| Session limits (`ws.rs`) | authentication and expiry timers | first message, expiry | end sessions |
| Validation (`protocol.rs`), Action Items (`action_items.rs`) | none | pure functions | called by the ledger |
| Token validation, configuration, facilitator port | none that changes | | |

What is hard here: several transactions of one room at READ COMMITTED that must
be serialised by an advisory lock; clients that retry; commits whose
acknowledgement or publication is lost; publications out of order, lagging
receivers and joins that race with both; leases that run out while a request
waits for a row; requests that wait for connections and locks of each other; a
catalog that changes under a listing; names that people choose freely. `PROJECT.json` lists the hazards line by line.

## Modules

### RoomLedger

One room and the transaction every request runs in. `pc[h]` is where the
handler of socket h is: `begun` (BEGIN), `locked` (`lock_room`), `fresh` (not in
`room_requests`), `reserved` (an agent.task.start that has read its context
revision), `staged` (all writes done, uncommitted, in `tx[h]`),
`committed`, `answered`. `log`, `ledger`, `decisions` and `tasks` are the
committed rows. Each method has an action for success and for each refusal;
`Fail` is any statement that errors before the commit, `CommitUnacknowledged` a
commit whose acknowledgement is lost, `Crash` the end of the process. Several
appends of one transaction are numbered together (`Numbered`), which is sound
because each sees its own transaction's rows and nobody else can append while
the lock is held; that nobody can is a theorem, not an assumption: the unique
keys are in `KeysFree`, and the sequence is computed from the *committed* rows
at the step that stages the writes. An agent.task.start reads the next sequence
in one query (`ReserveRevision`) and appends its event in a later one
(`StartAgentTask`), which compares the two as the code does and refuses the
start if another append came between. `ContextPacket` is what an agent's worker is
shown of the room when it asks for its context: the decisions folded from the
events up to the task's revision, and the last of those events.

Left out: texts, audiences and mentions (only whether the audience resolves;
RoomParticipants has the rest), which fields a body has (a fingerprint is the
body), other rooms.

### RoomLog, RoomLogRefinement

RoomLog is what a room promises to clients that know nothing of transactions: a
request is asked, takes effect at one moment, as one block at the end of the
log, or not at all, and is answered with that block. RoomLogRefinement maps
RoomLedger's state to it: uncommitted writes, locks and the other tables are
hidden, a request takes effect with its commit. `RequestsAreAtomic` is RoomLog's
specification, its liveness (`Answered`) included.

### RoomDelivery

Commits append blocks of events to `log`; a block in `publishing` is published
one event at a time, interleaved with other blocks, and may be lost. `Push` is
the tokio broadcast channel: a full receiver loses its oldest message and is
told once that it lagged. A session is a program counter (`phase`) through
`room.join` (subscribe, replay query, register, snapshot, reply, announce), the
loop (`following`) and `replay_in_order` (one query, then one send per row).
A browser's socket starts `unproven`; `due` is its timer, first that of the
authentication, then that of the token (`Elapse`). `Expire` is looked at only
where the code does so: in the loop, and before a request.
`base` and `got` are history variables: the cursor of the last join and the
events sent since. The answer to a duplicate request, which is sent to its
socket directly and does not move `last_sequence`, is in RoomLedger (`reply`)
and not counted in `got`.

### AgentTasks

Tasks of one agent, claimed and updated under leases. Locks are explicit: the
agent's advisory lock (claims), a row lock per task (`FOR UPDATE`) and a room
lock. A claim's `ClaimSelect` is its statement's snapshot; `ClaimGrant` and
`ClaimRecheck` are PostgreSQL's re-evaluation of the row once it has the lock.
`clock` is the database's, `HostTimes` the gateway's, at most `Skew` apart;
`post[u].began` is NOW() of the update's transaction. `history[t]` holds the
task's events with the token they were posted under.

### LeasedWork

The contract both task protocols share: work is offered once, has one holder at
a time, is changed by its holder only, counts an update id once, and keeps its
outcome. AgentTasks implements it with `Takeover` (a lease that ran out goes
to another worker), Conversation without. In AgentTasks the holder of a task is
its row's lease token and its effects are the rows of `agent_task_updates`; in
Conversation they are the token and the replay rows.

### Conversation

Turns with the Codex agent in one room: a turn (`turning`) reserves a task and
opens or continues a generation, a claim (`claiming`) leases the task, packet
and update requests (`working`) read it, report on it, complete it or fail it.
`conversations` is indexed by generation; `tasks` by the request id of the turn,
which is unique in the room. `retained` is what browsers are shown,
`replay` what makes a repeated update a retry.

Turns and updates hold the room lock from their first read to their commit, so
what they read cannot change and their writes are one step (`TurnPersist`,
`UpdatePersist`); time can pass between their checks of authority, so those are
steps of their own (`TurnLock`, `TurnPlan`, `TurnCommit`; `UpdateStage`,
`UpdateCheck`, `UpdateCommit`). A claim reads its candidate under the claim lock
only (`ClaimCandidate`) and locks the room afterwards, so others run in between.
`Restart` loses every handler and may bring another policy.

A context is the set of events and active decisions its task is told
(`PublicMessage`, `Tellable`), where the generation's own replies have to agree
with the contexts they answered (`ContextAgrees`; the code checks this of
acknowledged replies, the model of all of them). `Manifest` is what may be
cited, `disclosures` the rows a completed task leaves, `CitationsValid` the check
of a reply's citations against both and against what is public now. Messages are
for everyone or not (`Audiences`); a decision has one source and may be reversed
(`RoomDecide`, `RoomReverse`).

Left out: settings, catalog answers (CatalogPages), texts, digests and sizes (a
request with bad ones ends in `TurnFail` or `WorkFail`), read-only views and
receipts. Prompt and reply are
appended under the turn's request id; RoomLedger's `ExactlyOnce` is about the
requests of `GatewayState::process`, and `TurnsOnce` is its counterpart here.

### RequestHandlers, MemoryDispatch, GatewayResources

RequestHandlers is what every kind of request waits for: its `Program` is the
order in which it takes connections and locks, asks the catalog, commits and
enqueues. Nothing is kept of the tables. A request that publishes has one
`enqueue` step per event it commits: four for a message that runs the Action
Items agent, two for a decision's edit, one for the others. MemoryDispatch is
the queue, its one consumer, and an engine that may take an event late, or
never. GatewayResources composes them: a handler's `enqueue` steps come after
its commit, when it holds nothing, and each drops its event when the queue is
full, while the client empties the queue and posts in between.

### CatalogPages

Browsers list models page by page. `bridge` and `gateway` are the two cursor
maps, the second hiding the ids of the first; a full map loses an arbitrary
entry, as the code removes whichever key its hash map yields first. `asking` is
a request in flight: its cursor is looked up before the fetch, the catalog is
what the upstream serves at the fetch. `listing` is what a browser has put
together. A catalog value stands for its SHA-256 digest. `Selectable` is a
turn's choice checked against the whole catalog, with what `validate_catalog`
asks of every page.

### RoomParticipants

Slugs, mention tokens, the participant list of messages and the one of turns,
mention validation and audiences, as operators over the two sources of names:
the newest event of each actor and the presence map. Tokens are sequences of
character codes, since the algorithm is about prefixes of ids and about names
that look like them. Unicode decomposition is the constant `Decomposed`. A
participant list that is too large, in people, is refused (`RosterTooLarge`);
the refusal of one whose names are too long in bytes is left out.

## Runs

| Run | Result | What it asks |
| --- | --- | --- |
| `ledger` | pass | one draft and all that can be done to it, messages, Action Items runs and task starts, with retried, reused and raced ids: exactly once, contiguous, history = table, fixed contexts, and RoomLog is implemented |
| `delivery_streams` | pass | a socket is sent exactly its events in order and gets to each published one; connection counts survive rejoins, failures and shared actors; timers that run out in the middle of a join, a delivery or a recovery end sessions |
| `delivery_roster` | violation | a settled client's participant list is current |
| `tasks_leases` | pass | terminal is final; the head of the queue is not passed over; LeasedWork is implemented, so only the current lease writes and an update id counts once |
| `tasks_order` | violation | the protocol's order of task events |
| `conversation_turns` | pass | racing, retried, continued and reset turns: one open task, one prompt and reply each, every event told once |
| `conversation_leases` | pass | reused ids and ordinals up to the last one, expiry, restarts with other policies: each update counts once, what is shown is bounded, an open task can be failed; no reply without authority; LeasedWork is implemented, so no second lease and no changed outcome |
| `conversation_sources` | pass | targeted messages, reversed decisions and resets: replies cite only what their generation was told and is public, own replies can be bound, turns settle |
| `conversation_terminal` | violation | a completed task never shows a failure |
| `resources` | pass | all kinds of requests over two connections: the one wait that needs a timeout is a chat.send's second connection; requests end; the engine is sent committed events only, once, and those of one request in order, also when the queue drops some of them |
| `catalog` | pass | listings over a changing catalog with evictions, retries and restarts are of one catalog, end, and show what may be chosen |
| `participants` | pass | tokens are unique and independent of order, messages and turns agree on them, targeted messages reach those they name |

Bounds. RoomLedger has no counters: the supply of request ids bounds it. Two
handlers are enough for every race on one id or one draft, since a third only
waits for the same lock. RoomDelivery: `MaxEvents` 3 with a channel of 2 lets a
receiver lose an event, recover, and lose again; batches of 2 make blocks
interleave. AgentTasks: leases of one tick let a lease run out at every step of
a request and be granted again; two tokens are an old and a new lease; `Skew` 1
makes hosts disagree with the database by a whole lease. Conversation: three
request ids are a first turn, one that continues or resets it, and a message in
between; a deadline of one tick lets it pass between any two checks, and the
leases run has two ticks, so that progress in different seconds is accepted; the
turns run has a database clock that is off by a tick; `MaxOrdinal` 3 stands for
MAX_SAFE_INTEGER and is reached. One claimer is enough there: the claim lock is
held to the end of the transaction, so a second one only waits.
GatewayResources: two connections are the smallest pool in which a chat.send can
succeed; a queue of two loses some of the four events of an Action Items
message, and not always the same ones. CatalogPages: maps of one cursor, so
that every insertion evicts; ids are the smallest unused numbers; the catalog
may become one that names a model twice, or gives a model a default effort it
does not have. Participants:
ids of three characters and suffixes of at least two stand for 32 and 8.

Some runs bound their behaviours with a condition on steps (`Scope`, `Serial` in
the MC modules, an ACTION_CONSTRAINT of their configurations) to keep several
questions in one run. In `delivery_streams` two sockets are open together while
the log is empty; one socket meets the events. Timers run out in both cases, at
logs of up to two events, which together with a participant list overrun the
channel: a timer runs out while its session joins, rejoins, has lagged, recovers
or has lost a publication, and with the other socket joined. In `tasks_leases`
two updates run while there is one task and one while there are two; in
`conversation_sources` requests do not overlap (they do in the other
conversation runs). In `resources` three requests run until one that publishes
starts, then two; the second write is a decision's edit, beside an Action Items
message or another edit, or after any write. The conditions restrict when
requests, sockets, commits and timers come, and never stop a step that fairness
asks for from being taken later.

Symmetry is used in safety runs only.

Fairness. A task that can run does (weak fairness of its steps: tokio). A lock
that is free again and again is granted (strong fairness: PostgreSQL queues its
waiters). `tokio::select!` picks at random among ready branches, so the loop
reads its receiver and its timer (strong fairness of `Follow`, `Expire`).
Acquiring a connection and asking the catalog have timeouts in the code, so they
end; nothing else is assumed of the catalog, and nothing of the memory engine.
`TurnSettles` needs one thing from outside: workers keep asking for work, and
not every one of their claims fails (weak fairness of `ClaimBegin`, strong of a
claim's steps); without it the code has nothing that fails an abandoned turn.
`TimersEndSessions` assumes that a send to a client ends; the code sets no
timeout on it. Clients, faults and crashes get no fairness.

## Findings

* **Participant lists** (`delivery_roster`). `publish_participant_snapshot`
  reads the list and sends it later; lists read in one order may be sent in the
  other, and a session's own announcement is not sent to itself. With nothing
  in flight a client may hold a list that omits a joined connection, against
  `contracts/n2n.room.v1/protocol.md:62-63`. The next join or leave repairs it.
* **Order of task events** (`tasks_order`). Any update is accepted while the
  task is open, so progress may follow `awaiting_external_input`, against
  `contracts/n2n.room.v1/protocol.md:31-33`.
* **A failure shown for a completed task** (`conversation_terminal`). A claim
  reads a running task as expired (`conversation_store.rs:413`), waits for the
  room lock while the worker's completion, checked just before the deadline,
  commits, and then calls `fail_task` (line 420) whatever the row's state is.
  The task stays completed, but gets a `failed` update and a higher ordinal,
  against `.ai/specs/what/codex-room-participation.md:32-33` ("late/duplicate
  conflicting terminal results are rejected").

Not a finding, but worth knowing: a lease never ends before its task's deadline,
so under an unchanged policy a claim that meets an abandoned task fails it with
a timeout or an expired authorization, not as interrupted. With every pooled
connection held by a request that waits for the lock of a room whose chat.send
waits for its second connection (`rooms.rs:861`), all of them stand still until
the pool's acquire timeout; `OnlyThePoolStalls` says that this is the only such
state, `HandlersEnd` that they come out of it. The order of requests in the
memory engine's queue is not that of the log.

## Proofs

The theorems hold for every value of the constants: any number of sockets,
requests, tasks, workers and sessions, any pool, queue, channel and lease. Each
proof module EXTENDS the module it is about. The theorems that state a property
of a run name it. The inductive invariants of AgentTasks, Conversation,
RoomDelivery, GatewayResources and CatalogPages (`ListingInv`) were also
model-checked on the small instances of their runs.

| Module | Proved | Left to TLC |
| --- | --- | --- |
| `RoomLedgerProofs` | `TypeOK`, `SequencesContiguous`, `ExactlyOnce`, `HistoryMatchesTable`, `ContextEndsAtRequest`, `DecisionLifecycle`, `TaskContextFixed`, and `Room!AtomicSteps` | `Answered`, the liveness in `RequestsAreAtomic` |
| `RoomDeliveryProofs` | `StreamIsExact`, `NothingForgotten`, `PresenceCounts` | `PublishedIsDelivered`, `TimersEndSessions` (liveness) |
| `AgentTasksProofs` | `TypeOK`, `TerminalIsFinal`, `HeadNotSkipped`, `TasksAreLeasedWork` | |
| `ConversationProofs`, `ConversationTurnProofs` | `TypeOK`, `ConversationMatchesTask`, `TurnsOnce`, `ToldOnce`, `UpdatesOnce`, `ShownOnce`, `OrdinalLeft`, `RepliesAuthorized`, `TurnsAreLeasedWork`, `RepliesCiteToldSources`, `OwnRepliesBind` | `TurnSettles` (liveness) |
| `GatewayResourcesProofs` | `TypeOK`, `OnlyThePoolStalls`, `EngineFollowsCommits` | `HandlersEnd` (liveness) |
| `CatalogPagesProofs` | `TypeOK`, `PagesOfOneCatalog`, `ListedIsSelectable` | |
| `RoomParticipantsProofs` | `TokensDistinct`, `OrderIndependent`, `RostersAgree`, `MessagesReachTheNamed` | |

So every safety property of a passing run is a theorem, for
`RequestsAreAtomic` its safety part.

Most leaves are first-order and go to Zenon (`USE Zenon` at the head of a proof
module); those that need arithmetic or sequences cite SMT.

**RoomLedger.** `CoreInv` says, beside the types, that log sequences are exactly
1..Newest, that a handler from `locked` to its commit holds the room lock, and
that its staged events are numbered from the committed `Newest` on, are one
whole effect of its body, and agree with its row changes. Without the lock and
the staged numbers the sequence is not inductive: a commit's numbers were
computed steps earlier. `EffectInv` adds what the transaction knows of the
ledger: a handler in `fresh` or `staged` has no ledger row for its id (it still
holds the lock under which it looked), and the events of a committed but
unpublished request are all events of its id. `RepliesAgree`, which
`RequestsAreAtomic` contains, is proved from it and not checked by a run of its
own. `TaskContextCorrect` adds no invariant: a commit numbers its events above
every task's revision, so what is folded up to it does not change.
`ContextCorrect` needs `ReservedInv`: a handler between its two queries holds
the room lock, so the committed log is the one it read, its row's revision is
still the next sequence, and the comparison in `StartAgentTask` never fails.
Without the lock another handler's commit comes between; the property is about
both the reservation and the tasks that are committed.

`AtomicStepsCorrect` is the refinement of RoomLog, step by step: a request takes
effect in the step that commits it (`Commit`, `CommitUnacknowledged`), when its
staged block becomes the end of the visible log; taking the lock, the ledger
lookup and the staging are stutters; replays and conflicts of an id are
RoomLog's `Duplicate` and `Conflict`, other rejections and failures its
`Refuse`, and a crash is its `Forget` of all requests. It needs `SilentInv` (who
has not been answered has been told nothing). RoomLog's `Spec` is `AtomicSteps`
with `Answered`.

**RoomDelivery.** `DInv` is about one session at a time: its receivers carry
only published events, and its stream is exact between `base` and `last`. Two
facts make `NothingForgotten` inductive: while a join is in `snapshot`, the
*new* receiver, subscribed before the replay query, covers every published event
above the replay's end, so nothing falls between them when the session switches
over; and a recovery reads the newest sequence only after the loss was reported,
so the interval it resends covers every event published by then.
`PresenceCounts` is proved with it, by the effect of each step on the set of
registered sessions.

**AgentTasks.** `PostInv`: from its row lock on, an update's task is leased to
it, since a claim would wait for the row. `ClaimInv`: the token of a claim in
progress is nobody else's and in no event. `HistoryInv`: the row's state goes
with the last event, and every update event has its row in `agent_task_updates`.
Terminal states, and the steps of LeasedWork (a change by the holder, a takeover
after expiry, an update id once), follow.

**Conversation.** `HandlersInv` says that a turn or an update that has read the
tables holds the room lock, and that what it read (`PlanHolds`, `StageHolds`) is
still true; a claim holds no lock when it reads its candidate, so nothing is
said of the candidate but that it exists, which is why `fail_task` may meet a
completed task (see Findings). `TasksInv`, `ConversationMatchesTask` and
`TurnsInv` are the tables. On top of them come the invariants of the single
properties: the ordinals in the replay rows of a task are not above its own
(`UpdatesInv`); the contexts of a generation do not overlap, each starts at 0 or
where a completed one ended, and the open one starts at the generation's cursor
(`ToldInv`); what was disclosed in a generation is in the manifest of one of its
completed tasks (`SourcesInv`).

**GatewayResources.** `HandlersInv` gives every request the connections and
locks of its point in its program (`ConnectionsAt`, `KeepsAt`), its write
number, and the pool its bound. `ProgramShape` is what the ten programs have
in common: connect first, one commit, enqueue only after it, locks in the order
agent, row, claim, room. Suppose all requests wait and none for its second
connection. Then the holder of the last held lock in that order has nothing to
wait for, so no lock is held; all wait for their first connection, so none is in
use, which a pool of at least one excludes. `DispatchInv` orders the events of a
write: those the client has taken are before those in its queue, which are
before those yet to be enqueued. Dropping an event keeps that order, taking one
never finds it taken (`HeadUntaken`, `PostFollows`), and the event being posted
is the latest of its write that was taken, so whatever of its write has arrived
is before it (`ArrivalFollows`).

**CatalogPages.** `ListingInv` says where a cursor leads. A listing is what its
policy leaves of a beginning of its catalog, whose default efforts were checked
page by page (`ListInv`, `Checked`). If the client's cursor
still has an entry in both maps, the bridge's entry has that same catalog and
the offset where that beginning ends (`CursorInv`); the same is true of the
entry a request in flight has looked up, and the page it was given starts at
that offset (`AskInv`). Nothing is said of an evicted cursor. A new id is one
that nobody holds (`FreshUnused`, for `Uuid::new_v4`), so a cursor in a client's
hands never comes to lead elsewhere. The next page then continues the listing:
`AllowedAdjacent` says that restricting two adjacent pieces and joining them is
restricting the joined piece (`data.retain_mut`, page by page). A complete
listing has come to the catalog's end, which is `PagesOfOneCatalog`; and what
the policy leaves keeps the ids and efforts it allows (`AllowedFacts`), which is
`ListedIsSelectable`.

**RoomParticipants.** The rosters are the same set because the Action Items
agent has its own name in its events and no presence (`AgentInv`).

For `TokensDistinct` the loop that gives suffixes has an invariant
(`GivenInv`): what has been given is among the occupied tokens, differs from
all else that was given, and is neither an alias nor, the Codex agent's apart,
"codex-agent". It holds at first because a name without a suffix is only one
person's, and after each round because the token found is not occupied:
`NumberFree` counts that the numbers the loop tries last are more than the
occupied tokens, so it ends. Names are any sequences of characters, or none.

For `OrderIndependent` the sort is shown to be a strict total order of those
who need a suffix (`EarlierOrders`): ids differ, so the position, which the
code compares last, never decides. A place in the sorted list is then the
number of those who come earlier (`RankOrders`, `OrderFacts`), which another
order of the roster does not change (`SameRank`); nor does it change the
occupied names and the lengths of suffixes (`SameOccupied`, `SameLength`), so
the loop meets the same people with the same tokens taken (`SameTokens`).
`MessagesReachTheNamed` follows from distinct tokens.

Loops over data are recursive functions in these two modules, and what they
compute is proved with a least counterexample (`LeastNumber`): the library's
induction theorems take an operator, which the provers cannot instantiate, but
that a set of numbers has a least one does not. For each loop a lemma says that
the function exists (`KeepsExists`, `DashesExists`, `JoinsExists`,
`AssignsExists`).

Assumptions, all named in the modules and evaluated by TLC in their runs:
requests, turns, updates and policies are well formed (the validators ensure
it); None is none of the ids, and `NoEvent` no event; sessions and requests are
finitely many; turns, claims and workers are different requests; the
Action Items agent is not a person, nor another agent; capacities, limits and
durations are natural numbers, positive where the code requires it; people,
clients and aliases are finitely many; ids of actors differ, have the same
length and no dash; names are made of characters that have a decomposition, and
"codex-agent" is no alias; a model has an id, efforts and a default. The bounds
(`MaxEvents`, `MaxTime`, ...) are arbitrary numbers.

What stays with TLC, and why: liveness (`Answered` in `RequestsAreAtomic`,
`PublishedIsDelivered`, `TimersEndSessions`, `TurnSettles`, `HandlersEnd`), since
fairness and ENABLED are beyond the prover. A number that
`participant_mention_tokens` appends is one code in the model, whatever its
value; the proof allows it to equal any character's code, and like the code
relies only on the look-up among the occupied tokens.

## Not modelled

Schema validation, texts and JSON, token validation, configuration, the
facilitator port (no caller), `claim_agent_task` (no caller). Action Items
extraction is text scanning; the ledger only sees whether it finds something.
Read-only views of conversations change nothing. Unicode decomposition of names
is a library's.

## Plan

A composition of RoomLedger and RoomDelivery: an acknowledged request's events
reach every joined socket.

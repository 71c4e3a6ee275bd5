--------------------------- MODULE RequestHandlers ----------------------------
(***************************************************************************)
(* What the handlers wait for.  Every handler is a program over            *)
(* connections of the database pool and over PostgreSQL locks that its     *)
(* transaction keeps until it ends: rooms.rs process, store.rs,            *)
(* conversation_store.rs.  Only the order in which they take them is kept; *)
(* what they read and write under them is the matter of RoomLedger,        *)
(* AgentTasks and Conversation.                                            *)
(*                                                                         *)
(* A chat.send reads the participants on a second connection while it      *)
(* keeps the first one and the room's lock; a turn asks the catalog under  *)
(* the room's lock; process enqueues what it committed for the memory      *)
(* engine.                                                                 *)
(***************************************************************************)
EXTENDS Integers, Sequences, FiniteSets

CONSTANTS
    Requests,     \* requests that may run at the same time
    Kinds,        \* which handlers they may be
    Connections,  \* size of the pool (sqlx: 10)
    MaxWrites,    \* bound: requests that publish events
    None          \* no request, no handler

(* agent, row: claiming an agent task; claim: claiming a turn. *)
Locks == {"agent", "row", "claim", "room"}

(* Mutant of ChatProgram: the event is dispatched before the commit. *)
ChatProgramEager == <<"connect", "room", "second", "return", "enqueue", "commit">>

(* chat.send, *)
ChatProgram == <<"connect", "room", "second", "return", "commit", "enqueue">>

(* and one that runs the Action Items agent: the message, then the task    *)
(* queued, running, and succeeded or failed.                               *)
ActionItemsProgram ==
    <<"connect", "room", "second", "return", "commit", "enqueue", "enqueue", "enqueue", "enqueue">>

(* decision.edit: the edited version, and its activation. *)
EditProgram == <<"connect", "room", "commit", "enqueue", "enqueue">>

(* Mutant of UpdateProgram: the claim lock inside the room's. *)
UpdateProgramCrossed == <<"connect", "room", "claim", "commit">>

(* record_update and packet of a turn's task. *)
UpdateProgram == <<"connect", "room", "commit">>

(* process: a message, a message that runs the Action Items agent, a       *)
(* decision's edit, and the rest; then claim_oldest_queued_agent_task,     *)
(* record_agent_task_update, reserve_inner, claim (one of its rounds),     *)
(* record_update and packet, and the reads.                                *)
Program(kind) ==
    CASE kind = "chat" -> ChatProgram
      [] kind = "action_items" -> ActionItemsProgram
      [] kind = "edit" -> EditProgram
      [] kind = "process" -> <<"connect", "room", "commit", "enqueue">>
      [] kind = "agent_claim" -> <<"connect", "agent", "row", "commit">>
      [] kind = "agent_update" -> <<"connect", "row", "room", "commit">>
      [] kind = "turn" -> <<"connect", "room", "catalog", "commit">>
      [] kind = "turn_claim" -> <<"connect", "claim", "room", "commit">>
      [] kind = "turn_update" -> UpdateProgram
      [] kind = "read" -> <<"connect", "commit">>

Publishes(kind) == kind \in {"chat", "action_items", "edit", "process"}

ASSUME HandlersAssumption ==
    /\ Kinds \subseteq {"chat", "action_items", "edit", "process", "agent_claim",
                        "agent_update", "turn", "turn_claim", "turn_update", "read"}
    /\ Connections \in Nat \ {0}
    /\ MaxWrites \in Nat
    /\ None \notin Requests \cup Kinds
    /\ IsFiniteSet(Requests)

VARIABLES
    running,    \* each request: its handler, steps done, and number of its write
    connected,  \* connections each request has
    lock,       \* holder of each lock
    writes,     \* publishing requests so far
    committed   \* the writes whose transaction committed

handlers == <<running, connected, lock, writes, committed>>

Idle == [kind |-> None, done |-> 0, write |-> 0]

HandlersInit ==
    /\ running = [r \in Requests |-> Idle]
    /\ connected = [r \in Requests |-> 0]
    /\ lock = [l \in Locks |-> None]
    /\ writes = 0
    /\ committed = {}

Active == {r \in Requests : running[r].kind # None}

NextStep(r) == Program(running[r].kind)[running[r].done + 1]

IsNext(r, step) == r \in Active /\ NextStep(r) = step

(* The connections in use: the n-th one of each request that has n. *)
InUse == {x \in Requests \X (1 .. 2) : x[2] <= connected[x[1]]}

Used == Cardinality(InUse)

Free == Connections - Used

(* One more step is done; after the last one the request is over. *)
Advance(r) ==
    running' = [running EXCEPT ![r] =
        IF @.done + 1 = Len(Program(@.kind)) THEN Idle
        ELSE [@ EXCEPT !.done = running[r].done + 1]]

(* The end of a transaction gives back its locks. *)
Unlock(r) == lock' = [l \in Locks |-> IF lock[l] = r THEN None ELSE lock[l]]

Start(r, kind) ==
    /\ r \notin Active
    /\ Publishes(kind) => writes < MaxWrites
    /\ writes' = IF Publishes(kind) THEN writes + 1 ELSE writes
    /\ running' = [running EXCEPT ![r] =
            [kind |-> kind, done |-> 0, write |-> IF Publishes(kind) THEN writes' ELSE 0]]
    /\ UNCHANGED <<connected, lock, committed>>

(* pool.begin, or a query on the pool: a free connection, ... *)
Connect(r) ==
    /\ IsNext(r, "connect") \/ IsNext(r, "second")
    /\ Free > 0
    /\ connected' = [connected EXCEPT ![r] = @ + 1]
    /\ Advance(r)
    /\ UNCHANGED <<lock, writes, committed>>

(* An error on the way: the transaction is rolled back as it is dropped,   *)
(* and every connection goes back to the pool.                             *)
Abort(r) ==
    /\ running' = [running EXCEPT ![r] = Idle]
    /\ connected' = [connected EXCEPT ![r] = 0]
    /\ Unlock(r)
    /\ UNCHANGED <<writes, committed>>

(* Mutant of AcquireTimeout: acquiring waits as long as it takes. *)
AcquireForever(r) == FALSE /\ UNCHANGED handlers

(* ... or, when there is none for too long, an error. *)
AcquireTimeout(r) ==
    /\ IsNext(r, "connect") \/ IsNext(r, "second")
    /\ Free = 0
    /\ Abort(r)

TakeLock(r) ==
    /\ \E l \in Locks :
        /\ IsNext(r, l)
        /\ lock[l] = None
        /\ lock' = [lock EXCEPT ![l] = r]
    /\ Advance(r)
    /\ UNCHANGED <<connected, writes, committed>>

(* The participants are read: the second connection goes back. *)
ReturnSecond(r) ==
    /\ IsNext(r, "return")
    /\ connected' = [connected EXCEPT ![r] = @ - 1]
    /\ Advance(r)
    /\ UNCHANGED <<lock, writes, committed>>

(* validate_catalog_selection answers that the choice is there, ... *)
CatalogAnswer(r) ==
    /\ IsNext(r, "catalog")
    /\ Advance(r)
    /\ UNCHANGED <<connected, lock, writes, committed>>

(* ... or that it is not, or says nothing for five seconds. *)
CatalogTimeout(r) == IsNext(r, "catalog") /\ Abort(r)

Commit(r) ==
    /\ IsNext(r, "commit")
    /\ connected' = [connected EXCEPT ![r] = 0]
    /\ Unlock(r)
    /\ committed' = IF running[r].write # 0 THEN committed \cup {running[r].write} ELSE committed
    /\ Advance(r)
    /\ UNCHANGED writes

(* Duplicates, refusals, a lost connection, a client that went away. *)
Fail(r) == r \in Active /\ Abort(r)

HandlerStep(r) ==
    \/ Connect(r) \/ AcquireTimeout(r) \/ ReturnSecond(r)
    \/ CatalogTimeout(r) \/ Commit(r)

HandlerNext ==
    \E r \in Requests :
        \/ \E kind \in Kinds : Start(r, kind)
        \/ HandlerStep(r) \/ TakeLock(r) \/ CatalogAnswer(r) \/ Fail(r)

(* The gateway stops: PostgreSQL ends its transactions. *)
HandlersCrash ==
    /\ running' = [r \in Requests |-> Idle]
    /\ connected' = [r \in Requests |-> 0]
    /\ lock' = [l \in Locks |-> None]
    /\ UNCHANGED <<writes, committed>>
===============================================================================

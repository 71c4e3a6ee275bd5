--------------------------- MODULE GatewayResources ---------------------------
(***************************************************************************)
(* The handlers and the memory engine client together: process enqueues    *)
(* the events of its transaction after the commit, when it holds neither a *)
(* connection nor a lock (rooms.rs).                                       *)
(***************************************************************************)
EXTENDS RequestHandlers, MemoryDispatch

(* The n-th event of a write; a message that runs the Action Items agent   *)
(* has four.                                                               *)
Event == [write : 1 .. MaxWrites, n : 1 .. 4]

ASSUME EventAssumption == NoEvent \notin Event

vars == <<running, connected, lock, writes, committed, queue, posting, sent, received>>

Init == HandlersInit /\ DispatchInit

(* Which event of the write the next step enqueues. *)
Position(r) ==
    Cardinality({i \in 1 .. running[r].done + 1 : Program(running[r].kind)[i] = "enqueue"})

EnqueueCommitted(r) ==
    /\ IsNext(r, "enqueue")
    /\ Enqueue([write |-> running[r].write, n |-> Position(r)])
    /\ Advance(r)
    /\ UNCHANGED <<connected, lock, writes, committed>>

Crash == HandlersCrash /\ DispatchCrash

Next ==
    \/ HandlerNext /\ UNCHANGED dispatch
    \/ DispatchNext /\ UNCHANGED handlers
    \/ \E r \in Requests : EnqueueCommitted(r)
    \/ Crash

(* Acquiring a connection and asking the catalog have timeouts, a free     *)
(* lock is granted to each of its waiters, and the tasks of the runtime go *)
(* on.  Nothing is assumed of the engine or of the catalog.                *)
GoOn(r) ==
    \/ (HandlerStep(r) \/ TakeLock(r)) /\ UNCHANGED dispatch
    \/ EnqueueCommitted(r)

Fairness == \A r \in Requests : SF_vars(GoOn(r))

Spec == Init /\ [][Next]_vars /\ Fairness

-------------------------------------------------------------------------------
(* Correctness.                                                            *)

(* The pool, the locks, the queue and the requests have their types; the   *)
(* pool and the queue keep to their size.                                  *)
TypeOK ==
    /\ running \in [Requests ->
            [kind : Kinds \cup {None}, done : 0 .. 9, write : 0 .. MaxWrites]]
    /\ connected \in [Requests -> 0 .. 2]
    /\ Used <= Connections
    /\ lock \in [Locks -> Requests \cup {None}]
    /\ writes \in 0 .. MaxWrites
    /\ committed \subseteq 1 .. writes
    /\ queue \in Seq(Event) /\ Len(queue) <= Capacity
    /\ posting \in Event \cup {NoEvent}
    /\ sent \subseteq Event
    /\ received \subseteq Event

(* Can request r do its next step without a timeout or an error? *)
CanGoOn(r) ==
    LET step == NextStep(r)
    IN  /\ step \in {"connect", "second"} => Free > 0
        /\ step \in Locks => lock[step] = None

Stalled == Active # {} /\ \A r \in Active : ~CanGoOn(r)

(* Locks alone never bring the handlers to a halt.  When all of them wait, *)
(* the pool is empty and a chat.send waits for its second connection while *)
(* it keeps its first: the one wait that only the pool's timeout resolves  *)
(* (participant_snapshot inside process).                                  *)
OnlyThePoolStalls ==
    Stalled => Free = 0 /\ \E r \in Active : NextStep(r) = "second"

(* Whatever the pool, the locks, the catalog and the memory engine do, a   *)
(* request that has begun comes to an end.                                 *)
HandlersEnd == \A r \in Requests : r \in Active ~> r \notin Active

(* Each event is posted once, although posts time out, and the engine is   *)
(* told of committed events only.  An event that arrives while it is being *)
(* posted is later than every event of its request that has arrived: the   *)
(* four of an Action Items message keep their order, whatever the full     *)
(* queue drops, and only one whose post was given up can come late         *)
(* (enqueue_committed_event, and the timeout around send_event).           *)
EngineFollowsCommits ==
    [][/\ posting' \notin {posting, NoEvent} => posting' \notin sent \cup received
       /\ \A e \in received' \ received :
            /\ e.write \in committed
            /\ e = posting => \A f \in received : f.write = e.write => f.n < e.n]_vars
===============================================================================

---------------------------- MODULE MemoryDispatch ----------------------------
(***************************************************************************)
(* The memory engine client (memory_engine_client.rs): a bounded queue     *)
(* that handlers fill without waiting, and one task that posts its events  *)
(* one after the other, once each, with a timeout.  The engine is outside: *)
(* it may take an event and not say so, take it after the client has given *)
(* up, or never take it.  An event is [write, n]: the n-th event of a      *)
(* request's transaction.                                                  *)
(***************************************************************************)
EXTENDS Integers, Sequences

CONSTANTS
    Capacity,  \* queue_capacity.max(1)
    NoEvent    \* nothing is being posted

ASSUME DispatchAssumption == Capacity \in Nat \ {0}

VARIABLES
    queue,     \* the channel
    posting,   \* the event being posted
    sent,      \* events on their way to the engine
    received   \* what the engine was given

dispatch == <<queue, posting, sent, received>>

DispatchInit ==
    /\ queue = <<>>
    /\ posting = NoEvent
    /\ sent = {}
    /\ received = {}

(* Mutant of Enqueue: one event too many. *)
EnqueueBeyond(e) ==
    /\ queue' = IF Len(queue) <= Capacity THEN Append(queue, e) ELSE queue
    /\ UNCHANGED <<posting, sent, received>>

(* enqueue_committed_event: try_send; an event that finds the queue full   *)
(* is dropped, and its error ignored.                                      *)
Enqueue(e) ==
    /\ queue' = IF Len(queue) < Capacity THEN Append(queue, e) ELSE queue
    /\ UNCHANGED <<posting, sent, received>>

(* The task takes the next event and sends it, ... *)
Take ==
    /\ posting = NoEvent
    /\ queue # <<>>
    /\ posting' = Head(queue)
    /\ sent' = sent \cup {Head(queue)}
    /\ queue' = Tail(queue)
    /\ UNCHANGED received

(* ... the engine may receive it, sooner or later, ... *)
Arrive ==
    /\ \E e \in sent :
        /\ received' = received \cup {e}
        /\ sent' = sent \ {e}
    /\ UNCHANGED <<queue, posting>>

(* ... and the post is over, with an answer, an error or a timeout. *)
PostEnds ==
    /\ posting # NoEvent
    /\ posting' = NoEvent
    /\ UNCHANGED <<queue, sent, received>>

DispatchNext == Take \/ Arrive \/ PostEnds

(* The gateway stops: what was queued is gone. *)
DispatchCrash ==
    /\ queue' = <<>>
    /\ posting' = NoEvent
    /\ UNCHANGED <<sent, received>>
===============================================================================

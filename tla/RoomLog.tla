------------------------------- MODULE RoomLog -------------------------------
(***************************************************************************)
(* What a room promises to its clients, whatever runs behind it: every     *)
(* request takes effect at one moment between its arrival and its answer,  *)
(* or not at all.  Taking effect appends the request's whole block of      *)
(* events after everything that is there; an id takes effect once; the     *)
(* answer names the block; and events are never changed or removed.        *)
(* RoomLedger implements this (RoomLogRefinement).                         *)
(***************************************************************************)
EXTENDS Integers, Sequences

CONSTANTS
    Clients,     \* who asks, one request at a time
    RequestIds,  \* the ids clients choose
    Bodies,      \* what can be asked for
    EffectsOf    \* the blocks of event types each body may append

VARIABLES
    log,      \* the room's events: [seq, req, type]
    applied,  \* the requests that took effect: [id, body]
    asks,     \* each client's request: [id, body]
    status,   \* idle, asked, applied, or how it was answered
    told      \* the events named in the answer

vars == <<log, applied, asks, status, told>>

NoRequest == [id |-> {}, body |-> {}]

Answers == {"accepted", "duplicate", "conflict", "refused"}

Init ==
    /\ log = {}
    /\ applied = {}
    /\ asks = [c \in Clients |-> NoRequest]
    /\ status = [c \in Clients |-> "idle"]
    /\ told = [c \in Clients |-> {}]

BlockOf(id) == {e \in log : e.req = id}

(* A request arrives; it may be refused on sight. *)
Ask(c) ==
    /\ status[c] = "idle"
    /\ \E id \in RequestIds, body \in Bodies :
        asks' = [asks EXCEPT ![c] = [id |-> id, body |-> body]]
    /\ \E s \in {"asked", "refused"} : status' = [status EXCEPT ![c] = s]
    /\ UNCHANGED <<log, applied, told>>

(* The moment it takes effect.  Its client may never learn that it did. *)
TakeEffect(c) ==
    /\ status[c] = "asked"
    /\ \A a \in applied : a.id # asks[c].id
    /\ applied' = applied \cup {asks[c]}
    /\ \E n \in {0} \cup {e.seq : e \in log}, types \in EffectsOf[asks[c].body] :
        /\ {e.seq : e \in log} = 1 .. n
        /\ log' = log \cup {[seq |-> n + k, req |-> asks[c].id, type |-> types[k]] :
                                k \in DOMAIN types}
    /\ \E s \in {"applied", "refused"} : status' = [status EXCEPT ![c] = s]
    /\ UNCHANGED <<asks, told>>

Accept(c) ==
    /\ status[c] = "applied"
    /\ status' = [status EXCEPT ![c] = "accepted"]
    /\ told' = [told EXCEPT ![c] = BlockOf(asks[c].id)]
    /\ UNCHANGED <<log, applied, asks>>

Duplicate(c) ==
    /\ status[c] = "asked"
    /\ asks[c] \in applied
    /\ status' = [status EXCEPT ![c] = "duplicate"]
    /\ told' = [told EXCEPT ![c] = BlockOf(asks[c].id)]
    /\ UNCHANGED <<log, applied, asks>>

Conflict(c) ==
    /\ status[c] = "asked"
    /\ \E a \in applied : a.id = asks[c].id /\ a.body # asks[c].body
    /\ status' = [status EXCEPT ![c] = "conflict"]
    /\ UNCHANGED <<log, applied, asks, told>>

Refuse(c) ==
    /\ status[c] = "asked"
    /\ status' = [status EXCEPT ![c] = "refused"]
    /\ UNCHANGED <<log, applied, asks, told>>

(* Clients that were answered, or that lost their room, go back to idle. *)
Forget(clients) ==
    /\ asks' = [c \in Clients |-> IF c \in clients THEN NoRequest ELSE asks[c]]
    /\ status' = [c \in Clients |-> IF c \in clients THEN "idle" ELSE status[c]]
    /\ told' = [c \in Clients |-> IF c \in clients THEN {} ELSE told[c]]
    /\ UNCHANGED <<log, applied>>

Next ==
    \/ \E c \in Clients :
        \/ Ask(c) \/ TakeEffect(c) \/ Accept(c) \/ Duplicate(c) \/ Conflict(c)
        \/ Refuse(c)
        \/ status[c] \in Answers /\ Forget({c})
    \/ Forget(Clients)

(* The atomic steps alone. *)
AtomicSteps == Init /\ [][Next]_vars

(* Nobody waits for ever. *)
Answered == \A c \in Clients : status[c] = "asked" ~> status[c] # "asked"

Spec == AtomicSteps /\ Answered
===============================================================================

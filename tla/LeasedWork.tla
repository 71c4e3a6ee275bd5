------------------------------ MODULE LeasedWork ------------------------------
(***************************************************************************)
(* What both task protocols promise about a piece of work handed to        *)
(* workers: it is offered once, has one holder at a time, is changed only  *)
(* by its holder, counts every update id once, and keeps its outcome.      *)
(* AgentTasks implements it with leases that may pass to another worker,   *)
(* Conversation with leases that never do.                                 *)
(***************************************************************************)

CONSTANTS
    Items,      \* the pieces of work
    Tokens,     \* what a holder shows
    UpdateIds,  \* the ids holders give their updates
    Outcomes,   \* how work ends
    Takeover,   \* may work that has a holder be handed to another?
    None        \* no holder

VARIABLES
    state,   \* absent, open, or how it ended
    holder,  \* the token that may change the item
    effects  \* the updates that took effect: [id, token]

vars == <<state, holder, effects>>

Init ==
    /\ state = [i \in Items |-> "absent"]
    /\ holder = [i \in Items |-> None]
    /\ effects = [i \in Items |-> {}]

Offer(i) ==
    /\ state[i] = "absent"
    /\ state' = [state EXCEPT ![i] = "open"]
    /\ UNCHANGED <<holder, effects>>

(* The new holder has never held the item before, as far as its updates    *)
(* tell.                                                                   *)
Hand(i) ==
    /\ state[i] = "open"
    /\ holder[i] = None \/ Takeover
    /\ \E k \in Tokens \ {holder[i]} :
        /\ \A e \in effects[i] : e.token # k
        /\ holder' = [holder EXCEPT ![i] = k]
    /\ UNCHANGED <<state, effects>>

(* The holder changes the item, perhaps for the last time. *)
Act(i) ==
    /\ state[i] = "open"
    /\ holder[i] # None
    /\ \E id \in UpdateIds :
        /\ \A e \in effects[i] : e.id # id
        /\ effects' = [effects EXCEPT ![i] = @ \cup {[id |-> id, token |-> holder[i]]}]
    /\ \E s \in {"open"} \cup Outcomes : state' = [state EXCEPT ![i] = s]
    /\ UNCHANGED holder

(* The work is given up on. *)
Abandon(i) ==
    /\ state[i] = "open"
    /\ \E s \in Outcomes : state' = [state EXCEPT ![i] = s]
    /\ UNCHANGED <<holder, effects>>

Next == \E i \in Items : Offer(i) \/ Hand(i) \/ Act(i) \/ Abandon(i)

Spec == Init /\ [][Next]_vars
===============================================================================

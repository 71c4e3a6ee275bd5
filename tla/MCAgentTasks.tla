----------------------------- MODULE MCAgentTasks -----------------------------
(***************************************************************************)
(* Instances of AgentTasks for TLC: leases of one tick, so that they run   *)
(* out in the middle of every request, and updates that share an id.       *)
(***************************************************************************)
EXTENDS AgentTasks, TLC

OneRoom == [t \in Tasks |-> CHOOSE r \in Rooms : TRUE]

Say(id, type, valid) == [id |-> id, type |-> type, valid |-> valid]

(* Id 1 is used for two different updates. *)
FewUpdates == {Say(1, "progressed", TRUE), Say(1, "succeeded", TRUE),
               Say(2, "failed", TRUE), Say(2, "awaiting_external_input", FALSE)}

HandoffUpdates == {Say(1, "awaiting_external_input", TRUE),
                   Say(2, "progressed", TRUE), Say(3, "succeeded", TRUE)}

(* Bound of the leases run: two update requests at a time while there is   *)
(* one task, one while there are two.                                      *)
Busy == {u \in Updaters : post[u].phase # "idle"}
Started == {t \in Tasks : task[t].state # "absent" \/ starting[t] # None}
Scope == Cardinality(Busy') + Cardinality(Started') <= 3

Interchangeable ==
    Permutations(Tokens) \cup Permutations(Updaters) \cup Permutations(Claimers)
        \cup Permutations(Tasks)
===============================================================================

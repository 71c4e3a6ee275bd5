-------------------------- MODULE MCGatewayResources --------------------------
(***************************************************************************)
(* Instance of GatewayResources for TLC: a pool of two connections, the    *)
(* smallest in which a chat.send can succeed while another request runs; a *)
(* queue of two events, so that four of one request or those of two        *)
(* overflow it; two requests that write.                                   *)
(***************************************************************************)
EXTENDS GatewayResources

CONSTANTS q1, q2, q3

AllKinds == {"chat", "action_items", "edit", "process", "agent_claim", "agent_update",
             "turn", "turn_claim", "turn_update", "read"}

(* Which requests start; what has started is left alone.  Requests take    *)
(* their names in order.  Three run together as long as none of them       *)
(* writes, else two.  Once a write has committed, only another write is    *)
(* new, and that one is an edit beside an Action Items message or another  *)
(* edit, or after any write.                                               *)
Scope ==
    \A r \in Active' \ Active :
        /\ r = q2 => q1 \in Active
        /\ r = q3 => {q1, q2} \subseteq Active
        /\ Cardinality(Active') <= IF writes' = 0 THEN 3 ELSE 2
        /\ committed # {} => Publishes(running'[r].kind)
        /\ writes' = 2 => /\ running'[r].kind = "edit"
                          /\ \A q \in Active : running[q].kind \in {"action_items", "edit"}
===============================================================================

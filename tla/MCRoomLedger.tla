---------------------------- MODULE MCRoomLedger ----------------------------
(***************************************************************************)
(* Instances of RoomLedger for TLC: two sockets and requests chosen so     *)
(* that ids are retried, reused for something else, and raced.             *)
(***************************************************************************)
EXTENDS RoomLogRefinement, TLC

CONSTANTS d1, d2, r1, r2, r3

Ask(id, method, variant, decision, role) ==
    [id |-> id, role |-> role,
     body |-> [method |-> method, variant |-> variant, decision |-> decision]]

(* One draft and everything that can be done to it and to its edit, while  *)
(* messages, Action Items runs and agent task starts share the sequence.   *)
RoomRequests ==
    {Ask(r1, "decision.propose", "plain", None, "agent"),
     Ask(r1, "chat.send", "action_items", None, "human"),
     Ask(r3, "decision.delete", "plain", d1, "human"),
     Ask(r3, "decision.transition", "confirm", d1, "human"),
     Ask(r3, "agent.task.start", "plain", None, "human"),
     Ask(r3, "agent.task.start", "plain", None, "agent"),
     Ask(r3, "chat.send", "unusable_action_items", None, "agent"),
     Ask(r2, "chat.send", "unknown_audience", None, "agent")}
        \cup {Ask(r2, "decision.transition", a, d1, "human") : a \in TransitionActions}
=============================================================================

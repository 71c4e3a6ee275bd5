---------------------------- MODULE MCConversation ----------------------------
(***************************************************************************)
(* Instances of Conversation for TLC: turns of one or two ticks with a     *)
(* grace of one tick, so that deadline, lease and token run out in the     *)
(* middle of every request.                                                *)
(***************************************************************************)
EXTENDS Conversation, TLC

CONSTANTS r1, r2, r3

Ask(id, mode, generation, expiry) ==
    [id |-> id, mode |-> mode, generation |-> generation, expiry |-> expiry]

(* Continuing, resetting and racing; r2 is used for two intents, and any   *)
(* id for a message in between.                                            *)
ManyTurns ==
    {Ask(r1, "unspecified", 0, 3), Ask(r2, "continue", 1, 3), Ask(r2, "new", 0, 2)}

OneTurn == {Ask(r1, "new", 0, 3)}

(* One after the other in the same conversation, or in a new one. *)
ThenAnother == {Ask(r1, "new", 0, 2), Ask(r2, "unspecified", 0, 2), Ask(r2, "new", 0, 2)}

Reply(id, cites) ==
    [id |-> id, ordinal |-> 1, kind |-> "completed", cites |-> cites]

Event(n) == [kind |-> "event", n |-> n]
Decision(d) == [kind |-> "decision", n |-> d]

Replies == {Reply(1, {}), Reply(2, {Event(2)}), Reply(2, {Event(1), Decision(1)})}

Say(id, ordinal, kind) == [id |-> id, ordinal |-> ordinal, kind |-> kind, cites |-> {}]

OneEnding == {Say(1, 1, "completed")}

(* Ids and ordinals are reused; 3 is the last ordinal. *)
ManyUpdates ==
    {Say(1, 1, "accepted"), Say(2, 1, "working"), Say(3, 2, "working"),
     Say(4, 2, "settings"), Say(2, 3, "working"), Say(1, 3, "completed"), Say(3, 3, "failed")}

OnePolicy == {[enabled |-> TRUE, revision |-> 1]}

SomePolicies == {[enabled |-> TRUE, revision |-> 1], [enabled |-> TRUE, revision |-> 2],
                 [enabled |-> FALSE, revision |-> 1]}

(* Bound of the sources run: requests run one after the other, and nothing *)
(* else happens in the room while one of them runs; workers act on the     *)
(* tasks they hold, and decisions are about the ordinary message.          *)
Active ==
    {h \in Turners : turning[h].phase # "idle"}
    \cup {c \in Claimers : claiming[c].phase # "idle"}
    \cup {w \in Workers : working[w].phase # "idle"}

Serial ==
    /\ Cardinality(Active') <= 1
    /\ Active # {} /\ Active' = Active => UNCHANGED <<clock, log, decisions>>
    /\ \A rec \in ledger' : rec.turn = None => rec.id = r3
    /\ \A d \in DOMAIN decisions' : decisions'[d].source \in Messages'
    /\ \A w \in Workers, t \in RequestIds :
        working'[w].task = t /\ working'[w].phase = "begun" =>
            tasks[t].state \in Open /\ working'[w].token = tasks[t].token

Interchangeable == Permutations(Tokens) \cup Permutations(Turners)
        \cup Permutations(Claimers) \cup Permutations(Workers)
===============================================================================

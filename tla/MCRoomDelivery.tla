---------------------------- MODULE MCRoomDelivery ----------------------------
(***************************************************************************)
(* Instances of RoomDelivery for TLC: two sockets, of two actors or of one,*)
(* a channel of one or two messages so that receivers lag at once, and     *)
(* events that one actor may not see.                                      *)
(***************************************************************************)
EXTENDS RoomDelivery

CONSTANTS a1, a2, s1, s2

(* Bound of the streams run, on accepts, joins, commits and timers only,   *)
(* never on a step the specification is fair to: two sockets of the actor  *)
(* are open together while the log is empty, and then ask for it from its  *)
(* start; timers run out at logs of up to two events, in the middle of     *)
(* joins, deliveries and recoveries; the first event is committed once the *)
(* participant lists are read.                                             *)
FromStart(s) == base'[s] = 0 /\ cursor'[s].after = 0
Scope ==
    /\ \/ phase'[s2] = "closed"
       \/ log' = <<>> /\ \A s \in Sessions : FromStart(s)
    /\ Len(log') <= 2 \/ \A s \in Sessions : ~due'[s]
    /\ log = <<>> /\ log' # <<>> =>
        \A s \in Sessions : receiver[s].queue = <<>> /\ incoming[s].queue = <<>>

TwoActors == [s \in Sessions |-> IF s = s1 THEN a1 ELSE a2]
OneActor == [s \in Sessions |-> a1]

RoomWide == {Actors}
RoomAndTargeted == {Actors, {a2}}
===============================================================================

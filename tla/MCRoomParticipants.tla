-------------------------- MODULE MCRoomParticipants --------------------------
(***************************************************************************)
(* Three people with names chosen to collide: with each other, with an id  *)
(* suffix, with an alias, with the Codex agent, with the name an agent     *)
(* without one gets, and a name without letters.  Ids of three codes, of   *)
(* which a suffix has at least two; two people's ids begin alike.          *)
(***************************************************************************)
EXTENDS RoomParticipants

CONSTANTS ana, bo, cy, codex, actions, reference, none

A == 11
C == 12
H == 13
P == 14
G == 15

Characters ==
    [x \in {"a", "A", "c", "h", "g", " ", "!", "1", "3", "4"} |->
        CASE x \in {"a", "A"} -> <<A>>
          [] x = "c" -> <<C>> [] x = "h" -> <<H>> [] x = "g" -> <<G>>
          [] x = "1" -> <<1>> [] x = "3" -> <<3>> [] x = "4" -> <<4>>
          [] OTHER -> <<Dash>>]

Ids == [x \in {ana, bo, cy, codex, actions, reference} |->
    CASE x = ana -> <<3, 3, 1>> [] x = bo -> <<3, 3, 3>> [] x = cy -> <<3, 1, 1>>
      [] x = codex -> <<4, 4, 1>> [] x = actions -> <<4, 4, 3>> [] OTHER -> <<4, 4, 4>>]

RoleOf == [x \in {ana, bo, cy, codex, actions, reference} |->
    IF x \in {ana, bo, cy} THEN "human" ELSE "agent"]

Codex_Agent == <<"c", " ", "a">>
Action_Items == <<"a", "c">>

NamesOf == [x \in {ana, bo, cy} |->
    CASE x = ana -> {<<"a">>, <<"!">>, <<"c", "a">>, <<"h">>}
      [] x = bo -> {<<"A", "!">>, <<" ">>, <<"c", "!", "a">>, <<"g", " ", "4", "4">>}
      [] x = cy -> {<<"!", "a">>, <<"a", " ", "3", "3">>, <<"a", " ", "3", "3", "1">>}]

ParticipantWord == <<P>>
AliasWords == {<<H>>}
Words == [human |-> <<H, Dash>>, agent |-> <<G, Dash>>]
===============================================================================

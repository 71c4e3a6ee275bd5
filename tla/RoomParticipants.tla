--------------------------- MODULE RoomParticipants ---------------------------
(***************************************************************************)
(* Who is in a room, and by which tokens they are mentioned (rooms.rs).    *)
(* The roster is put together twice, by participant_snapshot for messages  *)
(* and participant lists and by validate_conversation_mentions for turns,  *)
(* from the names in the room's events and in the presence map; browsers   *)
(* compute tokens from the list they are sent.  All have to arrive at the  *)
(* same tokens.                                                            *)
(*                                                                         *)
(* Display names are sequences of characters.  Slugs, ids and tokens are   *)
(* sequences of codes: the code of a lower-case letter or a digit, or      *)
(* Dash.  Code d is the digit d for d in 2 .. 9.                           *)
(***************************************************************************)
EXTENDS Integers, Sequences, FiniteSets, FiniteSetsExt

CONSTANTS
    Speakers, Joiners,  \* people who have said something, who have connected
    Codex, ActionItems, Reference,  \* the agents of the gateway
    Role,          \* each actor's role
    Id,            \* participant_id_token: each actor's id as codes
    IdLength,      \* 32
    ShortId,       \* 8: how much of an id a suffix or a default name has
    Decomposed,    \* nfkd, without marks, in lower case: each character's codes
    Names,         \* the display names each person may have
    CodexName, ActionItemsName,  \* "Codex Agent", "Action Items"
    RoleWord,      \* "Human " and "Agent ", as codes
    Participant,   \* "participant"
    Aliases,       \* MENTION_ALIASES
    MaxRoster,     \* 2000
    MaxConnections,  \* bound on the connections of a person
    NoName         \* actor_display_name is NULL

People == Speakers \cup Joiners
Actors == People \cup {Codex, ActionItems, Reference}
Dash == 0

ASSUME ParticipantsAssumption ==
    /\ IsFiniteSet(People) /\ IsFiniteSet(Aliases)
    /\ IdLength \in Nat /\ ShortId \in 1 .. IdLength
    /\ \A a \in Actors : Id[a] \in Seq(Nat \ {Dash}) /\ Len(Id[a]) = IdLength
    /\ \A a, b \in Actors : Id[a] = Id[b] => a = b
    /\ Role \in [Actors -> {"human", "agent"}] /\ Role[Codex] = "agent"
    /\ RoleWord \in [{"human", "agent"} -> Seq(Nat)] /\ Participant \in Seq(Nat)
    /\ \A x \in DOMAIN Decomposed : Decomposed[x] \in Seq(Nat)
    /\ {CodexName, ActionItemsName} \cup UNION {Names[a] : a \in People}
        \subseteq Seq(DOMAIN Decomposed) \cup {NoName}
    /\ ActionItems \notin People \cup {Codex, Reference}
    /\ {MaxRoster, MaxConnections} \subseteq Nat \ {0}

VARIABLES
    spoken,    \* the name of each actor's newest event, or Silent
    presence,  \* the room's presence map: name and connections, or Absent
    enabled    \* the conversation policy

vars == <<spoken, presence, enabled>>

Silent == <<"silent">>
Absent == [name |-> NoName, connections |-> 0]

-------------------------------------------------------------------------------
(* Tokens.                                                                 *)

(* Codes with everything between letters and digits reduced to one dash. *)
Dashed(slug, code) ==
    IF code = Dash /\ slug # <<>> /\ slug[Len(slug)] = Dash THEN slug ELSE Append(slug, code)

(* normalized_participant_name. *)
Slug(codes) ==
    LET dashed[n \in 0 .. Len(codes)] ==
            IF n = 0 THEN <<>> ELSE Dashed(dashed[n - 1], codes[n])
        all == dashed[Len(codes)]
        solid == {i \in DOMAIN all : all[i] # Dash}
    IN  IF solid = {} THEN Participant ELSE SubSeq(all, Min(solid), Max(solid))

(* An actor's name as codes; without one, the role and the beginning of    *)
(* the id.                                                                 *)
Codes(a, name) ==
    IF name = NoName THEN RoleWord[Role[a]] \o SubSeq(Id[a], 1, ShortId)
    ELSE LET codes[n \in 0 .. Len(name)] ==
                IF n = 0 THEN <<>> ELSE codes[n - 1] \o Decomposed[name[n]]
         IN  codes[Len(name)]

(* A RoomParticipant, by its slug. *)
Listed(a, name) == [id |-> a, slug |-> Slug(Codes(a, name))]

CodexToken == Slug(Codes(Codex, CodexName))

(* "codex-agent" is none of MENTION_ALIASES. *)
ASSUME CodexTokenAssumption == CodexToken \notin Aliases

(* The token nobody shares with the Codex agent. *)
Pinned(p) == p.id = Codex

(* Mutant of NeedsSuffix: the first of a name keeps it. *)
NeedsSuffixAfterFirst(list, i) ==
    /\ ~Pinned(list[i])
    /\ \/ list[i].slug \in Aliases \cup {CodexToken}
       \/ \E j \in 1 .. i - 1 : list[j].slug = list[i].slug

NeedsSuffix(list, i) ==
    /\ ~Pinned(list[i])
    /\ \/ list[i].slug \in Aliases \cup {CodexToken}
       \/ \E j \in DOMAIN list \ {i} : list[j].slug = list[i].slug

(* Mutant of Occupied: the names of the others are not taken. *)
OccupiedWords(list) == Aliases \cup {CodexToken}

Occupied(list) ==
    Aliases \cup {CodexToken}
    \cup {list[i].slug : i \in {j \in DOMAIN list : ~NeedsSuffix(list, j)}}

Suffixed(p, n) == p.slug \o <<Dash>> \o SubSeq(Id[p.id], 1, n)

(* The suffix of a name: as short as tells its owners apart and is free. *)
SuffixLength(list, i) ==
    LET group == {j \in DOMAIN list : NeedsSuffix(list, j) /\ list[j].slug = list[i].slug}
        tokens(n) == {Suffixed(list[j], n) : j \in group}
        good(n) == /\ Cardinality(tokens(n)) = Cardinality(group)
                   /\ tokens(n) \cap Occupied(list) = {}
    IN  Min({n \in ShortId .. IdLength : n = IdLength \/ good(n)})

(* A token that is not taken: a longer suffix, or at last a number. *)
FreeToken(p, length, taken) ==
    LET longer == {n \in length .. IdLength : Suffixed(p, n) \notin taken}
        numbered(d) == Suffixed(p, IdLength) \o <<Dash, d>>
        numbers == {d \in 2 .. Cardinality(taken) + 2 : numbered(d) \notin taken}
    IN  IF longer # {} THEN Suffixed(p, Min(longer)) ELSE numbered(Min(numbers))

(* Lexicographic order: the one that ends, or has the smaller code, where  *)
(* the two first differ comes before the other.                            *)
Before(s, t) ==
    \E k \in 1 .. Len(t) :
        /\ k = Len(s) + 1 \/ (k \in 1 .. Len(s) /\ s[k] < t[k])
        /\ SubSeq(s, 1, k - 1) = SubSeq(t, 1, k - 1)

(* By name, id and position. *)
Earlier(list, i, j) ==
    \/ Before(list[i].slug, list[j].slug)
    \/ /\ list[i].slug = list[j].slug
       /\ \/ Before(Id[list[i].id], Id[list[j].id])
          \/ Id[list[i].id] = Id[list[j].id] /\ i < j

(* The participants that need a suffix, sorted. *)
Disambiguated(list) ==
    LET needy == {i \in DOMAIN list : NeedsSuffix(list, i)}
        rank(i) == Cardinality({j \in needy : Earlier(list, j, i)}) + 1
    IN  [n \in 1 .. Cardinality(needy) |-> CHOOSE i \in needy : rank(i) = n]

(* One more participant gets a token. *)
Assign(list, sofar, i) ==
    LET token == FreeToken(list[i], SuffixLength(list, i), sofar.taken)
    IN  [tokens |-> sofar.tokens \cup {[id |-> list[i].id, token |-> token]},
         taken |-> sofar.taken \cup {token}]

(* participant_mention_tokens, with each participant's id. *)
Tokens(list) ==
    LET bare == {[id |-> list[i].id, token |-> list[i].slug] :
                    i \in {j \in DOMAIN list : ~NeedsSuffix(list, j) /\ ~Pinned(list[j])}}
        pinned == {[id |-> Codex, token |-> CodexToken] :
                    i \in {j \in DOMAIN list : Pinned(list[j])}}
        order == Disambiguated(list)
        assigned[n \in 0 .. Len(order)] ==
            IF n = 0 THEN [tokens |-> bare \cup pinned, taken |-> Occupied(list)]
            ELSE Assign(list, assigned[n - 1], order[n])
    IN  assigned[Len(order)].tokens

-------------------------------------------------------------------------------
(* Rosters.                                                                *)

(* HashMap::insert of several entries. *)
Override(map, entries) ==
    {p \in map : \A q \in entries : q.id # p.id} \cup entries

FromEvents == {Listed(a, spoken[a]) : a \in {b \in Actors : spoken[b] # Silent}}
FromPresence == {Listed(a, presence[a].name) : a \in {b \in Actors : presence[b] # Absent}}

ActionItemsAgent == Listed(ActionItems, ActionItemsName)
CodexAgent == Listed(Codex, CodexName)

(* participant_snapshot; it sorts its list by role, name and id. *)
Snapshot ==
    LET known == Override(Override({ActionItemsAgent}, FromEvents), FromPresence)
    IN  IF enabled THEN Override(known, {CodexAgent}) ELSE known

(* Mutant of KnownToTurns: an event's name replaces the presence's. *)
KnownByEvents == Override(FromPresence, FromEvents)

(* What validate_conversation_mentions finds, *)
KnownToTurns == Override(FromEvents, FromPresence)

(* refuses, *)
RosterTooLarge ==
    \E found \in {FromEvents, FromPresence, KnownToTurns} : Cardinality(found) > MaxRoster

(* and completes. *)
ConversationRoster == Override(KnownToTurns, {ActionItemsAgent, CodexAgent})

(* A roster in some order: which one does not matter (OrderIndependent). *)
Ordered(roster) == CHOOSE list \in [1 .. Cardinality(roster) -> roster] : IsInjective(list)

TokensOf(roster) == Tokens(Ordered(roster))

-------------------------------------------------------------------------------
(* A targeted message.                                                     *)

(* Mutant of ValidMentions: the token is not compared. *)
ValidMentionsById(tokens, mentions) ==
    {x.id : x \in mentions} \subseteq {x.id : x \in tokens}

(* validate_mentions, for mentions [id, token] of participants. *)
ValidMentions(tokens, mentions) == mentions \subseteq tokens

(* resolve_chat_audience: who "allhumans" and "allagents" stand for. *)
AliasMeans(roster, alias) ==
    {p.id : p \in {q \in roster : Role[q.id] = "human" \/ alias = "allagents"}}

Audience(sender, roster, mentions, aliases) ==
    {sender} \cup {x.id : x \in mentions} \cup UNION {AliasMeans(roster, alias) : alias \in aliases}

-------------------------------------------------------------------------------
(* The room.                                                               *)

Init ==
    /\ spoken = [a \in Actors |-> Silent]
    /\ presence = [a \in Actors |-> Absent]
    /\ enabled \in BOOLEAN

(* An event of an actor: a person's has the name of the person's token,    *)
(* Action Items runs and Codex replies have the agent's, updates of agent  *)
(* tasks have none.                                                        *)
Speak(a, name) ==
    /\ spoken' = [spoken EXCEPT ![a] = name]
    /\ UNCHANGED <<presence, enabled>>

(* register_participant: the newest connection's name counts. *)
Register(a, name) ==
    /\ presence[a].connections < MaxConnections
    /\ presence' = [presence EXCEPT ![a] = [name |-> name, connections |-> @.connections + 1]]
    /\ UNCHANGED <<spoken, enabled>>

(* unregister_participant: the entry stays. *)
Unregister(a) ==
    /\ presence[a].connections > 0
    /\ presence' = [presence EXCEPT ![a].connections = @ - 1]
    /\ UNCHANGED <<spoken, enabled>>

(* The gateway starts again, perhaps with another policy. *)
Restart ==
    /\ presence' = [a \in Actors |-> Absent]
    /\ enabled' \in BOOLEAN
    /\ UNCHANGED spoken

Next ==
    \/ \E a \in Speakers : \E name \in Names[a] : Speak(a, name)
    \/ \E a \in Joiners : \E name \in Names[a] : Register(a, name)
    \/ \E a \in Joiners : Unregister(a)
    \/ Speak(Codex, CodexName)
    \/ Speak(ActionItems, ActionItemsName)
    \/ Speak(Reference, NoName)
    \/ Restart

Spec == Init /\ [][Next]_vars

-------------------------------------------------------------------------------
(* Correctness.                                                            *)

(* Everyone in the room has a token of their own, nobody's is an alias or, *)
(* the Codex agent's apart, the Codex agent's, whatever names people       *)
(* choose: a name like somebody's token, the same name, no letters at all  *)
(* (participant_mention_tokens).                                           *)
TokensDistinct ==
    \A tokens \in {TokensOf(Snapshot)} :
        /\ \A x, y \in tokens : x.token = y.token => x = y
        /\ \A x \in tokens :
            x.token \notin Aliases /\ (x.token = CodexToken => x.id = Codex)

Swapped(list, i, j) == [list EXCEPT ![i] = list[j], ![j] = list[i]]
Reversed(list) == [i \in DOMAIN list |-> list[Len(list) - i + 1]]

(* Tokens do not depend on the order of the roster (anybody first, or all  *)
(* of it reversed), so a browser, which sorts its list as it likes, and a  *)
(* turn, which reads a HashMap, compute the tokens of participant_snapshot *)
(* (participant_mention_tokens).                                           *)
OrderIndependent ==
    \A list \in {Ordered(Snapshot)} :
        LET others == {Swapped(list, 1, j) : j \in DOMAIN list} \cup {Reversed(list)}
        IN  {Tokens(other) : other \in others} = {Tokens(list)}

(* While conversations are enabled, a mention that a message may make, a   *)
(* turn may make, and conversely, as long as the roster is not too large   *)
(* for turns: the two ways of putting a roster together agree              *)
(* (participant_snapshot, validate_conversation_mentions).                 *)
RostersAgree ==
    enabled /\ ~RosterTooLarge => TokensOf(Snapshot) = TokensOf(ConversationRoster)

(* A targeted message that is accepted reaches exactly its sender and the  *)
(* owner of the token it shows, although the browser may have taken token  *)
(* and id from an old list; with "allagents" it reaches everybody in the   *)
(* room, with "allhumans" every person too (validate_mentions,             *)
(* resolve_chat_audience).                                                 *)
MessagesReachTheNamed ==
    \A roster \in {Snapshot} : \A tokens \in {TokensOf(roster)} :
    \A sender \in People, x \in [id : Actors, token : {y.token : y \in tokens}] :
        ValidMentions(tokens, {x}) =>
            LET reaches(aliases) == Audience(sender, roster, {x}, aliases)
                named == {y.id : y \in {z \in tokens : z.token = x.token}} \cup {sender}
                everybody == {p.id : p \in roster}
            IN  /\ reaches({}) = named
                /\ reaches({"allhumans"}) = named \cup {a \in everybody : Role[a] = "human"}
                /\ reaches({"allagents"}) = named \cup everybody
===============================================================================

------------------------ MODULE RoomParticipantsProofs ------------------------
(***************************************************************************)
(* Proofs about RoomParticipants, for any people, names and ids.           *)
(*                                                                         *)
(* The two rosters are the same set because the Action Items agent has no  *)
(* other name than its own in the events, and no presence: an invariant of *)
(* the room.                                                               *)
(*                                                                         *)
(* Tokens are distinct because whoever needs a suffix gets a token that is *)
(* not taken (there are more numbers than tokens) and everyone else's name *)
(* is only theirs: an invariant of the loop that gives suffixes.  They do  *)
(* not depend on the order of the roster because sorting by name and id    *)
(* leaves no ties: the loop meets the same people in the same order.       *)
(*                                                                         *)
(* What a loop computes is proved by a least counterexample.               *)
(***************************************************************************)
EXTENDS RoomParticipants, FiniteSetTheorems, WellFoundedInduction, TLAPS

(* Most leaves are first-order: Zenon takes them.  A leaf that needs       *)
(* arithmetic or the theory of functions and sequences cites SMT.          *)
USE Zenon

(* The gateway's own agent, by its events and in the presence map. *)
AgentInv ==
    /\ spoken \in [Actors -> (UNION {Names[a] : a \in Speakers})
                             \cup {Silent, CodexName, ActionItemsName, NoName}]
    /\ presence \in [Actors -> [name : (UNION {Names[a] : a \in Joiners}) \cup {NoName},
                                connections : 0 .. MaxConnections]]
    /\ spoken[ActionItems] \in {Silent, ActionItemsName}
    /\ presence[ActionItems] = Absent

LEMMA AgentStep == AgentInv /\ [Next]_vars => AgentInv'
  <1> SUFFICES ASSUME AgentInv, [Next]_vars PROVE AgentInv'
    OBVIOUS
  <1> DEFINE Spoken == (UNION {Names[a] : a \in Speakers})
                       \cup {Silent, CodexName, ActionItemsName, NoName}
             Joined == (UNION {Names[a] : a \in Joiners}) \cup {NoName}
             Entries == [name : Joined, connections : 0 .. MaxConnections]
  <1>1. /\ {Codex, ActionItems, Reference} \subseteq Actors
        /\ Speakers \subseteq Actors \ {ActionItems} /\ Joiners \subseteq Actors \ {ActionItems}
        /\ Codex # ActionItems /\ Reference # ActionItems
        /\ MaxConnections \in Nat
    BY ParticipantsAssumption DEF Actors, People
  <1>2. /\ spoken \in [Actors -> Spoken] /\ presence \in [Actors -> Entries]
        /\ spoken[ActionItems] \in {Silent, ActionItemsName}
        /\ presence[ActionItems] = Absent
    BY DEF AgentInv
  <1>3. Absent \in Entries /\ {CodexName, ActionItemsName, NoName} \subseteq Spoken
    <2>1. NoName \in Joined /\ 0 \in 0 .. MaxConnections
      BY <1>1, SMT
    <2> HIDE DEF Joined
    <2> QED
      BY <2>1 DEF Absent
  <1>4. ASSUME NEW a \in Actors, NEW name \in Spoken, Speak(a, name),
               a = ActionItems => name = ActionItemsName
        PROVE  AgentInv'
    BY <1>1, <1>2, <1>4 DEF Speak, AgentInv
  <1>5. ASSUME NEW a \in Joiners, NEW name \in Names[a], Register(a, name)
        PROVE  AgentInv'
    <2>1. name \in Joined /\ a \in Actors \ {ActionItems}
      BY <1>1
    <2>2. presence[a].connections + 1 \in 0 .. MaxConnections
      BY <1>1, <1>2, <1>5, SMT DEF Register
    <2>3. [name |-> name, connections |-> presence[a].connections + 1] \in Entries
      BY <2>1, <2>2
    <2> HIDE DEF Entries
    <2>4. presence' \in [Actors -> Entries] /\ presence'[ActionItems] = Absent
      BY <2>1, <2>3, <1>1, <1>2, <1>5 DEF Register
    <2>5. spoken' = spoken
      BY <1>5 DEF Register
    <2> QED
      BY <2>4, <2>5, <1>2 DEF AgentInv, Entries
  <1>6. ASSUME NEW a \in Joiners, Unregister(a)
        PROVE  AgentInv'
    <2>1. a \in Actors \ {ActionItems}
      BY <1>1
    <2>2. presence[a].connections - 1 \in 0 .. MaxConnections
      BY <2>1, <1>1, <1>2, <1>6, SMT DEF Unregister
    <2>3. [presence[a] EXCEPT !.connections = presence[a].connections - 1] \in Entries
      BY <2>1, <2>2, <1>2
    <2> HIDE DEF Entries
    <2>4. presence' \in [Actors -> Entries] /\ presence'[ActionItems] = Absent
      BY <2>1, <2>3, <1>1, <1>2, <1>6 DEF Unregister
    <2>5. spoken' = spoken
      BY <1>6 DEF Unregister
    <2> QED
      BY <2>4, <2>5, <1>2 DEF AgentInv, Entries
  <1>7. CASE Restart
    BY <1>1, <1>2, <1>3, <1>7 DEF Restart, AgentInv
  <1>8. CASE UNCHANGED vars
    BY <1>8 DEF vars, AgentInv
  <1>9. ASSUME NEW a \in Speakers, NEW name \in Names[a], Speak(a, name)
        PROVE  AgentInv'
    <2>1. a \in Actors /\ a # ActionItems /\ name \in Spoken
      BY <1>1
    <2> QED
      BY <2>1, <1>4, <1>9
  <1>10. CASE Speak(Codex, CodexName) \/ Speak(ActionItems, ActionItemsName)
              \/ Speak(Reference, NoName)
    BY <1>1, <1>3, <1>4, <1>10
  <1> QED
    BY <1>5, <1>6, <1>7, <1>8, <1>9, <1>10 DEF Next

LEMMA AgentInit == Init => AgentInv
  <1> SUFFICES ASSUME Init PROVE AgentInv
    OBVIOUS
  <1> DEFINE Joined == (UNION {Names[a] : a \in Joiners}) \cup {NoName}
  <1>1. NoName \in Joined /\ 0 \in 0 .. MaxConnections /\ ActionItems \in Actors
    BY ParticipantsAssumption, SMT DEF Actors
  <1> HIDE DEF Joined
  <1>2. Absent \in [name : Joined, connections : 0 .. MaxConnections]
    BY <1>1 DEF Absent
  <1>3. presence \in [Actors -> [name : Joined, connections : 0 .. MaxConnections]]
    BY <1>2 DEF Init
  <1> QED
    BY <1>1, <1>3 DEF Init, AgentInv, Joined

THEOREM AgentInvHolds == Spec => []AgentInv
  BY AgentInit, AgentStep, PTL DEF Spec

-------------------------------------------------------------------------------
(* Rosters.                                                                *)

(* An entry that is put in first and one that is put in last end up the    *)
(* same if nothing else is ever put in under its id.                       *)
LEMMA OverrideOrder ==
  ASSUME NEW first, NEW last, NEW events, NEW present,
         first.id # last.id,
         \A p \in present : p.id # first.id,
         \A p \in events : p.id = first.id => p = first
  PROVE  Override(Override(Override({first}, events), present), {last})
         = Override(Override(events, present), {first, last})
  BY DEF Override

LEMMA SameRoster ==
  ASSUME AgentInv, enabled
  PROVE  Snapshot = ConversationRoster
  <1>1. \A a, name : Listed(a, name).id = a
    BY DEF Listed
  <1>2. ActionItemsAgent.id = ActionItems /\ CodexAgent.id = Codex /\ ActionItems # Codex
    BY <1>1, ParticipantsAssumption DEF ActionItemsAgent, CodexAgent
  <1>3. \A p \in FromPresence : p.id # ActionItems
    BY <1>1, SMT DEF FromPresence, AgentInv
  <1>4. \A p \in FromEvents : p.id = ActionItems => p = ActionItemsAgent
    BY <1>1, SMT DEF FromEvents, AgentInv, ActionItemsAgent
  <1>5. Override(Override(Override({ActionItemsAgent}, FromEvents), FromPresence), {CodexAgent})
        = Override(Override(FromEvents, FromPresence), {ActionItemsAgent, CodexAgent})
    BY <1>2, <1>3, <1>4, OverrideOrder, SMT
  <1> QED
    BY <1>5 DEF Snapshot, ConversationRoster, KnownToTurns

(* While conversations are enabled, the roster that participant_snapshot   *)
(* puts together for messages is the one that                              *)
(* validate_conversation_mentions puts together for turns, so they accept  *)
(* the same mentions, for any people, names and history of the room.       *)
THEOREM RostersAlwaysAgree == Spec => []RostersAgree
  <1>1. AgentInv => RostersAgree
    BY SameRoster DEF RostersAgree
  <1> QED
    BY <1>1, AgentInvHolds, PTL

(* Wherever tokens are distinct, a targeted message that validate_mentions *)
(* accepts reaches its sender and the owner of the token, and those its    *)
(* aliases stand for (resolve_chat_audience).                              *)
LEMMA TokensDecideAudience == TokensDistinct => MessagesReachTheNamed
  <1> SUFFICES ASSUME TokensDistinct PROVE MessagesReachTheNamed
    OBVIOUS
  <1> SUFFICES ASSUME NEW roster \in {Snapshot}, NEW tokens \in {TokensOf(roster)},
                      NEW sender \in People,
                      NEW x \in [id : Actors, token : {y.token : y \in tokens}],
                      ValidMentions(tokens, {x})
               PROVE  LET reaches(aliases) == Audience(sender, roster, {x}, aliases)
                          named == {y.id : y \in {z \in tokens : z.token = x.token}} \cup {sender}
                          everybody == {p.id : p \in roster}
                      IN  /\ reaches({}) = named
                          /\ reaches({"allhumans"}) =
                                named \cup {a \in everybody : Role[a] = "human"}
                          /\ reaches({"allagents"}) = named \cup everybody
    BY DEF MessagesReachTheNamed
  <1>1. \A y, z \in tokens : y.token = z.token => y = z
    BY DEF TokensDistinct
  <1>2. x \in tokens
    BY DEF ValidMentions
  <1>3. {y.id : y \in {z \in tokens : z.token = x.token}} = {x.id}
    BY <1>1, <1>2
  <1>4. AliasMeans(roster, "allhumans") = {a \in {p.id : p \in roster} : Role[a] = "human"}
    BY DEF AliasMeans
  <1>5. AliasMeans(roster, "allagents") = {p.id : p \in roster}
    BY DEF AliasMeans
  <1>6. ASSUME NEW aliases
        PROVE  Audience(sender, roster, {x}, aliases) =
                    {x.id} \cup {sender} \cup UNION {AliasMeans(roster, alias) : alias \in aliases}
    BY DEF Audience
  <1>7. /\ UNION {AliasMeans(roster, alias) : alias \in {}} = {}
        /\ UNION {AliasMeans(roster, alias) : alias \in {"allhumans"}}
            = AliasMeans(roster, "allhumans")
        /\ UNION {AliasMeans(roster, alias) : alias \in {"allagents"}}
            = AliasMeans(roster, "allagents")
    <2> DEFINE M(alias) == AliasMeans(roster, alias)
    <2> HIDE DEF M
    <2>1. UNION {M(alias) : alias \in {}} = {}
      OBVIOUS
    <2>2. UNION {M(alias) : alias \in {"allhumans"}} = M("allhumans")
      OBVIOUS
    <2>3. UNION {M(alias) : alias \in {"allagents"}} = M("allagents")
      OBVIOUS
    <2> QED
      BY <2>1, <2>2, <2>3 DEF M
  <1>8. Audience(sender, roster, {x}, {}) = {x.id} \cup {sender}
    <2> DEFINE none == UNION {AliasMeans(roster, alias) : alias \in {}}
    <2>1. Audience(sender, roster, {x}, {}) = {x.id} \cup {sender} \cup none
      BY <1>6
    <2>2. none = {}
      BY <1>7
    <2> HIDE DEF none
    <2> QED
      BY <2>1, <2>2
  <1>9. Audience(sender, roster, {x}, {"allhumans"}) =
            {x.id} \cup {sender} \cup AliasMeans(roster, "allhumans")
    BY <1>6, <1>7
  <1>10. Audience(sender, roster, {x}, {"allagents"}) =
            {x.id} \cup {sender} \cup AliasMeans(roster, "allagents")
    BY <1>6, <1>7
  <1> QED
    BY <1>3, <1>4, <1>5, <1>8, <1>9, <1>10

-------------------------------------------------------------------------------
(* The order in which suffixes are given.                                  *)

LEMMA LeastNumber ==
  ASSUME NEW T, T \subseteq Nat, T # {}
  PROVE  \E n \in T : \A m \in T : n <= m
  <1> DEFINE R == OpToRel(<, Nat)
  <1>1. IsWellFoundedOn(R, Nat)
    BY NatLessThanWellFounded
  <1>2. \A x, y \in Nat : x < y => <<x, y>> \in R
    BY DEF OpToRel
  <1> HIDE DEF R
  <1>3. PICK x \in T : \A y \in T : ~(<<y, x>> \in R)
    BY <1>1, WFMin
  <1>4. \A y \in T : ~(y < x)
    BY <1>2, <1>3
  <1> QED
    BY <1>4, SMT

LEMMA SameBeginning ==
  ASSUME NEW s \in Seq(Nat), NEW t \in Seq(Nat), NEW k \in Nat, k <= Len(s), k <= Len(t)
  PROVE  SubSeq(s, 1, k) = SubSeq(t, 1, k) <=> \A i \in 1 .. k : s[i] = t[i]
  <1>1. /\ SubSeq(s, 1, k) = [i \in 1 .. k |-> s[i]]
        /\ SubSeq(t, 1, k) = [i \in 1 .. k |-> t[i]]
    BY SMT
  <1> QED
    BY <1>1

DiffersAt(s, t, k) ==
    /\ k \in 1 .. Len(t)
    /\ \A i \in 1 .. k - 1 : i \in 1 .. Len(s) /\ s[i] = t[i]
    /\ k = Len(s) + 1 \/ (k \in 1 .. Len(s) /\ s[k] < t[k])

LEMMA BeforeMeans ==
  ASSUME NEW s \in Seq(Nat), NEW t \in Seq(Nat)
  PROVE  Before(s, t) <=> \E k \in Nat : DiffersAt(s, t, k)
  <1>1. Len(s) \in Nat /\ Len(t) \in Nat
    BY SMT
  <1>2. ASSUME NEW k \in 1 .. Len(t), k = Len(s) + 1 \/ k \in 1 .. Len(s)
        PROVE  /\ k \in Nat /\ \A i \in 1 .. k - 1 : i \in 1 .. Len(s)
               /\ SubSeq(s, 1, k - 1) = SubSeq(t, 1, k - 1)
                    <=> \A i \in 1 .. k - 1 : s[i] = t[i]
    <2>1. k - 1 \in Nat /\ k - 1 <= Len(s) /\ k - 1 <= Len(t)
      BY <1>1, <1>2, SMT
    <2>2. k \in Nat /\ \A i \in 1 .. k - 1 : i \in 1 .. Len(s)
      BY <1>1, <1>2, SMT
    <2> QED
      BY <2>1, <2>2, SameBeginning
  <1>3. ASSUME NEW k \in 1 .. Len(t)
        PROVE  DiffersAt(s, t, k) <=>
                 /\ k = Len(s) + 1 \/ (k \in 1 .. Len(s) /\ s[k] < t[k])
                 /\ SubSeq(s, 1, k - 1) = SubSeq(t, 1, k - 1)
    BY <1>2 DEF DiffersAt
  <1>4. \A k \in Nat : DiffersAt(s, t, k) => k \in 1 .. Len(t)
    BY DEF DiffersAt
  <1>5. 1 .. Len(t) \subseteq Nat
    BY <1>1, SMT
  <1> QED
    BY <1>3, <1>4, <1>5 DEF Before

LEMMA BeforeIrreflexive ==
  ASSUME NEW s \in Seq(Nat)
  PROVE  ~Before(s, s)
  <1>1. \A k \in Nat : ~DiffersAt(s, s, k)
    BY SMT DEF DiffersAt
  <1> QED
    BY <1>1, BeforeMeans

LEMMA BeforeTransitive ==
  ASSUME NEW s \in Seq(Nat), NEW t \in Seq(Nat), NEW u \in Seq(Nat), Before(s, t), Before(t, u)
  PROVE  Before(s, u)
  <1>1. PICK k \in Nat : DiffersAt(s, t, k)
    BY BeforeMeans
  <1>2. PICK m \in Nat : DiffersAt(t, u, m)
    BY BeforeMeans
  <1>3. /\ Len(s) \in Nat /\ Len(t) \in Nat /\ Len(u) \in Nat
        /\ \A i \in 1 .. Len(s) : s[i] \in Nat
        /\ \A i \in 1 .. Len(t) : t[i] \in Nat
        /\ \A i \in 1 .. Len(u) : u[i] \in Nat
    BY SMT
  <1>4. CASE k <= m
    <2>1. k \in 1 .. Len(u) /\ \A i \in 1 .. k - 1 : i \in 1 .. m - 1
      <3>1. k \in 1 .. Len(t) /\ m \in 1 .. Len(u)
        BY <1>1, <1>2 DEF DiffersAt
      <3> QED
        BY <3>1, <1>4, SMT
    <2>2. \A i \in 1 .. k - 1 : i \in 1 .. Len(s) /\ s[i] = u[i]
      BY <2>1, <1>1, <1>2 DEF DiffersAt
    <2>3. k < m => k \in 1 .. m - 1
      BY <1>1, <1>2, SMT DEF DiffersAt
    <2>4. DiffersAt(s, u, k)
      <3>1. CASE k = Len(s) + 1
        BY <2>1, <2>2, <3>1 DEF DiffersAt
      <3>2. CASE k \in 1 .. Len(s) /\ s[k] < t[k]
        <4>1. s[k] < u[k]
          <5>1. CASE k < m
            <6>1. t[k] = u[k]
              BY <5>1, <2>3, <1>2 DEF DiffersAt
            <6> QED
              BY <6>1, <3>2
          <5>2. CASE k = m
            <6>1. k \in 1 .. Len(t) /\ t[k] < u[k]
              BY <5>2, <1>1, <1>2, <1>3, SMT DEF DiffersAt
            <6>2. s[k] \in Nat /\ t[k] \in Nat /\ u[k] \in Nat
              BY <6>1, <2>1, <3>2, <1>3
            <6>3. \A a, b, c \in Nat : a < b /\ b < c => a < c
              BY SMT
            <6> QED
              BY <6>1, <6>2, <6>3, <3>2
          <5> QED
            BY <5>1, <5>2, <1>4, SMT
        <4> QED
          BY <4>1, <2>1, <2>2, <3>2 DEF DiffersAt
      <3> QED
        BY <3>1, <3>2, <1>1 DEF DiffersAt
    <2> QED
      BY <2>4, BeforeMeans
  <1>5. CASE m < k
    <2>1. /\ m \in 1 .. k - 1 /\ m \in 1 .. Len(u) /\ m # Len(t) + 1
          /\ \A i \in 1 .. m - 1 : i \in 1 .. k - 1
      <3>1. k \in 1 .. Len(t) /\ m \in 1 .. Len(u)
        BY <1>1, <1>2 DEF DiffersAt
      <3> QED
        BY <3>1, <1>3, <1>5, SMT
    <2>2. \A i \in 1 .. m - 1 : i \in 1 .. Len(s) /\ s[i] = u[i]
      BY <2>1, <1>1, <1>2 DEF DiffersAt
    <2>3. m \in 1 .. Len(s) /\ s[m] < u[m]
      BY <2>1, <1>1, <1>2 DEF DiffersAt
    <2>4. DiffersAt(s, u, m)
      BY <2>1, <2>2, <2>3 DEF DiffersAt
    <2> QED
      BY <2>4, BeforeMeans
  <1> QED
    BY <1>4, <1>5, SMT

LEMMA BeforeTotal ==
  ASSUME NEW s \in Seq(Nat), NEW t \in Seq(Nat)
  PROVE  Before(s, t) \/ s = t \/ Before(t, s)
  <1>1. /\ Len(s) \in Nat /\ Len(t) \in Nat
        /\ \A i \in 1 .. Len(s) : s[i] \in Nat
        /\ \A i \in 1 .. Len(t) : t[i] \in Nat
    BY SMT
  <1> DEFINE D == {k \in Nat \ {0} : \/ k = Len(s) + 1 \/ k = Len(t) + 1
                                     \/ k \in 1 .. Len(s) /\ k \in 1 .. Len(t) /\ s[k] # t[k]}
  <1>2. D \subseteq Nat /\ Len(s) + 1 \in D
    BY <1>1, SMT
  <1>3. PICK k \in D : \A m \in D : k <= m
    BY <1>2, LeastNumber
  <1>4. k <= Len(s) + 1 /\ k <= Len(t) + 1
    BY <1>1, <1>3, SMT
  <1>5. \A i \in 1 .. k - 1 : i \in 1 .. Len(s) /\ i \in 1 .. Len(t) /\ s[i] = t[i]
    <2> TAKE i \in 1 .. k - 1
    <2>1. i \in Nat \ {0} /\ ~(k <= i) /\ i \in 1 .. Len(s) /\ i \in 1 .. Len(t)
      BY <1>1, <1>3, <1>4, SMT
    <2> QED
      BY <2>1, <1>3
  <1>6. CASE k = Len(s) + 1 /\ k = Len(t) + 1
    <2>1. s = t
      BY <1>1, <1>5, <1>6, SMT
    <2> QED
      BY <2>1
  <1>7. CASE ~(k = Len(s) + 1 /\ k = Len(t) + 1)
    <2>1. DiffersAt(s, t, k) \/ DiffersAt(t, s, k)
      BY <1>1, <1>3, <1>4, <1>5, <1>7, SMT DEF DiffersAt
    <2> QED
      BY <2>1, BeforeMeans
  <1> QED
    BY <1>6, <1>7

(* A roster in some order: nobody is in it twice. *)
IsRoster(list) ==
    /\ list \in Seq([id : Actors, slug : Seq(Nat)])
    /\ \A i, j \in DOMAIN list : list[i].id = list[j].id => i = j

LEMMA RosterFacts ==
  ASSUME NEW list, IsRoster(list)
  PROVE  /\ Len(list) \in Nat /\ DOMAIN list = 1 .. Len(list)
         /\ IsFiniteSet(DOMAIN list) /\ DOMAIN list \subseteq Nat
         /\ \A i \in DOMAIN list :
                list[i].id \in Actors /\ list[i].slug \in Seq(Nat) /\ Id[list[i].id] \in Seq(Nat)
         /\ \A i, j \in DOMAIN list : Id[list[i].id] = Id[list[j].id] => i = j
  <1> DEFINE P == [id : Actors, slug : Seq(Nat)]
  <1>1. list \in Seq(P)
    BY DEF IsRoster
  <1>2. Len(list) \in Nat /\ DOMAIN list = 1 .. Len(list) /\ \A i \in DOMAIN list : list[i] \in P
    <2> HIDE DEF P
    <2> QED
      BY <1>1, SMT
  <1>3. IsFiniteSet(1 .. Len(list)) /\ 1 .. Len(list) \subseteq Nat
    <2>1. 1 \in Int /\ Len(list) \in Int /\ 1 .. Len(list) \subseteq Nat
      BY <1>2, SMT
    <2> QED
      BY <2>1, FS_Interval
  <1>4. \A i \in DOMAIN list : list[i].id \in Actors /\ list[i].slug \in Seq(Nat)
    BY <1>2
  <1>5. \A a \in Actors : Id[a] \in Seq(Nat)
    <2>1. \A q \in Seq(Nat \ {Dash}) : q \in Seq(Nat)
      BY SMT
    <2> QED
      BY <2>1, ParticipantsAssumption
  <1>6. \A a, b \in Actors : Id[a] = Id[b] => a = b
    BY ParticipantsAssumption
  <1>7. \A i, j \in DOMAIN list : list[i].id = list[j].id => i = j
    BY DEF IsRoster
  <1>8. \A i, j \in DOMAIN list : Id[list[i].id] = Id[list[j].id] => i = j
    BY <1>4, <1>6, <1>7
  <1> QED
    BY <1>2, <1>3, <1>4, <1>5, <1>8

(* Participants are never tied. *)
LEMMA EarlierByName ==
  ASSUME NEW list, IsRoster(list), NEW i \in DOMAIN list, NEW j \in DOMAIN list
  PROVE  Earlier(list, i, j) <=>
            \/ Before(list[i].slug, list[j].slug)
            \/ list[i].slug = list[j].slug /\ Before(Id[list[i].id], Id[list[j].id])
  <1>1. i \in Nat /\ j \in Nat /\ (Id[list[i].id] = Id[list[j].id] => i = j)
    BY RosterFacts
  <1>2. ~(i = j /\ i < j)
    BY <1>1, SMT
  <1> QED
    BY <1>1, <1>2 DEF Earlier

LEMMA EarlierOrders ==
  ASSUME NEW list, IsRoster(list), NEW i \in DOMAIN list, NEW j \in DOMAIN list
  PROVE  /\ ~Earlier(list, i, i)
         /\ Earlier(list, i, j) \/ i = j \/ Earlier(list, j, i)
         /\ \A k \in DOMAIN list :
                Earlier(list, i, j) /\ Earlier(list, j, k) => Earlier(list, i, k)
  <1>1. \A k \in DOMAIN list : list[k].slug \in Seq(Nat) /\ Id[list[k].id] \in Seq(Nat)
    BY RosterFacts
  <1>2. Id[list[i].id] = Id[list[j].id] => i = j
    BY RosterFacts
  <1>3. \A k, m \in DOMAIN list : Earlier(list, k, m) <=>
            \/ Before(list[k].slug, list[m].slug)
            \/ list[k].slug = list[m].slug /\ Before(Id[list[k].id], Id[list[m].id])
    BY EarlierByName
  <1>4. ~Earlier(list, i, i)
    BY <1>1, <1>3, BeforeIrreflexive
  <1>5. Earlier(list, i, j) \/ i = j \/ Earlier(list, j, i)
    <2>1. \/ Before(list[i].slug, list[j].slug) \/ list[i].slug = list[j].slug
          \/ Before(list[j].slug, list[i].slug)
      BY <1>1, BeforeTotal
    <2>2. \/ Before(Id[list[i].id], Id[list[j].id]) \/ Id[list[i].id] = Id[list[j].id]
          \/ Before(Id[list[j].id], Id[list[i].id])
      BY <1>1, BeforeTotal
    <2> QED
      BY <2>1, <2>2, <1>2, <1>3
  <1>6. ASSUME NEW k \in DOMAIN list, Earlier(list, i, j), Earlier(list, j, k)
        PROVE  Earlier(list, i, k)
    <2>1. Before(list[i].slug, list[j].slug) /\ Before(list[j].slug, list[k].slug)
            => Before(list[i].slug, list[k].slug)
      BY <1>1, BeforeTransitive
    <2>2. Before(Id[list[i].id], Id[list[j].id]) /\ Before(Id[list[j].id], Id[list[k].id])
            => Before(Id[list[i].id], Id[list[k].id])
      BY <1>1, BeforeTransitive
    <2> QED
      BY <2>1, <2>2, <1>3, <1>6
  <1> QED
    BY <1>4, <1>5, <1>6

Needy(list) == {i \in DOMAIN list : NeedsSuffix(list, i)}
Preceding(list, i) == {j \in Needy(list) : Earlier(list, j, i)}
Rank(list, i) == Cardinality(Preceding(list, i)) + 1

LEMMA RankOrders ==
  ASSUME NEW list, IsRoster(list), NEW i \in Needy(list)
  PROVE  /\ IsFiniteSet(Needy(list)) /\ Cardinality(Needy(list)) \in Nat
         /\ Rank(list, i) \in 1 .. Cardinality(Needy(list))
         /\ \A j \in Needy(list) : Rank(list, i) = Rank(list, j) => i = j
  <1>1. IsFiniteSet(DOMAIN list) /\ Needy(list) \subseteq DOMAIN list
    BY RosterFacts DEF Needy
  <1>2. IsFiniteSet(Needy(list))
    BY <1>1, FS_Subset
  <1>3. \A k : Preceding(list, k) \subseteq Needy(list) /\ IsFiniteSet(Preceding(list, k))
    BY <1>2, FS_Subset DEF Preceding
  <1>4. \A k : Cardinality(Preceding(list, k)) \in Nat
    BY <1>3, FS_CardinalityType
  <1>5. Cardinality(Needy(list)) \in Nat
    BY <1>2, FS_CardinalityType
  <1>6. Rank(list, i) \in 1 .. Cardinality(Needy(list))
    <2>1. i \notin Preceding(list, i)
      BY <1>1, EarlierOrders DEF Preceding
    <2>2. Cardinality(Preceding(list, i)) # Cardinality(Needy(list))
      BY <2>1, <1>2, <1>3, FS_Subset
    <2>3. Cardinality(Preceding(list, i)) <= Cardinality(Needy(list))
      BY <1>2, <1>3, FS_Subset
    <2> QED
      BY <2>2, <2>3, <1>4, <1>5, SMT DEF Rank
  <1>7. ASSUME NEW k \in Needy(list), NEW m \in Needy(list), Earlier(list, k, m)
        PROVE  Rank(list, k) # Rank(list, m)
    <2>1. k \in Preceding(list, m) /\ k \notin Preceding(list, k)
      BY <1>1, <1>7, EarlierOrders DEF Preceding
    <2>2. Preceding(list, k) \subseteq Preceding(list, m)
      <3> SUFFICES ASSUME NEW j \in Needy(list), Earlier(list, j, k) PROVE Earlier(list, j, m)
        BY DEF Preceding
      <3>1. j \in DOMAIN list /\ k \in DOMAIN list /\ m \in DOMAIN list
        BY <1>1
      <3> QED
        BY <3>1, <1>7, EarlierOrders
    <2>3. Cardinality(Preceding(list, m)) # Cardinality(Preceding(list, k))
      BY <2>1, <2>2, <1>3, FS_Subset
    <2> QED
      BY <2>3, <1>4, SMT DEF Rank
  <1>8. ASSUME NEW j \in Needy(list), Rank(list, i) = Rank(list, j) PROVE i = j
    <2>1. Earlier(list, i, j) \/ i = j \/ Earlier(list, j, i)
      BY <1>1, EarlierOrders
    <2> QED
      BY <2>1, <1>7, <1>8
  <1> QED
    BY <1>2, <1>5, <1>6, <1>8

(* Sorting leaves nobody out. *)
LEMMA OrderFacts ==
  ASSUME NEW list, IsRoster(list)
  PROVE  /\ Cardinality(Needy(list)) \in Nat /\ Len(Disambiguated(list)) = Cardinality(Needy(list))
         /\ DOMAIN Disambiguated(list) = 1 .. Cardinality(Needy(list))
         /\ \A n \in 1 .. Cardinality(Needy(list)) :
                /\ Disambiguated(list)[n] \in Needy(list)
                /\ Rank(list, Disambiguated(list)[n]) = n
  <1> DEFINE N == Needy(list)
             c == Cardinality(N)
             r == [i \in N |-> Rank(list, i)]
  <1>1. IsFiniteSet(N) /\ c \in Nat
    <2>1. IsFiniteSet(DOMAIN list) /\ N \subseteq DOMAIN list
      BY RosterFacts DEF Needy
    <2>2. IsFiniteSet(N)
      BY <2>1, FS_Subset
    <2> QED
      BY <2>2, FS_CardinalityType
  <1>2. IsFiniteSet(1 .. c) /\ Cardinality(1 .. c) = c
    <2>1. 1 \in Int /\ c \in Int
      BY <1>1, SMT
    <2>2. IsFiniteSet(1 .. c)
      BY <2>1, FS_Interval
    <2>3. \A b \in Int : Cardinality(1 .. b) = IF 1 > b THEN 0 ELSE b - 1 + 1
      BY <2>1, FS_Interval
    <2> HIDE DEF c
    <2>4. Cardinality(1 .. c) = c
      BY <2>3, <1>1, SMT
    <2> QED
      BY <2>2, <2>4
  <1>3. r \in Injection(N, 1 .. c)
    BY RankOrders DEF Injection, IsInjective
  <1>4. r \in Surjection(N, 1 .. c)
    BY <1>1, <1>2, <1>3, FS_Injection
  <1>5. \A n \in 1 .. c : \E i \in N : Rank(list, i) = n
    BY <1>4 DEF Surjection
  <1>6. Disambiguated(list) = [n \in 1 .. c |-> CHOOSE i \in N : Rank(list, i) = n]
    BY DEF Disambiguated, Rank, Preceding, Needy
  <1> HIDE DEF N, c
  <1>7. DOMAIN Disambiguated(list) = 1 .. c /\ Len(Disambiguated(list)) = c
    <2>1. DOMAIN Disambiguated(list) = 1 .. c
      BY <1>6
    <2> QED
      BY <2>1, <1>6, <1>1, SMT
  <1>8. \A n \in 1 .. c : Disambiguated(list)[n] \in N /\ Rank(list, Disambiguated(list)[n]) = n
    BY <1>5, <1>6
  <1> QED
    BY <1>1, <1>7, <1>8 DEF N, c

-------------------------------------------------------------------------------
(* Slugs are sequences of codes, whatever the name.                        *)

LEMMA MinIn ==
  ASSUME NEW T, T \subseteq Nat, T # {}
  PROVE  Min(T) \in T
  <1>1. \E n \in T : \A m \in T : n <= m
    BY LeastNumber
  <1> QED
    BY <1>1 DEF Min

LEMMA MaxIn ==
  ASSUME NEW k \in Nat, NEW T, T \subseteq 0 .. k, T # {}
  PROVE  Max(T) \in T
  <1> DEFINE D == {n \in Nat : \E m \in T : n + m = k}
  <1>1. D # {}
    <2>1. PICK m \in T : TRUE
      OBVIOUS
    <2>2. k - m \in Nat /\ (k - m) + m = k
      BY <2>1, SMT
    <2> QED
      BY <2>2
  <1>2. PICK d \in D : \A n \in D : d <= n
    BY <1>1, LeastNumber
  <1>3. PICK x \in T : d + x = k
    BY <1>2
  <1>4. \A y \in T : x >= y
    <2> TAKE y \in T
    <2>1. k - y \in Nat /\ (k - y) + y = k
      BY SMT
    <2>2. d <= k - y
      BY <2>1, <1>2
    <2>3. d \in Nat /\ x \in 0 .. k /\ y \in 0 .. k
      BY <1>2
    <2> HIDE DEF D
    <2> QED
      BY <2>2, <2>3, <1>3, SMT
  <1> QED
    BY <1>4 DEF Max

LEMMA DashedType ==
  ASSUME NEW slug \in Seq(Nat), NEW code \in Nat
  PROVE  Dashed(slug, code) \in Seq(Nat)
  <1>1. Append(slug, code) \in Seq(Nat)
    BY SMT
  <1> QED
    BY <1>1 DEF Dashed

(* The loop over a name's codes. *)
Dashes(codes, k, f) ==
    f = [n \in 0 .. k |-> IF n = 0 THEN <<>> ELSE Dashed(f[n - 1], codes[n])]

LEMMA DashesExists ==
  ASSUME NEW codes, NEW k \in Nat
  PROVE  \E f : Dashes(codes, k, f)
  <1> DEFINE B == {m \in Nat : ~ \E f : Dashes(codes, m, f)}
  <1> SUFFICES ASSUME B # {} PROVE FALSE
    OBVIOUS
  <1>1. PICK n \in B : \A m \in B : n <= m
    BY LeastNumber
  <1>2. n # 0
    <2>1. Dashes(codes, 0, [m \in 0 .. 0 |-> <<>>])
      BY SMT DEF Dashes
    <2> QED
      BY <2>1
  <1>3. n - 1 \in Nat /\ ~(n <= n - 1)
    BY <1>2, SMT
  <1>4. PICK f : Dashes(codes, n - 1, f)
    BY <1>1, <1>3
  <1> DEFINE g == [m \in 0 .. n |-> IF m < n THEN f[m] ELSE Dashed(f[n - 1], codes[n])]
  <1>5. Dashes(codes, n, g)
    BY <1>3, <1>4, SMT DEF Dashes
  <1> QED
    BY <1>5

LEMMA DashesType ==
  ASSUME NEW codes \in Seq(Nat), NEW f, Dashes(codes, Len(codes), f)
  PROVE  f[Len(codes)] \in Seq(Nat)
  <1>1. Len(codes) \in Nat /\ \A n \in 1 .. Len(codes) : codes[n] \in Nat
    BY SMT
  <1> DEFINE B == {n \in 0 .. Len(codes) : f[n] \notin Seq(Nat)}
  <1> SUFFICES ASSUME B # {} PROVE FALSE
    BY <1>1, SMT
  <1>2. B \subseteq Nat
    BY <1>1, SMT
  <1>3. PICK n \in B : \A m \in B : n <= m
    BY <1>2, LeastNumber
  <1>4. n # 0
    <2>1. 0 \in 0 .. Len(codes) /\ <<>> \in Seq(Nat)
      BY <1>1, SMT
    <2>2. f[0] = <<>>
      BY <2>1 DEF Dashes
    <2> QED
      BY <2>1, <2>2, <1>3
  <1>5. n - 1 \in 0 .. Len(codes) /\ n \in 1 .. Len(codes) /\ ~(n <= n - 1)
    BY <1>1, <1>3, <1>4, SMT
  <1>6. f[n - 1] \in Seq(Nat)
    BY <1>3, <1>5
  <1>7. f[n] = Dashed(f[n - 1], codes[n])
    BY <1>3, <1>4 DEF Dashes
  <1> QED
    BY <1>1, <1>3, <1>5, <1>6, <1>7, DashedType

LEMMA SlugType ==
  ASSUME NEW codes \in Seq(Nat)
  PROVE  Slug(codes) \in Seq(Nat)
  <1>1. Len(codes) \in Nat
    BY SMT
  <1>2. \E f : Dashes(codes, Len(codes), f)
    BY <1>1, DashesExists
  <1> DEFINE trimmed(all) ==
                LET solid == {i \in DOMAIN all : all[i] # Dash}
                IN  IF solid = {} THEN Participant ELSE SubSeq(all, Min(solid), Max(solid))
  <1>3. \E f : Dashes(codes, Len(codes), f) /\ Slug(codes) = trimmed(f[Len(codes)])
    BY <1>2 DEF Slug, Dashes
  <1>4. PICK f : Dashes(codes, Len(codes), f) /\ Slug(codes) = trimmed(f[Len(codes)])
    BY <1>3
  <1> DEFINE all == f[Len(codes)]
             solid == {i \in DOMAIN all : all[i] # Dash}
  <1>5. all \in Seq(Nat)
    BY <1>4, DashesType
  <1>6. Slug(codes) = IF solid = {} THEN Participant ELSE SubSeq(all, Min(solid), Max(solid))
    BY <1>4
  <1>7. CASE solid = {}
    BY <1>6, <1>7, ParticipantsAssumption
  <1>8. CASE solid # {}
    <2>1. solid \subseteq 1 .. Len(all) /\ Len(all) \in Nat
      <3> HIDE DEF all
      <3> QED
        BY <1>5, SMT
    <2>2. solid \subseteq Nat /\ solid \subseteq 0 .. Len(all)
      <3> HIDE DEF all, solid
      <3> QED
        BY <2>1, SMT
    <2>3. Min(solid) \in solid /\ Max(solid) \in solid
      BY <2>1, <2>2, <1>8, MinIn, MaxIn
    <2>4. Min(solid) \in 1 .. Len(all) /\ Max(solid) \in 1 .. Len(all)
      BY <2>1, <2>3
    <2> HIDE DEF all, solid
    <2>5. \A a, b \in 1 .. Len(all) : SubSeq(all, a, b) \in Seq(Nat)
      BY <1>5, SMT
    <2> QED
      BY <2>4, <2>5, <1>6, <1>8
  <1> QED
    BY <1>7, <1>8

(* The loop over a name's characters. *)
Joined(name, n, before) == IF n = 0 THEN <<>> ELSE before \o Decomposed[name[n]]
Joins(name, k, f) == f = [n \in 0 .. k |-> Joined(name, n, f[n - 1])]

LEMMA JoinsExists ==
  ASSUME NEW name, NEW k \in Nat
  PROVE  \E f : Joins(name, k, f)
  <1> DEFINE B == {m \in Nat : ~ \E f : Joins(name, m, f)}
  <1> SUFFICES ASSUME B # {} PROVE FALSE
    OBVIOUS
  <1>1. PICK n \in B : \A m \in B : n <= m
    BY LeastNumber
  <1>2. \A x, y : Joined(name, 0, x) = Joined(name, 0, y)
    BY DEF Joined
  <1>3. n # 0
    <2>1. Joins(name, 0, [m \in 0 .. 0 |-> Joined(name, 0, <<>>)])
      BY <1>2, SMT DEF Joins
    <2> QED
      BY <2>1
  <1>4. n - 1 \in Nat /\ ~(n <= n - 1)
    BY <1>3, SMT
  <1>5. PICK f : Joins(name, n - 1, f)
    BY <1>1, <1>4
  <1> DEFINE g == [m \in 0 .. n |-> IF m < n THEN f[m] ELSE Joined(name, n, f[n - 1])]
  <1>6. Joins(name, n, g)
    BY <1>2, <1>4, <1>5, SMT DEF Joins
  <1> QED
    BY <1>6

LEMMA JoinsType ==
  ASSUME NEW name \in Seq(DOMAIN Decomposed), NEW f, Joins(name, Len(name), f)
  PROVE  f[Len(name)] \in Seq(Nat)
  <1>1. Len(name) \in Nat /\ \A n \in 1 .. Len(name) : name[n] \in DOMAIN Decomposed
    BY SMT
  <1>2. \A n \in 1 .. Len(name) : Decomposed[name[n]] \in Seq(Nat)
    BY <1>1, ParticipantsAssumption
  <1> DEFINE B == {n \in 0 .. Len(name) : f[n] \notin Seq(Nat)}
  <1> SUFFICES ASSUME B # {} PROVE FALSE
    BY <1>1, SMT
  <1>3. B \subseteq Nat
    BY <1>1, SMT
  <1>4. PICK n \in B : \A m \in B : n <= m
    BY <1>3, LeastNumber
  <1>5. f[n] = Joined(name, n, f[n - 1])
    BY <1>4 DEF Joins
  <1>6. n # 0
    <2>1. <<>> \in Seq(Nat)
      BY SMT
    <2> QED
      BY <2>1, <1>4, <1>5 DEF Joined
  <1>7. n - 1 \in 0 .. Len(name) /\ n \in 1 .. Len(name) /\ ~(n <= n - 1)
    BY <1>1, <1>4, <1>6, SMT
  <1>8. f[n - 1] \in Seq(Nat)
    BY <1>4, <1>7
  <1>9. \A s, t \in Seq(Nat) : s \o t \in Seq(Nat)
    BY SMT
  <1>10. f[n] = f[n - 1] \o Decomposed[name[n]]
    BY <1>5, <1>6 DEF Joined
  <1> QED
    BY <1>2, <1>4, <1>7, <1>8, <1>9, <1>10

DisplayNames == Seq(DOMAIN Decomposed) \cup {NoName}

LEMMA CodesType ==
  ASSUME NEW a \in Actors, NEW name \in DisplayNames
  PROVE  Codes(a, name) \in Seq(Nat)
  <1>1. CASE name = NoName
    <2>1. Id[a] \in Seq(Nat \ {Dash}) /\ Len(Id[a]) = IdLength
      BY ParticipantsAssumption
    <2>2. IdLength \in Nat /\ ShortId \in 1 .. IdLength
      BY ParticipantsAssumption
    <2>3. RoleWord[Role[a]] \in Seq(Nat)
      BY ParticipantsAssumption
    <2>4. \A q \in Seq(Nat \ {Dash}), n \in Nat : n <= Len(q) => SubSeq(q, 1, n) \in Seq(Nat)
      BY SMT
    <2>5. ShortId \in Nat /\ ShortId <= IdLength
      BY <2>2, SMT
    <2>6. SubSeq(Id[a], 1, ShortId) \in Seq(Nat)
      BY <2>1, <2>4, <2>5
    <2>7. \A s, t \in Seq(Nat) : s \o t \in Seq(Nat)
      BY SMT
    <2> QED
      BY <2>3, <2>6, <2>7, <1>1 DEF Codes
  <1>2. CASE name # NoName
    <2>1. name \in Seq(DOMAIN Decomposed)
      BY <1>2 DEF DisplayNames
    <2>2. Len(name) \in Nat
      BY <2>1, SMT
    <2>3. \E f : Joins(name, Len(name), f)
      BY <2>2, JoinsExists
    <2>4. \E f : Joins(name, Len(name), f) /\ Codes(a, name) = f[Len(name)]
      BY <2>3, <1>2 DEF Codes, Joins, Joined
    <2> QED
      BY <2>1, <2>4, JoinsType
  <1> QED
    BY <1>1, <1>2

LEMMA ListedType ==
  ASSUME NEW a \in Actors, NEW name \in DisplayNames
  PROVE  Listed(a, name) \in [id : Actors, slug : Seq(Nat)] /\ Listed(a, name).id = a
  <1>1. Slug(Codes(a, name)) \in Seq(Nat)
    BY CodesType, SlugType
  <1> QED
    BY <1>1 DEF Listed

(* The people in the room, and nobody twice. *)
LEMMA SnapshotType ==
  ASSUME AgentInv
  PROVE  /\ IsFiniteSet(Snapshot)
         /\ Snapshot \subseteq [id : Actors, slug : Seq(Nat)]
         /\ \A p, q \in Snapshot : p.id = q.id => p = q
  <1> DEFINE P == [id : Actors, slug : Seq(Nat)]
             single(S) == \A p, q \in S : p.id = q.id => p = q
  <1>1. \A S, T : S \subseteq P /\ T \subseteq P => Override(S, T) \subseteq P
    BY DEF Override
  <1>2. \A S, T : single(S) /\ single(T) => single(Override(S, T))
    BY DEF Override
  <1>3. /\ {CodexName, ActionItemsName} \subseteq DisplayNames
        /\ \A a \in Speakers \cup Joiners : Names[a] \subseteq DisplayNames
    <2>1. {CodexName, ActionItemsName} \cup UNION {Names[a] : a \in People} \subseteq DisplayNames
      BY ParticipantsAssumption DEF DisplayNames
    <2> QED
      BY <2>1 DEF People
  <1>4. \A a \in Actors : spoken[a] # Silent => spoken[a] \in DisplayNames
    <2>1. NoName \in DisplayNames
      BY DEF DisplayNames
    <2>2. \A a \in Actors : spoken[a] \in (UNION {Names[b] : b \in Speakers})
                             \cup {Silent, CodexName, ActionItemsName, NoName}
      BY DEF AgentInv
    <2> QED
      BY <2>1, <2>2, <1>3
  <1>5. \A a \in Actors : presence[a].name \in DisplayNames
    <2>1. NoName \in DisplayNames
      BY DEF DisplayNames
    <2>2. \A a \in Actors : presence[a].name \in (UNION {Names[b] : b \in Joiners}) \cup {NoName}
      BY DEF AgentInv
    <2> QED
      BY <2>1, <2>2, <1>3
  <1>6. FromEvents \subseteq P /\ single(FromEvents)
    <2>1. \A p \in FromEvents : \E a \in Actors :
            p = Listed(a, spoken[a]) /\ spoken[a] \in DisplayNames
      BY <1>4 DEF FromEvents
    <2>2. ASSUME NEW p \in FromEvents PROVE p \in P /\ p = Listed(p.id, spoken[p.id])
      <3>1. PICK a \in Actors : p = Listed(a, spoken[a]) /\ spoken[a] \in DisplayNames
        BY <2>1
      <3>2. p \in P /\ p.id = a
        BY <3>1, ListedType
      <3> QED
        BY <3>1, <3>2
    <2> QED
      BY <2>2
  <1>7. FromPresence \subseteq P /\ single(FromPresence)
    <2>1. \A p \in FromPresence : \E a \in Actors :
            p = Listed(a, presence[a].name) /\ presence[a].name \in DisplayNames
      BY <1>5 DEF FromPresence
    <2>2. ASSUME NEW p \in FromPresence PROVE p \in P /\ p = Listed(p.id, presence[p.id].name)
      <3>1. PICK a \in Actors :
                p = Listed(a, presence[a].name) /\ presence[a].name \in DisplayNames
        BY <2>1
      <3>2. p \in P /\ p.id = a
        BY <3>1, ListedType
      <3> QED
        BY <3>1, <3>2
    <2> QED
      BY <2>2
  <1>8. /\ ActionItemsAgent \in P /\ CodexAgent \in P
    <2>1. Codex \in Actors /\ ActionItems \in Actors
      BY DEF Actors
    <2> QED
      BY <2>1, <1>3, ListedType DEF ActionItemsAgent, CodexAgent
  <1>9. Snapshot \subseteq P /\ single(Snapshot)
    <2> DEFINE known == Override(Override({ActionItemsAgent}, FromEvents), FromPresence)
    <2>1. single({ActionItemsAgent}) /\ single({CodexAgent})
      OBVIOUS
    <2>2. Snapshot = IF enabled THEN Override(known, {CodexAgent}) ELSE known
      BY DEF Snapshot
    <2>3. {ActionItemsAgent} \subseteq P /\ {CodexAgent} \subseteq P
      BY <1>8
    <2> HIDE DEF P, single
    <2>4. known \subseteq P
      BY <2>3, <1>1, <1>6, <1>7
    <2>5. single(known)
      BY <2>1, <1>2, <1>6, <1>7
    <2> HIDE DEF known
    <2>6. Override(known, {CodexAgent}) \subseteq P /\ single(Override(known, {CodexAgent}))
      BY <2>1, <2>3, <2>4, <2>5, <1>1, <1>2
    <2> QED
      BY <2>2, <2>4, <2>5, <2>6
  <1>10. IsFiniteSet(Actors)
    <2>1. IsFiniteSet(People)
      BY ParticipantsAssumption
    <2>2. IsFiniteSet({Codex, ActionItems, Reference})
      <3>1. IsFiniteSet({Codex})
        BY FS_Singleton
      <3>2. IsFiniteSet({Codex} \cup {ActionItems})
        BY <3>1, FS_AddElement
      <3>3. IsFiniteSet(({Codex} \cup {ActionItems}) \cup {Reference})
        BY <3>2, FS_AddElement
      <3>4. {Codex, ActionItems, Reference} = ({Codex} \cup {ActionItems}) \cup {Reference}
        OBVIOUS
      <3> QED
        BY <3>3, <3>4
    <2> QED
      BY <2>1, <2>2, FS_Union DEF Actors
  <1>11. IsFiniteSet(Snapshot)
    <2> DEFINE f == [p \in Snapshot |-> p.id]
    <2>1. f \in Injection(Snapshot, Actors)
      BY <1>9 DEF Injection, IsInjective
    <2> QED
      BY <2>1, <1>10, FS_Injection
  <1> QED
    BY <1>9, <1>11

LEMMA SnapshotRoster ==
  ASSUME AgentInv
  PROVE  IsRoster(Ordered(Snapshot))
  <1> DEFINE c == Cardinality(Snapshot)
             list == Ordered(Snapshot)
             P == [id : Actors, slug : Seq(Nat)]
  <1>1. c \in Nat /\ \E f : f \in [1 .. c -> Snapshot] /\ IsInjective(f)
    BY SnapshotType, FS_CardinalityType DEF ExistsBijection, Bijection, Injection
  <1>2. list \in [1 .. c -> Snapshot] /\ IsInjective(list)
    BY <1>1 DEF Ordered
  <1> HIDE DEF c, list
  <1>3. list \in [1 .. c -> P]
    BY <1>2, SnapshotType
  <1>4. \A i, j \in DOMAIN list : list[i].id = list[j].id => i = j
    BY <1>2, SnapshotType DEF IsInjective
  <1>5. list \in Seq(P)
    <2> HIDE DEF P
    <2> QED
      BY <1>1, <1>3, SMT
  <1> QED
    BY <1>4, <1>5 DEF IsRoster, list

-------------------------------------------------------------------------------
(* Tokens are distinct.                                                    *)

(* There are more numbers than tokens taken. *)
LEMMA NumberFree ==
  ASSUME NEW q \in Seq(Nat), NEW taken, IsFiniteSet(taken)
  PROVE  \E d \in 2 .. Cardinality(taken) + 2 : q \o <<Dash, d>> \notin taken
  <1> DEFINE c == Cardinality(taken)
             f == [d \in 2 .. c + 2 |-> q \o <<Dash, d>>]
  <1> SUFFICES ASSUME \A d \in 2 .. c + 2 : q \o <<Dash, d>> \in taken PROVE FALSE
    OBVIOUS
  <1>1. c \in Nat
    BY FS_CardinalityType
  <1>2. f \in [2 .. c + 2 -> taken]
    OBVIOUS
  <1> HIDE DEF c
  <1>3. IsFiniteSet(2 .. c + 2)
    <2>1. 2 \in Int /\ c + 2 \in Int
      BY <1>1, SMT
    <2> QED
      BY <2>1, FS_Interval
  <1>4. c < Cardinality(2 .. c + 2)
    <2>1. 2 \in Int /\ c + 2 \in Int
      BY <1>1, SMT
    <2>2. \A b \in Int : Cardinality(2 .. b) = IF 2 > b THEN 0 ELSE b - 2 + 1
      BY <2>1, FS_Interval
    <2>3. Cardinality(2 .. c + 2) = IF 2 > c + 2 THEN 0 ELSE (c + 2) - 2 + 1
      BY <2>1, <2>2
    <2> QED
      BY <2>3, <1>1, SMT
  <1>5. PICK x, y \in 2 .. c + 2 : x # y /\ f[x] = f[y]
    <2> HIDE DEF f
    <2> QED
      BY <1>2, <1>3, <1>4, FS_PigeonHole DEF c
  <1>6. q \o <<Dash, x>> = q \o <<Dash, y>>
    BY <1>5
  <1>7. x \in Nat /\ y \in Nat
    BY <1>1, <1>5, SMT
  <1>8. \A d \in Nat : (q \o <<Dash, d>>)[Len(q) + 2] = d
    BY SMT DEF Dash
  <1> QED
    BY <1>5, <1>6, <1>7, <1>8

LEMMA FreeTokenFree ==
  ASSUME NEW p \in [id : Actors, slug : Seq(Nat)], NEW length \in Nat,
         NEW taken, IsFiniteSet(taken)
  PROVE  FreeToken(p, length, taken) \notin taken
  <1> DEFINE longer == {n \in length .. IdLength : Suffixed(p, n) \notin taken}
             q == Suffixed(p, IdLength)
             numbers == {d \in 2 .. Cardinality(taken) + 2 : q \o <<Dash, d>> \notin taken}
  <1>1. FreeToken(p, length, taken) =
            IF longer # {} THEN Suffixed(p, Min(longer)) ELSE q \o <<Dash, Min(numbers)>>
    BY DEF FreeToken
  <1>2. IdLength \in Nat /\ Cardinality(taken) \in Nat
    BY ParticipantsAssumption, FS_CardinalityType
  <1>3. q \in Seq(Nat)
    <2>1. Id[p.id] \in Seq(Nat \ {Dash}) /\ Len(Id[p.id]) = IdLength /\ p.slug \in Seq(Nat)
      BY ParticipantsAssumption
    <2>2. \A s \in Seq(Nat \ {Dash}) : SubSeq(s, 1, Len(s)) \in Seq(Nat)
      BY SMT
    <2>3. \A s, t \in Seq(Nat) : (s \o <<Dash>>) \o t \in Seq(Nat)
      BY SMT DEF Dash
    <2> QED
      BY <2>1, <2>2, <2>3 DEF Suffixed
  <1>4. CASE longer # {}
    <2>1. longer \subseteq Nat
      BY <1>2, SMT
    <2>2. Min(longer) \in longer
      BY <2>1, <1>4, MinIn
    <2> QED
      BY <2>2, <1>1, <1>4
  <1>5. CASE longer = {}
    <2>1. numbers \subseteq Nat
      <3> HIDE DEF q
      <3> QED
        BY <1>2, SMT
    <2>2. numbers # {}
      <3> HIDE DEF q
      <3> QED
        BY <1>3, NumberFree
    <2>3. Min(numbers) \in numbers
      BY <2>1, <2>2, MinIn
    <2>4. q \o <<Dash, Min(numbers)>> \notin taken
      BY <2>3
    <2> QED
      BY <2>4, <1>1, <1>5
  <1> QED
    BY <1>4, <1>5

LEMMA SuffixLengthType ==
  ASSUME NEW list, NEW i
  PROVE  SuffixLength(list, i) \in Nat
  <1>1. IdLength \in Nat /\ ShortId \in 1 .. IdLength
    BY ParticipantsAssumption
  <1>2. ShortId .. IdLength \subseteq Nat /\ IdLength \in ShortId .. IdLength
    BY <1>1, SMT
  <1>3. \E T : T \subseteq Nat /\ IdLength \in T /\ SuffixLength(list, i) = Min(T)
    BY <1>2 DEF SuffixLength
  <1> QED
    BY <1>3, MinIn

BareTokens(list) ==
    {[id |-> list[i].id, token |-> list[i].slug] :
        i \in {j \in DOMAIN list : ~NeedsSuffix(list, j) /\ ~Pinned(list[j])}}
PinnedTokens(list) ==
    {[id |-> Codex, token |-> CodexToken] : i \in {j \in DOMAIN list : Pinned(list[j])}}

(* The loop that gives suffixes. *)
Assigns(list, k, f) ==
    f = [n \in 0 .. k |->
            IF n = 0 THEN [tokens |-> BareTokens(list) \cup PinnedTokens(list),
                           taken |-> Occupied(list)]
            ELSE Assign(list, f[n - 1], Disambiguated(list)[n])]

LEMMA AssignsExists ==
  ASSUME NEW list, NEW k \in Nat
  PROVE  \E f : Assigns(list, k, f)
  <1> DEFINE start == [tokens |-> BareTokens(list) \cup PinnedTokens(list),
                       taken |-> Occupied(list)]
             order == Disambiguated(list)
             loop(m, f) == f = [n \in 0 .. m |-> IF n = 0 THEN start
                                                 ELSE Assign(list, f[n - 1], order[n])]
             B == {m \in Nat : ~ \E f : loop(m, f)}
  <1>1. \A m, f : Assigns(list, m, f) <=> loop(m, f)
    BY DEF Assigns
  <1> HIDE DEF start, order, loop
  <1> SUFFICES ASSUME B # {} PROVE FALSE
    BY <1>1
  <1> USE DEF loop
  <1>2. PICK n \in B : \A m \in B : n <= m
    BY LeastNumber
  <1>3. n # 0
    <2>1. loop(0, [m \in 0 .. 0 |-> start])
      BY SMT
    <2> QED
      BY <2>1
  <1>4. n - 1 \in Nat /\ ~(n <= n - 1)
    BY <1>3, SMT
  <1>5. PICK f : loop(n - 1, f)
    BY <1>2, <1>4
  <1> DEFINE g == [m \in 0 .. n |-> IF m < n THEN f[m] ELSE Assign(list, f[n - 1], order[n])]
  <1>6. loop(n, g)
    BY <1>4, <1>5, SMT
  <1> QED
    BY <1>6

LEMMA TokensAreAssigned ==
  ASSUME NEW list, IsRoster(list)
  PROVE  \E f : Assigns(list, Cardinality(Needy(list)), f)
                /\ Tokens(list) = f[Cardinality(Needy(list))].tokens
  <1>1. /\ Cardinality(Needy(list)) \in Nat
        /\ Len(Disambiguated(list)) = Cardinality(Needy(list))
    BY OrderFacts
  <1>2. \E f : Assigns(list, Cardinality(Needy(list)), f)
    BY <1>1, AssignsExists
  <1> QED
    BY <1>1, <1>2 DEF Tokens, Assigns, BareTokens, PinnedTokens

LEMMA OccupiedFinite ==
  ASSUME NEW list, IsRoster(list)
  PROVE  IsFiniteSet(Occupied(list))
  <1> DEFINE I == {j \in DOMAIN list : ~NeedsSuffix(list, j)}
             T == {list[i].slug : i \in I}
             f == [i \in I |-> list[i].slug]
  <1>1. IsFiniteSet(I)
    <2>1. IsFiniteSet(DOMAIN list) /\ I \subseteq DOMAIN list
      BY RosterFacts
    <2> QED
      BY <2>1, FS_Subset
  <1>2. IsFiniteSet(T)
    <2>1. f \in Surjection(I, T)
      BY DEF Surjection
    <2> QED
      BY <2>1, <1>1, FS_Surjection
  <1>3. IsFiniteSet(Aliases \cup {CodexToken})
    BY ParticipantsAssumption, FS_AddElement
  <1>4. Occupied(list) = (Aliases \cup {CodexToken}) \cup T
    BY DEF Occupied
  <1> HIDE DEF T
  <1> QED
    BY <1>2, <1>3, <1>4, FS_Union

(* Whatever has been given is taken, distinct and nobody else's. *)
GivenInv(list, sofar) ==
    /\ IsFiniteSet(sofar.taken)
    /\ Occupied(list) \subseteq sofar.taken
    /\ \A x \in sofar.tokens : x.token \in sofar.taken
    /\ \A x, y \in sofar.tokens : x.token = y.token => x = y
    /\ \A x \in sofar.tokens :
        x.token \notin Aliases /\ (x.token = CodexToken => x.id = Codex)

LEMMA GivenAtFirst ==
  ASSUME NEW list, IsRoster(list)
  PROVE  GivenInv(list, [tokens |-> BareTokens(list) \cup PinnedTokens(list),
                         taken |-> Occupied(list)])
  <1> DEFINE start == [tokens |-> BareTokens(list) \cup PinnedTokens(list),
                       taken |-> Occupied(list)]
  <1>1. \A x \in BareTokens(list) : \E i \in DOMAIN list :
            /\ ~NeedsSuffix(list, i) /\ ~Pinned(list[i])
            /\ x = [id |-> list[i].id, token |-> list[i].slug]
    BY DEF BareTokens
  <1>2. ASSUME NEW i \in DOMAIN list, ~NeedsSuffix(list, i), ~Pinned(list[i])
        PROVE  /\ list[i].slug \in Occupied(list) /\ list[i].slug \notin Aliases \cup {CodexToken}
               /\ \A j \in DOMAIN list : list[j].slug = list[i].slug => i = j
    <2>1. list[i].slug \in Occupied(list)
      BY <1>2 DEF Occupied
    <2> QED
      BY <2>1, <1>2 DEF NeedsSuffix
  <1>3. \A x \in BareTokens(list) :
            x.token \in Occupied(list) /\ x.token \notin Aliases \cup {CodexToken}
    <2> TAKE x \in BareTokens(list)
    <2>1. PICK i \in DOMAIN list : /\ ~NeedsSuffix(list, i) /\ ~Pinned(list[i])
                                   /\ x = [id |-> list[i].id, token |-> list[i].slug]
      BY <1>1
    <2>2. x.token = list[i].slug
      BY <2>1
    <2> QED
      BY <2>1, <2>2, <1>2
  <1>4. ASSUME NEW x \in BareTokens(list), NEW y \in BareTokens(list), x.token = y.token
        PROVE  x = y
    <2>1. PICK i \in DOMAIN list : /\ ~NeedsSuffix(list, i) /\ ~Pinned(list[i])
                                   /\ x = [id |-> list[i].id, token |-> list[i].slug]
      BY <1>1
    <2>2. PICK j \in DOMAIN list : /\ ~NeedsSuffix(list, j) /\ ~Pinned(list[j])
                                   /\ y = [id |-> list[j].id, token |-> list[j].slug]
      BY <1>1
    <2>3. list[j].slug = list[i].slug
      BY <2>1, <2>2, <1>4
    <2>4. i = j
      BY <2>1, <2>3, <1>2
    <2> QED
      BY <2>1, <2>2, <2>4
  <1>5. \A x \in PinnedTokens(list) : x.token = CodexToken /\ x.id = Codex
    <2> TAKE x \in PinnedTokens(list)
    <2>1. x = [id |-> Codex, token |-> CodexToken]
      BY DEF PinnedTokens
    <2> QED
      BY <2>1, SMT
  <1>6. \A x, y \in PinnedTokens(list) : x = y
    BY DEF PinnedTokens
  <1>7. CodexToken \in Occupied(list) /\ CodexToken \notin Aliases
    BY CodexTokenAssumption DEF Occupied
  <1>8. start.tokens = BareTokens(list) \cup PinnedTokens(list) /\ start.taken = Occupied(list)
    OBVIOUS
  <1> HIDE DEF start
  <1>9. IsFiniteSet(start.taken) /\ Occupied(list) \subseteq start.taken
    BY <1>8, OccupiedFinite
  <1>10. \A x \in start.tokens : x.token \in start.taken
    BY <1>3, <1>5, <1>7, <1>8
  <1>11. \A x, y \in start.tokens : x.token = y.token => x = y
    BY <1>3, <1>4, <1>5, <1>6, <1>8
  <1>12. \A x \in start.tokens : x.token \notin Aliases /\ (x.token = CodexToken => x.id = Codex)
    BY <1>3, <1>5, <1>7, <1>8
  <1> QED
    BY <1>9, <1>10, <1>11, <1>12 DEF GivenInv, start

LEMMA GivenStep ==
  ASSUME NEW list, IsRoster(list), NEW i \in DOMAIN list, NEW sofar, GivenInv(list, sofar)
  PROVE  GivenInv(list, Assign(list, sofar, i))
  <1> DEFINE token == FreeToken(list[i], SuffixLength(list, i), sofar.taken)
             new == [id |-> list[i].id, token |-> token]
             next == Assign(list, sofar, i)
  <1>1. IsFiniteSet(sofar.taken) /\ Occupied(list) \subseteq sofar.taken
    BY DEF GivenInv
  <1>2. token \notin sofar.taken
    <2>1. list[i] \in [id : Actors, slug : Seq(Nat)]
      <3> DEFINE P == [id : Actors, slug : Seq(Nat)]
      <3>1. list \in Seq(P)
        BY DEF IsRoster
      <3> HIDE DEF P
      <3>2. list[i] \in P
        BY <3>1, SMT
      <3> QED
        BY <3>2 DEF P
    <2> QED
      BY <2>1, <1>1, SuffixLengthType, FreeTokenFree
  <1>3. next.tokens = sofar.tokens \cup {new} /\ next.taken = sofar.taken \cup {token}
    BY DEF Assign
  <1>4. new.token = token
    OBVIOUS
  <1>5. token \notin Aliases /\ token # CodexToken
    BY <1>1, <1>2 DEF Occupied
  <1> HIDE DEF token, new, next
  <1>6. IsFiniteSet(next.taken) /\ Occupied(list) \subseteq next.taken
    <2>1. IsFiniteSet(sofar.taken \cup {token})
      BY <1>1, FS_AddElement
    <2> QED
      BY <2>1, <1>1, <1>3
  <1>7. \A x \in sofar.tokens : x.token \in sofar.taken
    BY DEF GivenInv
  <1>8. \A x \in next.tokens : x.token \in next.taken
    BY <1>3, <1>4, <1>7
  <1>9. \A x, y \in next.tokens : x.token = y.token => x = y
    <2>1. \A x, y \in sofar.tokens : x.token = y.token => x = y
      BY DEF GivenInv
    <2> QED
      BY <2>1, <1>2, <1>3, <1>4, <1>7
  <1>10. \A x \in next.tokens : x.token \notin Aliases /\ (x.token = CodexToken => x.id = Codex)
    <2>1. \A x \in sofar.tokens : x.token \notin Aliases /\ (x.token = CodexToken => x.id = Codex)
      BY DEF GivenInv
    <2> QED
      BY <2>1, <1>3, <1>4, <1>5
  <1> QED
    BY <1>6, <1>8, <1>9, <1>10 DEF GivenInv, next

LEMMA GivenAtLast ==
  ASSUME NEW list, IsRoster(list)
  PROVE  \E sofar : GivenInv(list, sofar) /\ Tokens(list) = sofar.tokens
  <1> DEFINE c == Cardinality(Needy(list))
             order == Disambiguated(list)
             start == [tokens |-> BareTokens(list) \cup PinnedTokens(list),
                       taken |-> Occupied(list)]
  <1>1. c \in Nat /\ \A n \in 1 .. c : order[n] \in DOMAIN list
    BY OrderFacts DEF Needy
  <1>2. PICK f : Assigns(list, c, f) /\ Tokens(list) = f[c].tokens
    BY TokensAreAssigned
  <1>3. GivenInv(list, start)
    BY GivenAtFirst
  <1>4. f = [n \in 0 .. c |-> IF n = 0 THEN start ELSE Assign(list, f[n - 1], order[n])]
    BY <1>2 DEF Assigns
  <1> HIDE DEF c, order, start
  <1> DEFINE B == {n \in 0 .. c : ~GivenInv(list, f[n])}
  <1>5. ASSUME B # {} PROVE FALSE
    <2>1. B \subseteq Nat
      BY <1>1, SMT
    <2>2. PICK n \in B : \A m \in B : n <= m
      BY <1>5, <2>1, LeastNumber
    <2>3. n # 0
      BY <1>3, <1>4, <2>2
    <2>4. n - 1 \in 0 .. c /\ n \in 1 .. c /\ ~(n <= n - 1)
      BY <1>1, <2>2, <2>3, SMT
    <2>5. GivenInv(list, f[n - 1])
      BY <2>2, <2>4
    <2>6. f[n] = Assign(list, f[n - 1], order[n])
      BY <1>4, <2>2, <2>3
    <2>7. GivenInv(list, f[n])
      BY <2>4, <2>5, <2>6, <1>1, GivenStep
    <2> QED
      BY <2>2, <2>7
  <1>6. c \in 0 .. c
    BY <1>1, SMT
  <1> QED
    BY <1>2, <1>5, <1>6

(* Whatever people call themselves, and however many of them have the same *)
(* name, everyone in the room always has a token of their own, which is    *)
(* no alias and not the Codex agent's (participant_mention_tokens).        *)
THEOREM TokensAlwaysDistinct == Spec => []TokensDistinct
  <1>1. AgentInv => TokensDistinct
    <2> SUFFICES ASSUME AgentInv PROVE TokensDistinct
      OBVIOUS
    <2>1. PICK sofar : GivenInv(Ordered(Snapshot), sofar) /\ TokensOf(Snapshot) = sofar.tokens
      BY SnapshotRoster, GivenAtLast DEF TokensOf
    <2>2. \A x, y \in sofar.tokens : x.token = y.token => x = y
      BY <2>1 DEF GivenInv
    <2>3. \A x \in sofar.tokens :
            x.token \notin Aliases /\ (x.token = CodexToken => x.id = Codex)
      BY <2>1 DEF GivenInv
    <2> QED
      BY <2>1, <2>2, <2>3 DEF TokensDistinct
  <1> QED
    BY <1>1, AgentInvHolds, PTL

(* A message with mentions always reaches its sender, the owners of the    *)
(* tokens it shows and those its aliases stand for, and nobody else        *)
(* (validate_mentions, resolve_chat_audience).                             *)
THEOREM MessagesAlwaysReachTheNamed == Spec => []MessagesReachTheNamed
  BY TokensAlwaysDistinct, TokensDecideAudience, PTL

-------------------------------------------------------------------------------
(* Tokens do not depend on the order of the roster.                        *)

(* other is list in another order: at says where an entry was. *)
Reorders(list, other, at) ==
    /\ other = [i \in DOMAIN list |-> list[at[i]]]
    /\ \A i \in DOMAIN list : at[i] \in DOMAIN list
    /\ \A i, j \in DOMAIN list : at[i] = at[j] => i = j
    /\ \A k \in DOMAIN list : \E i \in DOMAIN list : at[i] = k

LEMMA ReorderedRoster ==
  ASSUME NEW list, NEW other, NEW at, IsRoster(list), Reorders(list, other, at)
  PROVE  IsRoster(other)
  <1> DEFINE P == [id : Actors, slug : Seq(Nat)]
  <1>1. list \in Seq(P) /\ \A i, j \in DOMAIN list : list[i].id = list[j].id => i = j
    BY DEF IsRoster
  <1> HIDE DEF P
  <1>2. Len(list) \in Nat /\ DOMAIN list = 1 .. Len(list) /\ \A i \in DOMAIN list : list[i] \in P
    BY <1>1, SMT
  <1>3. other = [i \in 1 .. Len(list) |-> list[at[i]]]
    BY <1>2 DEF Reorders
  <1>4. \A i \in 1 .. Len(list) : list[at[i]] \in P
    BY <1>2 DEF Reorders
  <1>5. other \in [1 .. Len(list) -> P]
    BY <1>3, <1>4
  <1>6. other \in Seq(P)
    BY <1>2, <1>5, SMT
  <1>7. \A i, j \in DOMAIN other : other[i].id = other[j].id => i = j
    <2>1. DOMAIN other = DOMAIN list /\ \A i \in DOMAIN list : other[i] = list[at[i]]
      BY DEF Reorders
    <2>2. \A i \in DOMAIN list : at[i] \in DOMAIN list
      BY DEF Reorders
    <2>3. \A i, j \in DOMAIN list : at[i] = at[j] => i = j
      BY DEF Reorders
    <2> SUFFICES ASSUME NEW i \in DOMAIN list, NEW j \in DOMAIN list, other[i].id = other[j].id
                 PROVE  i = j
      BY <2>1
    <2>4. list[at[i]].id = list[at[j]].id
      BY <2>1
    <2> QED
      BY <2>2, <2>3, <2>4, <1>1
  <1> QED
    BY <1>6, <1>7 DEF IsRoster, P

Permutes(D, at) ==
    /\ \A i \in D : at[i] \in D
    /\ \A i, j \in D : at[i] = at[j] => i = j
    /\ \A k \in D : \E i \in D : at[i] = k
Corresponds(D, at, S, T) == \A i \in D : i \in S <=> at[i] \in T

(* Corresponding sets of positions are of the same size. *)
LEMMA SameSize ==
  ASSUME NEW D, NEW at, Permutes(D, at), IsFiniteSet(D),
         NEW S \in SUBSET D, NEW T \in SUBSET D, Corresponds(D, at, S, T)
  PROVE  Cardinality(S) = Cardinality(T)
  <1> DEFINE f == [i \in S |-> at[i]]
  <1>1. f \in Injection(S, T)
    <2>1. \A i, j \in D : at[i] = at[j] => i = j
      BY DEF Permutes
    <2>2. f \in [S -> T]
      BY DEF Corresponds
    <2>3. \A i, j \in S : f[i] = f[j] => i = j
      BY <2>1
    <2> QED
      BY <2>2, <2>3 DEF Injection, IsInjective
  <1>2. f \in Surjection(S, T)
    <2>1. f \in [S -> T]
      BY <1>1 DEF Injection
    <2>2. \A t \in T : \E i \in S : f[i] = t
      BY DEF Permutes, Corresponds
    <2> QED
      BY <2>1, <2>2 DEF Surjection
  <1>3. IsFiniteSet(S)
    BY FS_Subset
  <1> HIDE DEF f
  <1>4. ExistsBijection(S, T)
    BY <1>1, <1>2 DEF ExistsBijection, Bijection
  <1> QED
    BY <1>3, <1>4, FS_Bijection

LEMMA SameNeeds ==
  ASSUME NEW list, NEW other, NEW at, Reorders(list, other, at), NEW i \in DOMAIN list
  PROVE  NeedsSuffix(other, i) <=> NeedsSuffix(list, at[i])
  <1> DEFINE D == DOMAIN list
  <1>1. DOMAIN other = D /\ \A j \in D : other[j] = list[at[j]]
    BY DEF Reorders
  <1>2. \A j \in D : at[j] \in D
    BY DEF Reorders
  <1>3. \A j, k \in D : at[j] = at[k] => j = k
    BY DEF Reorders
  <1>4. \A k \in D : \E j \in D : at[j] = k
    BY DEF Reorders
  <1>7. i \in D
    OBVIOUS
  <1> HIDE DEF D
  <1>5. (\E j \in D \ {i} : other[j].slug = other[i].slug)
        <=> (\E k \in D \ {at[i]} : list[k].slug = list[at[i]].slug)
    <2>1. ASSUME NEW j \in D \ {i}, other[j].slug = other[i].slug
          PROVE  \E k \in D \ {at[i]} : list[k].slug = list[at[i]].slug
      <3>1. at[j] \in D \ {at[i]} /\ other[j] = list[at[j]]
        BY <1>1, <1>2, <1>3, <1>7
      <3> QED
        BY <3>1, <2>1, <1>1, <1>7
    <2>2. ASSUME NEW k \in D \ {at[i]}, list[k].slug = list[at[i]].slug
          PROVE  \E j \in D \ {i} : other[j].slug = other[i].slug
      <3>1. PICK j \in D : at[j] = k
        BY <1>4
      <3>2. j # i /\ other[j] = list[k]
        BY <3>1, <1>1
      <3> QED
        BY <3>1, <3>2, <2>2, <1>1, <1>7
    <2> QED
      BY <2>1, <2>2
  <1>6. other[i] = list[at[i]]
    BY <1>1 DEF D
  <1> QED
    BY <1>1, <1>5, <1>6 DEF NeedsSuffix, D

LEMMA SameOccupied ==
  ASSUME NEW list, NEW other, NEW at, Reorders(list, other, at)
  PROVE  /\ Occupied(other) = Occupied(list)
         /\ BareTokens(other) = BareTokens(list) /\ PinnedTokens(other) = PinnedTokens(list)
  <1> DEFINE D == DOMAIN list
  <1>1. DOMAIN other = D /\ \A i \in D : at[i] \in D /\ other[i] = list[at[i]]
    BY DEF Reorders
  <1>2. \A k \in D : \E i \in D : at[i] = k
    BY DEF Reorders
  <1>3. \A i \in D : NeedsSuffix(other, i) <=> NeedsSuffix(list, at[i])
    BY SameNeeds
  <1> HIDE DEF D
  <1>4. {other[i].slug : i \in {j \in D : ~NeedsSuffix(other, j)}}
        = {list[i].slug : i \in {j \in D : ~NeedsSuffix(list, j)}}
    <2> DEFINE A == {j \in D : ~NeedsSuffix(other, j)}
               C == {j \in D : ~NeedsSuffix(list, j)}
               slug(p) == p.slug
    <2>1. \A i \in A : at[i] \in C /\ slug(other[i]) = slug(list[at[i]])
      BY <1>1, <1>3
    <2>2. \A k \in C : \E i \in A : slug(other[i]) = slug(list[k])
      <3> TAKE k \in C
      <3>1. PICK i \in D : at[i] = k
        BY <1>2
      <3> QED
        BY <3>1, <1>1, <1>3
    <2> HIDE DEF A, C, slug
    <2>3. {slug(other[i]) : i \in A} \subseteq {slug(list[i]) : i \in C}
      BY <2>1
    <2>4. {slug(list[i]) : i \in C} \subseteq {slug(other[i]) : i \in A}
      BY <2>2
    <2> QED
      BY <2>3, <2>4 DEF A, C, slug
  <1>5. Occupied(other) = Occupied(list)
    BY <1>1, <1>4 DEF Occupied, D
  <1>6. BareTokens(other) = BareTokens(list)
    <2> DEFINE bare(l, i) == ~NeedsSuffix(l, i) /\ ~Pinned(l[i])
               token(p) == [id |-> p.id, token |-> p.slug]
    <2>1. \A i \in D : /\ bare(other, i) <=> bare(list, at[i])
                       /\ token(other[i]) = token(list[at[i]])
      BY <1>1, <1>3
    <2>2. /\ BareTokens(other) = {token(other[i]) : i \in {j \in D : bare(other, j)}}
          /\ BareTokens(list) = {token(list[i]) : i \in {j \in D : bare(list, j)}}
      BY <1>1 DEF BareTokens, D
    <2> HIDE DEF bare, token
    <2> DEFINE A == {j \in D : bare(other, j)}
               C == {j \in D : bare(list, j)}
    <2>3. \A i \in A : at[i] \in C /\ token(other[i]) = token(list[at[i]])
      BY <2>1, <1>1
    <2>4. \A k \in C : \E i \in A : token(other[i]) = token(list[k])
      <3> TAKE k \in C
      <3>1. PICK i \in D : at[i] = k
        BY <1>2
      <3> QED
        BY <3>1, <2>1
    <2>5. /\ BareTokens(other) = {token(other[i]) : i \in A}
          /\ BareTokens(list) = {token(list[i]) : i \in C}
      BY <2>2
    <2> HIDE DEF A, C
    <2> QED
      BY <2>3, <2>4, <2>5
  <1>7. PinnedTokens(other) = PinnedTokens(list)
    <2>1. \A i \in D : Pinned(other[i]) <=> Pinned(list[at[i]])
      BY <1>1
    <2>2. (\E i \in D : Pinned(other[i])) <=> (\E i \in D : Pinned(list[i]))
      BY <2>1, <1>1, <1>2
    <2> QED
      BY <2>2, <1>1 DEF PinnedTokens, D
  <1> QED
    BY <1>5, <1>6, <1>7

LEMMA SameNeedy ==
  ASSUME NEW list, NEW other, NEW at, IsRoster(list), Reorders(list, other, at)
  PROVE  /\ Cardinality(Needy(other)) = Cardinality(Needy(list))
         /\ Corresponds(DOMAIN list, at, Needy(other), Needy(list))
  <1> DEFINE D == DOMAIN list
  <1>1. DOMAIN other = D /\ \A i \in D : at[i] \in D
    BY DEF Reorders
  <1>2. IsFiniteSet(D) /\ Permutes(D, at)
    BY RosterFacts DEF Reorders, Permutes
  <1>3. Corresponds(D, at, Needy(other), Needy(list))
    <2>1. \A i \in D : NeedsSuffix(other, i) <=> NeedsSuffix(list, at[i])
      BY SameNeeds
    <2> QED
      BY <2>1, <1>1 DEF Needy, Corresponds
  <1>4. Needy(other) \subseteq D /\ Needy(list) \subseteq D
    BY <1>1 DEF Needy
  <1>5. Cardinality(Needy(other)) = Cardinality(Needy(list))
    BY <1>2, <1>3, <1>4, SameSize
  <1> QED
    BY <1>3, <1>5

LEMMA SameRank ==
  ASSUME NEW list, NEW other, NEW at, IsRoster(list), Reorders(list, other, at),
         NEW i \in DOMAIN list
  PROVE  Rank(other, i) = Rank(list, at[i])
  <1> DEFINE D == DOMAIN list
  <1>1. DOMAIN other = D /\ \A j \in D : at[j] \in D /\ other[j] = list[at[j]]
    BY DEF Reorders
  <1>2. IsRoster(other) /\ IsFiniteSet(D) /\ Permutes(D, at)
    BY ReorderedRoster, RosterFacts DEF Reorders, Permutes
  <1>3. \A j \in D : j \in Needy(other) <=> at[j] \in Needy(list)
    BY SameNeedy DEF Corresponds
  <1>4. ASSUME NEW j \in D PROVE Earlier(other, j, i) <=> Earlier(list, at[j], at[i])
    <2>1. Earlier(other, j, i) <=>
            \/ Before(other[j].slug, other[i].slug)
            \/ other[j].slug = other[i].slug /\ Before(Id[other[j].id], Id[other[i].id])
      BY <1>1, <1>2, EarlierByName
    <2>2. Earlier(list, at[j], at[i]) <=>
            \/ Before(list[at[j]].slug, list[at[i]].slug)
            \/ list[at[j]].slug = list[at[i]].slug /\ Before(Id[list[at[j]].id], Id[list[at[i]].id])
      BY <1>1, EarlierByName
    <2>3. other[i] = list[at[i]] /\ other[j] = list[at[j]]
      BY <1>1
    <2> QED
      BY <2>1, <2>2, <2>3
  <1>5. Preceding(other, i) \subseteq D /\ Preceding(list, at[i]) \subseteq D
    BY <1>1 DEF Preceding, Needy
  <1>6. Corresponds(D, at, Preceding(other, i), Preceding(list, at[i]))
    BY <1>3, <1>4 DEF Preceding, Corresponds
  <1>7. Cardinality(Preceding(other, i)) = Cardinality(Preceding(list, at[i]))
    <2> HIDE DEF D
    <2> QED
      BY <1>2, <1>5, <1>6, SameSize, SMT
  <1> QED
    BY <1>7 DEF Rank

LEMMA SameOrder ==
  ASSUME NEW list, NEW other, NEW at, IsRoster(list), Reorders(list, other, at),
         NEW n \in 1 .. Cardinality(Needy(list))
  PROVE  at[Disambiguated(other)[n]] = Disambiguated(list)[n]
  <1> DEFINE i == Disambiguated(other)[n]
             k == Disambiguated(list)[n]
  <1>1. IsRoster(other) /\ DOMAIN other = DOMAIN list
    BY ReorderedRoster DEF Reorders
  <1>2. Cardinality(Needy(other)) = Cardinality(Needy(list))
    BY SameNeedy
  <1>3. i \in Needy(other) /\ Rank(other, i) = n
    BY <1>1, <1>2, OrderFacts
  <1>4. k \in Needy(list) /\ Rank(list, k) = n
    BY OrderFacts
  <1>5. i \in DOMAIN list
    BY <1>1, <1>3 DEF Needy
  <1> HIDE DEF i, k
  <1>6. at[i] \in Needy(list)
    <2>1. Corresponds(DOMAIN list, at, Needy(other), Needy(list))
      BY SameNeedy
    <2> QED
      BY <2>1, <1>3, <1>5 DEF Corresponds
  <1>7. Rank(list, at[i]) = n
    <2>1. Rank(other, i) = Rank(list, at[i])
      BY <1>5, SameRank, SMT
    <2> QED
      BY <2>1, <1>3
  <1>8. at[i] = k
    BY <1>4, <1>6, <1>7, RankOrders
  <1> QED
    BY <1>8 DEF i, k

(* Those who need a suffix to the name of the one at i. *)
Namesakes(list, i) == {j \in DOMAIN list : NeedsSuffix(list, j) /\ list[j].slug = list[i].slug}
TheirTokens(list, i, n) == {Suffixed(list[j], n) : j \in Namesakes(list, i)}

LEMMA SameLength ==
  ASSUME NEW list, NEW other, NEW at, IsRoster(list), Reorders(list, other, at),
         NEW i \in DOMAIN list
  PROVE  SuffixLength(other, i) = SuffixLength(list, at[i])
  <1> DEFINE D == DOMAIN list
  <1>1. DOMAIN other = D /\ \A j \in D : at[j] \in D /\ other[j] = list[at[j]]
    BY DEF Reorders
  <1>2. \A k \in D : \E j \in D : at[j] = k
    BY DEF Reorders
  <1>3. \A j \in D : j \in Namesakes(other, i) <=> at[j] \in Namesakes(list, at[i])
    <2>1. \A j \in D : NeedsSuffix(other, j) <=> NeedsSuffix(list, at[j])
      BY SameNeeds
    <2> QED
      BY <2>1, <1>1 DEF Namesakes
  <1>4. Namesakes(other, i) \subseteq D /\ Namesakes(list, at[i]) \subseteq D
    BY <1>1 DEF Namesakes
  <1>5. Cardinality(Namesakes(other, i)) = Cardinality(Namesakes(list, at[i]))
    <2>1. IsFiniteSet(D) /\ Permutes(D, at)
      BY RosterFacts DEF Reorders, Permutes
    <2>2. Corresponds(D, at, Namesakes(other, i), Namesakes(list, at[i]))
      BY <1>3 DEF Corresponds
    <2> HIDE DEF D
    <2> QED
      BY <2>1, <2>2, <1>4, SameSize, SMT
  <1>6. ASSUME NEW n PROVE TheirTokens(other, i, n) = TheirTokens(list, at[i], n)
    <2> DEFINE A == Namesakes(other, i)
               C == Namesakes(list, at[i])
    <2> HIDE DEF D
    <2>1. \A j \in A : at[j] \in C /\ Suffixed(other[j], n) = Suffixed(list[at[j]], n)
      BY <1>1, <1>3, <1>4
    <2>2. \A k \in C : \E j \in A : Suffixed(other[j], n) = Suffixed(list[k], n)
      <3> TAKE k \in C
      <3>1. PICK j \in D : at[j] = k
        BY <1>2, <1>4
      <3> QED
        BY <3>1, <1>1, <1>3
    <2>3. /\ TheirTokens(other, i, n) = {Suffixed(other[j], n) : j \in A}
          /\ TheirTokens(list, at[i], n) = {Suffixed(list[j], n) : j \in C}
      BY DEF TheirTokens
    <2> HIDE DEF A, C
    <2>4. {Suffixed(other[j], n) : j \in A} \subseteq {Suffixed(list[j], n) : j \in C}
      BY <2>1
    <2>5. {Suffixed(list[j], n) : j \in C} \subseteq {Suffixed(other[j], n) : j \in A}
      BY <2>2
    <2> QED
      BY <2>3, <2>4, <2>5
  <1>7. Occupied(other) = Occupied(list)
    BY SameOccupied
  <1> DEFINE good(l, j, n) == /\ Cardinality(TheirTokens(l, j, n)) = Cardinality(Namesakes(l, j))
                              /\ TheirTokens(l, j, n) \cap Occupied(l) = {}
             lengths(l, j) == {n \in ShortId .. IdLength : n = IdLength \/ good(l, j, n)}
  <1>8. /\ SuffixLength(other, i) = Min(lengths(other, i))
        /\ SuffixLength(list, at[i]) = Min(lengths(list, at[i]))
    BY DEF SuffixLength, TheirTokens, Namesakes
  <1>9. \A n : good(other, i, n) <=> good(list, at[i], n)
    BY <1>5, <1>6, <1>7
  <1> HIDE DEF good
  <1>10. lengths(other, i) = lengths(list, at[i])
    BY <1>9
  <1> QED
    BY <1>8, <1>10

LEMMA SameTokens ==
  ASSUME NEW list, NEW other, NEW at, IsRoster(list), Reorders(list, other, at)
  PROVE  Tokens(other) = Tokens(list)
  <1> DEFINE c == Cardinality(Needy(list))
             order == Disambiguated(list)
             order2 == Disambiguated(other)
             start == [tokens |-> BareTokens(list) \cup PinnedTokens(list),
                       taken |-> Occupied(list)]
  <1>1. IsRoster(other) /\ DOMAIN other = DOMAIN list /\ Cardinality(Needy(other)) = c
    <2>1. Cardinality(Needy(other)) = c
      BY SameNeedy
    <2>2. IsRoster(other)
      BY ReorderedRoster
    <2> QED
      BY <2>1, <2>2 DEF Reorders
  <1>2. c \in Nat /\ \A n \in 1 .. c : order2[n] \in DOMAIN list
    BY <1>1, OrderFacts DEF Needy
  <1>3. \A n \in 1 .. c : at[order2[n]] = order[n]
    <2> TAKE n \in 1 .. c
    <2> QED
      BY SameOrder, SMT
  <1>4. \A n \in 1 .. c : /\ other[order2[n]] = list[order[n]]
                          /\ SuffixLength(other, order2[n]) = SuffixLength(list, order[n])
    <2> HIDE DEF c, order, order2
    <2> TAKE n \in 1 .. c
    <2>1. order2[n] \in DOMAIN list /\ at[order2[n]] = order[n]
      BY <1>2, <1>3
    <2>2. other[order2[n]] = list[at[order2[n]]]
      BY <2>1 DEF Reorders
    <2>3. SuffixLength(other, order2[n]) = SuffixLength(list, at[order2[n]])
      BY <2>1, SameLength, SMT
    <2> QED
      BY <2>1, <2>2, <2>3
  <1>5. \A n \in 1 .. c : \A sofar : Assign(other, sofar, order2[n]) = Assign(list, sofar, order[n])
    BY <1>4 DEF Assign
  <1>6. PICK f : Assigns(other, c, f) /\ Tokens(other) = f[c].tokens
    BY <1>1, TokensAreAssigned
  <1>7. PICK g : Assigns(list, c, g) /\ Tokens(list) = g[c].tokens
    BY TokensAreAssigned
  <1>8. f = [n \in 0 .. c |-> IF n = 0 THEN start ELSE Assign(other, f[n - 1], order2[n])]
    <2>1. /\ Occupied(other) = Occupied(list)
          /\ BareTokens(other) = BareTokens(list) /\ PinnedTokens(other) = PinnedTokens(list)
      BY SameOccupied
    <2> QED
      BY <1>6, <2>1 DEF Assigns
  <1>9. g = [n \in 0 .. c |-> IF n = 0 THEN start ELSE Assign(list, g[n - 1], order[n])]
    BY <1>7 DEF Assigns
  <1> HIDE DEF c, order, order2, start
  <1> DEFINE B == {n \in 0 .. c : f[n] # g[n]}
  <1>10. ASSUME B # {} PROVE FALSE
    <2>1. B \subseteq Nat
      BY <1>2, SMT
    <2>2. PICK n \in B : \A m \in B : n <= m
      BY <1>10, <2>1, LeastNumber
    <2>3. n # 0
      BY <1>8, <1>9, <2>2
    <2>4. n - 1 \in 0 .. c /\ n \in 1 .. c /\ ~(n <= n - 1)
      BY <1>2, <2>2, <2>3, SMT
    <2>5. f[n - 1] = g[n - 1]
      BY <2>2, <2>4
    <2>6. f[n] = Assign(other, f[n - 1], order2[n])
      BY <1>8, <2>2, <2>3
    <2>7. g[n] = Assign(list, g[n - 1], order[n])
      BY <1>9, <2>2, <2>3
    <2>8. Assign(other, f[n - 1], order2[n]) = Assign(list, f[n - 1], order[n])
      BY <1>5, <2>4
    <2> QED
      BY <2>2, <2>5, <2>6, <2>7, <2>8
  <1>11. c \in 0 .. c
    BY <1>2, SMT
  <1> QED
    BY <1>6, <1>7, <1>10, <1>11

(* A browser, which sorts its list of participants as it likes, and a      *)
(* turn, which reads a HashMap, always compute the tokens that             *)
(* participant_snapshot computes (participant_mention_tokens).             *)
THEOREM TokensNeverDependOnOrder == Spec => []OrderIndependent
  <1>1. AgentInv => OrderIndependent
    <2> SUFFICES ASSUME AgentInv PROVE OrderIndependent
      OBVIOUS
    <2> DEFINE list == Ordered(Snapshot)
    <2>1. IsRoster(list)
      BY SnapshotRoster
    <2> HIDE DEF list
    <2>2. Len(list) \in Nat /\ DOMAIN list = 1 .. Len(list)
      BY <2>1, RosterFacts
    <2>3. ASSUME NEW j \in DOMAIN list PROVE Tokens(Swapped(list, 1, j)) = Tokens(list)
      <3> DEFINE at == [i \in DOMAIN list |-> IF i = 1 THEN j ELSE IF i = j THEN 1 ELSE i]
      <3>1. 1 \in DOMAIN list
        BY <2>2, <2>3, SMT
      <3>2. Swapped(list, 1, j) = [i \in DOMAIN list |-> list[at[i]]]
        BY <3>1, <2>3 DEF Swapped
      <3>3. /\ \A i \in DOMAIN list : at[i] \in DOMAIN list
            /\ \A i, k \in DOMAIN list : at[i] = at[k] => i = k
            /\ \A k \in DOMAIN list : \E i \in DOMAIN list : at[i] = k
        BY <3>1, <2>3
      <3> HIDE DEF at
      <3>4. Reorders(list, Swapped(list, 1, j), at)
        BY <3>2, <3>3 DEF Reorders
      <3> QED
        BY <3>4, <2>1, SameTokens
    <2>4. Tokens(Reversed(list)) = Tokens(list)
      <3> DEFINE at == [i \in DOMAIN list |-> (Len(list) - i) + 1]
      <3>1. Reversed(list) = [i \in DOMAIN list |-> list[at[i]]]
        BY <2>2 DEF Reversed
      <3>2. \A i \in DOMAIN list : at[i] \in DOMAIN list /\ at[at[i]] = i
        BY <2>2, SMT
      <3> HIDE DEF at
      <3>3. Reorders(list, Reversed(list), at)
        BY <3>1, <3>2 DEF Reorders
      <3> QED
        BY <3>3, <2>1, SameTokens
    <2> QED
      BY <2>3, <2>4 DEF OrderIndependent, list
  <1> QED
    BY <1>1, AgentInvHolds, PTL
===============================================================================

--------------------------- MODULE AgentTasksProofs ---------------------------
(***************************************************************************)
(* Proofs about AgentTasks, for any number of tasks, rooms, claim and      *)
(* update requests, tokens and updates, and any lease duration and skew.   *)
(*                                                                         *)
(* The argument: a row that an update request has locked keeps its owner   *)
(* until the request ends (PostInv), since a claim waits for the row; the  *)
(* token of a claim in progress is nobody else's (ClaimInv); the row's     *)
(* state goes with the task's events, and each update event has its row in *)
(* agent_task_updates (HistoryInv).                                        *)
(***************************************************************************)
EXTENDS AgentTasks, TLAPS

(* Most leaves are first-order: Zenon takes them.  A leaf that needs       *)
(* arithmetic or the theory of functions and sequences cites SMT.          *)
USE Zenon

(* What an update request in progress is about; from its row lock on, its  *)
(* task is leased to it.                                                   *)
PostInv ==
    \A u \in Updaters :
        /\ post[u].phase # "idle" =>
            /\ post[u].task \in Tasks
            /\ post[u].token \in issued
            /\ post[u].update \in Updates
        /\ post[u].phase \in {"row", "room"} =>
            /\ rowLock[post[u].task] = u
            /\ task[post[u].task].owner = post[u].token

Active(c) == claim[c].phase # "idle"

(* Leases have issued tokens, and the token of a claim in progress has     *)
(* not been used.                                                          *)
ClaimInv ==
    /\ \A c \in Claimers : Active(c) => claim[c].token \in issued
    /\ \A c, d \in Claimers :
        Active(c) /\ Active(d) /\ claim[c].token = claim[d].token => c = d
    /\ \A t \in Tasks :
        /\ task[t].owner \in issued \cup {None}
        /\ \A i \in DOMAIN history[t] : history[t][i].token \in issued \cup {None}
        /\ \A c \in Claimers : Active(c) =>
            /\ task[t].owner # claim[c].token
            /\ \A i \in DOMAIN history[t] : history[t][i].token # claim[c].token

(* How a row goes with the events of its task. *)
HistoryOf(t) ==
    /\ task[t].state = "absent" <=> history[t] = <<>>
    /\ task[t].state = "absent" => task[t].owner = None
    /\ starting[t] # None => task[t].state = "absent"
    /\ task[t].state \in Terminal => history[t][Len(history[t])].type = task[t].state
    /\ \A i \in DOMAIN history[t] :
        /\ history[t][i].type \in Terminal =>
            i = Len(history[t]) /\ task[t].state \in Terminal
        /\ i > 1 => \E rec \in recorded : rec.task = t /\ rec.id = history[t][i].update

HistoryInv == \A t \in Tasks : HistoryOf(t)

IInv == TypeOK /\ PostInv /\ ClaimInv /\ HistoryInv

(* Appending to a sequence. *)
LEMMA AppendFacts ==
    ASSUME NEW S, NEW q \in Seq(S), NEW e \in S
    PROVE  /\ Append(q, e) \in Seq(S)
           /\ Len(q) \in Nat
           /\ Len(Append(q, e)) = Len(q) + 1
           /\ DOMAIN Append(q, e) = DOMAIN q \cup {Len(q) + 1}
           /\ DOMAIN q = 1 .. Len(q)
           /\ Append(q, e)[Len(q) + 1] = e
           /\ \A i \in DOMAIN q : Append(q, e)[i] = q[i]
           /\ Append(q, e) # <<>>
  BY SMT

(* The steps of Next, one by one. *)
LEMMA NextCases ==
    ASSUME [Next]_vars
    PROVE  \/ Tick \/ Crash \/ UNCHANGED vars
           \/ \E t \in Tasks : StartBegin(t) \/ StartCommit(t)
           \/ \E c \in Claimers :
                \/ ClaimBegin(c) \/ ClaimLock(c) \/ ClaimSelect(c) \/ ClaimGrant(c)
                \/ ClaimRecheck(c) \/ ClaimNothing(c) \/ ClaimFail(c)
           \/ \E u \in Updaters :
                \/ PostBegin(u) \/ PostTransaction(u) \/ PostLockRow(u) \/ PostRefuse(u)
                \/ PostLockRoom(u) \/ PostReplay(u) \/ PostInvalid(u) \/ PostCommit(u)
                \/ PostFail(u)
  BY DEF Next, ClaimStep, PostStep

LEMMA TypeStep ==
    ASSUME TypeOK, PostInv, [Next]_vars
    PROVE  TypeOK'
  <1>1. CASE Tick
    BY <1>1, TasksAssumption, SMT DEF TypeOK, Tick, table
  <1>2. CASE Crash
    BY <1>2, TasksAssumption DEF TypeOK, Crash, NoClaim, NoPost, ClaimRequest, PostRequest
  <1>3. CASE UNCHANGED vars
    BY <1>3, TasksAssumption DEF TypeOK, vars
  <1>4. ASSUME NEW t \in Tasks, StartBegin(t)
        PROVE  TypeOK'
    BY <1>4, TasksAssumption DEF TypeOK, StartBegin
  <1>5. ASSUME NEW t \in Tasks, StartCommit(t)
        PROVE  TypeOK'
    <2> DEFINE row == [state |-> "queued", owner |-> None, expires |-> 0,
                       created |-> starting[t]]
               entry == [type |-> "requested", update |-> None, token |-> None]
    <2>1. row \in Row /\ entry \in Entry
      BY <1>5, SMT DEF StartCommit, TypeOK, Row, Entry, States
    <2>2. /\ task' = [task EXCEPT ![t] = row]
          /\ history' = [history EXCEPT ![t] = <<entry>>]
          /\ starting' = [starting EXCEPT ![t] = None]
          /\ UNCHANGED <<recorded, issued, clock, agentLock, rowLock, roomLock, claim, post>>
      BY <1>5 DEF StartCommit
    <2> HIDE DEF row, entry
    <2> QED
      BY <2>1, <2>2, SMT DEF TypeOK
  <1>6. ASSUME NEW c \in Claimers, ClaimBegin(c)
        PROVE  TypeOK'
    BY <1>6, TasksAssumption, SMT DEF TypeOK, ClaimBegin, HostTimes, ClaimRequest
  <1>7. ASSUME NEW c \in Claimers, ClaimLock(c)
        PROVE  TypeOK'
    <2> DEFINE new == [claim[c] EXCEPT !.phase = "locked"]
    <2>1. claim[c] \in ClaimRequest
      BY DEF TypeOK
    <2>2. new \in ClaimRequest
      BY <2>1 DEF ClaimRequest
    <2>3. /\ claim' = [claim EXCEPT ![c] = new]
          /\ agentLock' = c /\ UNCHANGED <<table, clock, rowLock, roomLock, post>>
      BY <1>7 DEF ClaimLock
    <2> HIDE DEF new
    <2> QED
      BY <2>2, <2>3 DEF TypeOK, table
  <1>8. ASSUME NEW c \in Claimers, ClaimSelect(c)
        PROVE  TypeOK'
    <2> DEFINE new == [claim[c] EXCEPT !.phase = "selected",
                                 !.candidates = {t \in Tasks : Claimable(t, claim[c].now)}]
    <2>1. claim[c] \in ClaimRequest
      BY DEF TypeOK
    <2>2. new \in ClaimRequest
      BY <2>1 DEF ClaimRequest
    <2>3. /\ claim' = [claim EXCEPT ![c] = new]
          /\ UNCHANGED <<table, clock, agentLock, rowLock, roomLock, post>>
      BY <1>8 DEF ClaimSelect
    <2> HIDE DEF new
    <2> QED
      BY <2>2, <2>3 DEF TypeOK, table
  <1>9. ASSUME NEW c \in Claimers, ClaimGrant(c)
        PROVE  TypeOK'
    <2>1. claim[c] \in ClaimRequest /\ NoClaim \in ClaimRequest
      BY DEF TypeOK, NoClaim, ClaimRequest
    <2>2. PICK t \in Tasks : task' = Lease(c, t)
      BY <1>9, <2>1 DEF ClaimGrant, Oldest, ClaimRequest
    <2> DEFINE new == [task[t] EXCEPT !.state = "running", !.owner = claim[c].token,
                                      !.expires = claim[c].now + LeaseDuration]
    <2>3. task[t] \in Row
      BY DEF TypeOK
    <2>4. claim[c].token \in Tokens \cup {None} /\ claim[c].now + LeaseDuration \in Int
      BY <2>1, TasksAssumption, SMT DEF ClaimRequest
    <2>5. new \in Row
      BY <2>3, <2>4 DEF Row, States
    <2>6. /\ task' = [task EXCEPT ![t] = new]
          /\ claim' = [claim EXCEPT ![c] = NoClaim]
          /\ agentLock' \in {None, agentLock}
          /\ UNCHANGED <<starting, history, recorded, issued, clock, rowLock, roomLock, post>>
      BY <1>9, <2>2 DEF ClaimGrant, EndClaim, Lease
    <2> HIDE DEF new
    <2> QED
      BY <2>1, <2>5, <2>6 DEF TypeOK
  <1>10. ASSUME NEW c \in Claimers, ClaimRecheck(c)
        PROVE  TypeOK'
    <2>1. claim[c] \in ClaimRequest
      BY DEF TypeOK
    <2>2. PICK t \in Tasks : claim' = [claim EXCEPT ![c].candidates = @ \ {t}]
      BY <1>10, <2>1 DEF ClaimRecheck, Oldest, ClaimRequest
    <2> DEFINE new == [claim[c] EXCEPT !.candidates = @ \ {t}]
    <2>3. new \in ClaimRequest
      BY <2>1 DEF ClaimRequest
    <2>4. /\ claim' = [claim EXCEPT ![c] = new]
          /\ UNCHANGED <<table, clock, agentLock, rowLock, roomLock, post>>
      BY <1>10, <2>2 DEF ClaimRecheck
    <2> HIDE DEF new
    <2> QED
      BY <2>3, <2>4 DEF TypeOK, table
  <1>11. ASSUME NEW c \in Claimers, ClaimNothing(c)
        PROVE  TypeOK'
    BY <1>11, TasksAssumption DEF TypeOK, ClaimNothing, EndClaim, NoClaim, ClaimRequest,
        table
  <1>12. ASSUME NEW c \in Claimers, ClaimFail(c)
        PROVE  TypeOK'
    BY <1>12, TasksAssumption DEF TypeOK, ClaimFail, EndClaim, NoClaim, ClaimRequest, table
  <1>13. ASSUME NEW u \in Updaters, PostBegin(u)
        PROVE  TypeOK'
    BY <1>13, TasksAssumption, SMT DEF TypeOK, PostBegin, HostTimes, PostRequest, table, PostInv
  <1>14. ASSUME NEW u \in Updaters, PostTransaction(u)
        PROVE  TypeOK'
    <2> DEFINE new == [post[u] EXCEPT !.phase = "begun", !.began = clock]
    <2>1. post[u] \in PostRequest /\ clock \in Nat
      BY DEF TypeOK
    <2>2. new \in PostRequest
      BY <2>1 DEF PostRequest
    <2>3. /\ post' = [post EXCEPT ![u] = new]
          /\ UNCHANGED <<table, clock, agentLock, rowLock, roomLock, claim>>
      BY <1>14 DEF PostTransaction, Mine
    <2> HIDE DEF new
    <2> QED
      BY <2>2, <2>3 DEF TypeOK, table
  <1>15. ASSUME NEW u \in Updaters, PostLockRow(u)
        PROVE  TypeOK'
    <2> DEFINE new == [post[u] EXCEPT !.phase = "row"]
    <2>1. post[u] \in PostRequest /\ clock \in Nat
      BY DEF TypeOK
    <2>2. new \in PostRequest
      BY <2>1 DEF PostRequest
    <2>3. /\ post' = [post EXCEPT ![u] = new]
          /\ rowLock' = [rowLock EXCEPT ![post[u].task] = u]
          /\ UNCHANGED <<table, clock, agentLock, roomLock, claim>>
      BY <1>15 DEF PostLockRow, Mine
    <2> HIDE DEF new
    <2> QED
      BY <2>2, <2>3 DEF TypeOK, table
  <1>16. ASSUME NEW u \in Updaters, PostRefuse(u)
        PROVE  TypeOK'
    BY <1>16, TasksAssumption DEF TypeOK, PostRefuse, EndPost, Release, NoPost,
        PostRequest, table, PostInv
  <1>17. ASSUME NEW u \in Updaters, PostLockRoom(u)
        PROVE  TypeOK'
    <2> DEFINE new == [post[u] EXCEPT !.phase = "room"]
    <2>1. post[u] \in PostRequest /\ clock \in Nat
      BY DEF TypeOK
    <2>2. new \in PostRequest
      BY <2>1 DEF PostRequest
    <2>3. /\ post' = [post EXCEPT ![u] = new]
          /\ roomLock' = [roomLock EXCEPT ![RoomOf[post[u].task]] = u]
          /\ UNCHANGED <<table, clock, agentLock, rowLock, claim>>
      BY <1>17 DEF PostLockRoom, Mine
    <2> HIDE DEF new
    <2> QED
      BY <2>2, <2>3 DEF TypeOK, table
  <1>18. ASSUME NEW u \in Updaters, PostReplay(u)
        PROVE  TypeOK'
    BY <1>18, TasksAssumption DEF TypeOK, PostReplay, EndPost, Release, NoPost,
        PostRequest, table, PostInv
  <1>19. ASSUME NEW u \in Updaters, PostInvalid(u)
        PROVE  TypeOK'
    BY <1>19, TasksAssumption DEF TypeOK, PostInvalid, EndPost, Release, NoPost,
        PostRequest, table, PostInv
  <1>20. ASSUME NEW u \in Updaters, PostCommit(u)
        PROVE  TypeOK'
    <2> DEFINE t == post[u].task
               update == post[u].update
               row == [task[t] EXCEPT !.state = StateFor(update.type)]
               entry == [type |-> update.type, update |-> update.id, token |-> post[u].token]
               rec == [task |-> t, id |-> update.id, index |-> Len(history[t]) + 1]
    <2>1. t \in Tasks /\ update \in Update /\ post[u].token \in Tokens
      BY <1>20, TasksAssumption DEF PostCommit, PostInv, TypeOK
    <2>2. /\ task' = [task EXCEPT ![t] = row]
          /\ history' = [history EXCEPT ![t] = Append(@, entry)]
          /\ recorded' = recorded \cup {rec}
          /\ post' = [post EXCEPT ![u] = NoPost]
          /\ Release(u)
          /\ UNCHANGED <<starting, issued, clock, agentLock, claim>>
      BY <1>20 DEF PostCommit, EndPost, Mine
    <2>3. task[t] \in Row /\ history[t] \in Seq(Entry)
      BY <2>1 DEF TypeOK
    <2>4. row \in Row
      BY <2>1, <2>3 DEF Row, States, StateFor, Update, UpdateTypes
    <2>5. entry \in Entry
      BY <2>1 DEF Entry, Update
    <2>6. Append(history[t], entry) \in Seq(Entry)
      BY <2>3, <2>5, SMT
    <2>7. rec \in [task : Tasks, id : Nat, index : Nat]
      BY <2>1, <2>3, SMT DEF Update
    <2>8. NoPost \in PostRequest
      BY DEF NoPost, PostRequest
    <2> HIDE DEF t, update, row, entry, rec
    <2> QED
      BY <2>1, <2>2, <2>4, <2>6, <2>7, <2>8 DEF TypeOK, Release
  <1>21. ASSUME NEW u \in Updaters, PostFail(u)
        PROVE  TypeOK'
    BY <1>21, TasksAssumption DEF TypeOK, PostFail, EndPost, Release, NoPost, PostRequest,
        table, PostInv
  <1> QED
    BY NextCases, <1>1, <1>2, <1>3, <1>4, <1>5, <1>6, <1>7, <1>8, <1>9, <1>10, <1>11,
        <1>12, <1>13, <1>14, <1>15, <1>16, <1>17, <1>18, <1>19, <1>20, <1>21

LEMMA PostInvStep ==
    ASSUME TypeOK, PostInv, HistoryInv, [Next]_vars
    PROVE  PostInv'
  <1>1. CASE Tick
    BY <1>1, TasksAssumption DEF TypeOK, PostInv, PostRequest, Tick, table
  <1>2. CASE Crash
    BY <1>2, TasksAssumption DEF TypeOK, PostInv, PostRequest, Crash, NoClaim, NoPost
  <1>3. CASE UNCHANGED vars
    BY <1>3, TasksAssumption DEF TypeOK, PostInv, PostRequest, vars
  <1>4. ASSUME NEW t \in Tasks, StartBegin(t)
        PROVE  PostInv'
    BY <1>4, TasksAssumption DEF TypeOK, PostInv, PostRequest, StartBegin
  <1>5. ASSUME NEW t \in Tasks, StartCommit(t)
        PROVE  PostInv'
    BY <1>5, TasksAssumption, SMT DEF TypeOK, PostInv, HistoryInv, HistoryOf, PostRequest,
        StartCommit
  <1>6. ASSUME NEW c \in Claimers, ClaimBegin(c)
        PROVE  PostInv'
    BY <1>6, TasksAssumption DEF TypeOK, PostInv, PostRequest, ClaimBegin
  <1>7. ASSUME NEW c \in Claimers, ClaimLock(c)
        PROVE  PostInv'
    BY <1>7, TasksAssumption DEF TypeOK, PostInv, PostRequest, ClaimLock, table
  <1>8. ASSUME NEW c \in Claimers, ClaimSelect(c)
        PROVE  PostInv'
    BY <1>8, TasksAssumption DEF TypeOK, PostInv, PostRequest, ClaimSelect, table
  <1>9. ASSUME NEW c \in Claimers, ClaimGrant(c)
        PROVE  PostInv'
    BY <1>9, TasksAssumption, SMT DEF TypeOK, PostInv, PostRequest, ClaimGrant, Claimable,
        EndClaim, NoClaim, Lease, Oldest, Row, ClaimRequest
  <1>10. ASSUME NEW c \in Claimers, ClaimRecheck(c)
        PROVE  PostInv'
    BY <1>10, TasksAssumption DEF TypeOK, PostInv, PostRequest, ClaimRecheck, table
  <1>11. ASSUME NEW c \in Claimers, ClaimNothing(c)
        PROVE  PostInv'
    BY <1>11, TasksAssumption DEF TypeOK, PostInv, PostRequest, ClaimNothing, EndClaim,
        NoClaim, table
  <1>12. ASSUME NEW c \in Claimers, ClaimFail(c)
        PROVE  PostInv'
    BY <1>12, TasksAssumption DEF TypeOK, PostInv, PostRequest, ClaimFail, EndClaim,
        NoClaim, table
  <1>13. ASSUME NEW u \in Updaters, PostBegin(u)
        PROVE  PostInv'
    BY <1>13, TasksAssumption, SMT DEF TypeOK, PostInv, PostRequest, PostBegin, table, HoldsLease
  <1>14. ASSUME NEW u \in Updaters, PostTransaction(u)
        PROVE  PostInv'
    BY <1>14, TasksAssumption, SMT DEF TypeOK, PostInv, PostRequest, PostTransaction, table
  <1>15. ASSUME NEW u \in Updaters, PostLockRow(u)
        PROVE  PostInv'
    BY <1>15, TasksAssumption, SMT DEF TypeOK, PostInv, PostRequest, PostLockRow, table, Mine,
        HoldsLease
  <1>16. ASSUME NEW u \in Updaters, PostRefuse(u)
        PROVE  PostInv'
    BY <1>16, TasksAssumption, SMT DEF TypeOK, PostInv, PostRequest, PostRefuse, EndPost,
        Release, NoPost, table
  <1>17. ASSUME NEW u \in Updaters, PostLockRoom(u)
        PROVE  PostInv'
    BY <1>17, TasksAssumption, SMT DEF TypeOK, PostInv, PostRequest, PostLockRoom, table, Mine
  <1>18. ASSUME NEW u \in Updaters, PostReplay(u)
        PROVE  PostInv'
    BY <1>18, TasksAssumption, SMT DEF TypeOK, PostInv, PostRequest, PostReplay, EndPost,
        Release, NoPost, table
  <1>19. ASSUME NEW u \in Updaters, PostInvalid(u)
        PROVE  PostInv'
    BY <1>19, TasksAssumption, SMT DEF TypeOK, PostInv, PostRequest, PostInvalid, EndPost,
        Release, NoPost, table
  <1>20. ASSUME NEW u \in Updaters, PostCommit(u)
        PROVE  PostInv'
    BY <1>20, TasksAssumption, SMT DEF TypeOK, PostInv, PostRequest, PostCommit, EndPost,
        Release, NoPost, Mine, Row
  <1>21. ASSUME NEW u \in Updaters, PostFail(u)
        PROVE  PostInv'
    BY <1>21, TasksAssumption, SMT DEF TypeOK, PostInv, PostRequest, PostFail, EndPost, Release,
        NoPost, table
  <1> QED
    BY NextCases, <1>1, <1>2, <1>3, <1>4, <1>5, <1>6, <1>7, <1>8, <1>9, <1>10,
       <1>11, <1>12, <1>13, <1>14, <1>15, <1>16, <1>17, <1>18, <1>19, <1>20,
       <1>21

LEMMA ClaimInvStep ==
    ASSUME TypeOK, PostInv, ClaimInv, [Next]_vars
    PROVE  ClaimInv'
  <1>1. CASE Tick
    BY <1>1, TasksAssumption, SMT DEF TypeOK, PostInv, ClaimInv, Active, ClaimRequest, Tick,
        table
  <1>2. CASE Crash
    BY <1>2, TasksAssumption DEF TypeOK, PostInv, ClaimInv, Active, ClaimRequest, Crash,
        NoClaim, NoPost
  <1>3. CASE UNCHANGED vars
    BY <1>3, TasksAssumption, SMT DEF TypeOK, PostInv, ClaimInv, Active, ClaimRequest, vars
  <1>4. ASSUME NEW t \in Tasks, StartBegin(t)
        PROVE  ClaimInv'
    BY <1>4, TasksAssumption, SMT DEF TypeOK, PostInv, ClaimInv, Active, ClaimRequest, StartBegin
  <1>5. ASSUME NEW t \in Tasks, StartCommit(t)
        PROVE  ClaimInv'
    BY <1>5, TasksAssumption, SMT DEF TypeOK, PostInv, ClaimInv, Active, ClaimRequest,
        StartCommit
  <1>6. ASSUME NEW c \in Claimers, ClaimBegin(c)
        PROVE  ClaimInv'
    BY <1>6, TasksAssumption, SMT DEF TypeOK, PostInv, ClaimInv, Active, ClaimRequest, ClaimBegin
  <1>7. ASSUME NEW c \in Claimers, ClaimLock(c)
        PROVE  ClaimInv'
    BY <1>7, TasksAssumption, SMT DEF TypeOK, PostInv, ClaimInv, Active, ClaimRequest,
        ClaimLock, table
  <1>8. ASSUME NEW c \in Claimers, ClaimSelect(c)
        PROVE  ClaimInv'
    BY <1>8, TasksAssumption, SMT DEF TypeOK, PostInv, ClaimInv, Active, ClaimRequest,
        ClaimSelect, table
  <1>9. ASSUME NEW c \in Claimers, ClaimGrant(c)
        PROVE  ClaimInv'
    BY <1>9, TasksAssumption, SMTT(30) DEF TypeOK, PostInv, ClaimInv, Active, ClaimRequest,
        ClaimGrant, Claimable, EndClaim, NoClaim, Lease, Oldest, Row, ClaimRequest
  <1>10. ASSUME NEW c \in Claimers, ClaimRecheck(c)
        PROVE  ClaimInv'
    BY <1>10, TasksAssumption, SMT DEF TypeOK, PostInv, ClaimInv, Active, ClaimRequest,
        ClaimRecheck, table
  <1>11. ASSUME NEW c \in Claimers, ClaimNothing(c)
        PROVE  ClaimInv'
    BY <1>11, TasksAssumption, SMT DEF TypeOK, PostInv, ClaimInv, Active, ClaimRequest,
        ClaimNothing, EndClaim, NoClaim, table
  <1>12. ASSUME NEW c \in Claimers, ClaimFail(c)
        PROVE  ClaimInv'
    BY <1>12, TasksAssumption, SMT DEF TypeOK, PostInv, ClaimInv, Active, ClaimRequest,
        ClaimFail, EndClaim, NoClaim, table
  <1>13. ASSUME NEW u \in Updaters, PostBegin(u)
        PROVE  ClaimInv'
    BY <1>13, TasksAssumption, SMT DEF TypeOK, PostInv, ClaimInv, Active, ClaimRequest,
        PostBegin, table, HoldsLease
  <1>14. ASSUME NEW u \in Updaters, PostTransaction(u)
        PROVE  ClaimInv'
    BY <1>14, TasksAssumption, SMT DEF TypeOK, PostInv, ClaimInv, Active, ClaimRequest,
        PostTransaction, table
  <1>15. ASSUME NEW u \in Updaters, PostLockRow(u)
        PROVE  ClaimInv'
    BY <1>15, TasksAssumption, SMT DEF TypeOK, PostInv, ClaimInv, Active, ClaimRequest,
        PostLockRow, table, Mine, HoldsLease
  <1>16. ASSUME NEW u \in Updaters, PostRefuse(u)
        PROVE  ClaimInv'
    BY <1>16, TasksAssumption, SMT DEF TypeOK, PostInv, ClaimInv, Active, ClaimRequest,
        PostRefuse, EndPost, Release, NoPost, table
  <1>17. ASSUME NEW u \in Updaters, PostLockRoom(u)
        PROVE  ClaimInv'
    BY <1>17, TasksAssumption, SMT DEF TypeOK, PostInv, ClaimInv, Active, ClaimRequest,
        PostLockRoom, table, Mine
  <1>18. ASSUME NEW u \in Updaters, PostReplay(u)
        PROVE  ClaimInv'
    BY <1>18, TasksAssumption, SMT DEF TypeOK, PostInv, ClaimInv, Active, ClaimRequest,
        PostReplay, EndPost, Release, NoPost, table
  <1>19. ASSUME NEW u \in Updaters, PostInvalid(u)
        PROVE  ClaimInv'
    BY <1>19, TasksAssumption, SMT DEF TypeOK, PostInv, ClaimInv, Active, ClaimRequest,
        PostInvalid, EndPost, Release, NoPost, table
  <1>20. ASSUME NEW u \in Updaters, PostCommit(u)
        PROVE  ClaimInv'
    <2> DEFINE t == post[u].task
               update == post[u].update
               entry == [type |-> update.type, update |-> update.id, token |-> post[u].token]
    <2>1. /\ t \in Tasks /\ task[t].owner = post[u].token /\ post[u].token \in issued
          /\ update \in Update
      BY <1>20, TasksAssumption DEF PostCommit, PostInv
    <2>2. /\ history' = [history EXCEPT ![t] = Append(@, entry)]
          /\ history[t] \in Seq(Entry)
          /\ \A o \in Tasks : task'[o].owner = task[o].owner
          /\ UNCHANGED <<issued, claim>>
      BY <1>20, <2>1, SMT DEF PostCommit, Mine, TypeOK, Row
    <2>3. \A i \in DOMAIN history'[t] :
            \/ i \in DOMAIN history[t] /\ history'[t][i] = history[t][i]
            \/ history'[t][i] = entry
      BY <2>1, <2>2, SMT DEF TypeOK
    <2>4. entry.token = task[t].owner
      BY <2>1
    <2>5. \A o \in Tasks : o # t => history'[o] = history[o]
      BY <2>2 DEF TypeOK
    <2> HIDE DEF t, entry
    <2> QED
      BY <2>1, <2>2, <2>3, <2>4, <2>5, SMT DEF ClaimInv, Active
  <1>21. ASSUME NEW u \in Updaters, PostFail(u)
        PROVE  ClaimInv'
    BY <1>21, TasksAssumption, SMT DEF TypeOK, PostInv, ClaimInv, Active, ClaimRequest,
        PostFail, EndPost, Release, NoPost, table
  <1> QED
    BY NextCases, <1>1, <1>2, <1>3, <1>4, <1>5, <1>6, <1>7, <1>8, <1>9, <1>10,
       <1>11, <1>12, <1>13, <1>14, <1>15, <1>16, <1>17, <1>18, <1>19, <1>20,
       <1>21

LEMMA HistoryInvStep ==
    ASSUME TypeOK, PostInv, HistoryInv, [Next]_vars
    PROVE  HistoryInv'
  <1>1. CASE Tick
    BY <1>1, TasksAssumption, SMT DEF TypeOK, PostInv, HistoryInv, HistoryOf, Open, Terminal,
        Tick, table
  <1>2. CASE Crash
    BY <1>2, TasksAssumption, SMT DEF TypeOK, PostInv, HistoryInv, HistoryOf, Open, Terminal,
        Crash, NoClaim, NoPost
  <1>3. CASE UNCHANGED vars
    BY <1>3, TasksAssumption, SMT DEF TypeOK, PostInv, HistoryInv, HistoryOf, Open, Terminal,
        vars
  <1>4. ASSUME NEW t \in Tasks, StartBegin(t)
        PROVE  HistoryInv'
    BY <1>4, TasksAssumption, SMT DEF TypeOK, PostInv, HistoryInv, HistoryOf, Open, Terminal,
        StartBegin
  <1>5. ASSUME NEW t \in Tasks, StartCommit(t)
        PROVE  HistoryInv'
    BY <1>5, TasksAssumption, SMT DEF TypeOK, PostInv, HistoryInv, HistoryOf, Open, Terminal,
        StartCommit
  <1>6. ASSUME NEW c \in Claimers, ClaimBegin(c)
        PROVE  HistoryInv'
    BY <1>6, TasksAssumption, SMT DEF TypeOK, PostInv, HistoryInv, HistoryOf, Open, Terminal,
        ClaimBegin
  <1>7. ASSUME NEW c \in Claimers, ClaimLock(c)
        PROVE  HistoryInv'
    BY <1>7, TasksAssumption, SMT DEF TypeOK, PostInv, HistoryInv, HistoryOf, Open, Terminal,
        ClaimLock, table
  <1>8. ASSUME NEW c \in Claimers, ClaimSelect(c)
        PROVE  HistoryInv'
    BY <1>8, TasksAssumption, SMT DEF TypeOK, PostInv, HistoryInv, HistoryOf, Open, Terminal,
        ClaimSelect, table
  <1>9. ASSUME NEW c \in Claimers, ClaimGrant(c)
        PROVE  HistoryInv'
    BY <1>9, TasksAssumption, SMTT(30) DEF TypeOK, PostInv, HistoryInv, HistoryOf, Open, Terminal,
        ClaimGrant, Claimable, EndClaim, NoClaim, Lease, Oldest, Row, ClaimRequest
  <1>10. ASSUME NEW c \in Claimers, ClaimRecheck(c)
        PROVE  HistoryInv'
    BY <1>10, TasksAssumption, SMT DEF TypeOK, PostInv, HistoryInv, HistoryOf, Open, Terminal,
        ClaimRecheck, table
  <1>11. ASSUME NEW c \in Claimers, ClaimNothing(c)
        PROVE  HistoryInv'
    BY <1>11, TasksAssumption, SMT DEF TypeOK, PostInv, HistoryInv, HistoryOf, Open, Terminal,
        ClaimNothing, EndClaim, NoClaim, table
  <1>12. ASSUME NEW c \in Claimers, ClaimFail(c)
        PROVE  HistoryInv'
    BY <1>12, TasksAssumption, SMT DEF TypeOK, PostInv, HistoryInv, HistoryOf, Open, Terminal,
        ClaimFail, EndClaim, NoClaim, table
  <1>13. ASSUME NEW u \in Updaters, PostBegin(u)
        PROVE  HistoryInv'
    BY <1>13, TasksAssumption, SMT DEF TypeOK, PostInv, HistoryInv, HistoryOf, Open, Terminal,
        PostBegin, table, HoldsLease
  <1>14. ASSUME NEW u \in Updaters, PostTransaction(u)
        PROVE  HistoryInv'
    BY <1>14, TasksAssumption, SMT DEF TypeOK, PostInv, HistoryInv, HistoryOf, Open, Terminal,
        PostTransaction, table
  <1>15. ASSUME NEW u \in Updaters, PostLockRow(u)
        PROVE  HistoryInv'
    BY <1>15, TasksAssumption, SMT DEF TypeOK, PostInv, HistoryInv, HistoryOf, Open, Terminal,
        PostLockRow, table, Mine, HoldsLease
  <1>16. ASSUME NEW u \in Updaters, PostRefuse(u)
        PROVE  HistoryInv'
    BY <1>16, TasksAssumption, SMT DEF TypeOK, PostInv, HistoryInv, HistoryOf, Open, Terminal,
        PostRefuse, EndPost, Release, NoPost, table
  <1>17. ASSUME NEW u \in Updaters, PostLockRoom(u)
        PROVE  HistoryInv'
    BY <1>17, TasksAssumption, SMT DEF TypeOK, PostInv, HistoryInv, HistoryOf, Open, Terminal,
        PostLockRoom, table, Mine
  <1>18. ASSUME NEW u \in Updaters, PostReplay(u)
        PROVE  HistoryInv'
    BY <1>18, TasksAssumption, SMT DEF TypeOK, PostInv, HistoryInv, HistoryOf, Open, Terminal,
        PostReplay, EndPost, Release, NoPost, table
  <1>19. ASSUME NEW u \in Updaters, PostInvalid(u)
        PROVE  HistoryInv'
    BY <1>19, TasksAssumption, SMT DEF TypeOK, PostInv, HistoryInv, HistoryOf, Open, Terminal,
        PostInvalid, EndPost, Release, NoPost, table
  <1>20. ASSUME NEW u \in Updaters, PostCommit(u)
        PROVE  HistoryInv'
    <2>0. PICK t \in Tasks : t = post[u].task
      BY <1>20 DEF PostCommit, PostInv
    <2> DEFINE update == post[u].update
               entry == [type |-> update.type, update |-> update.id, token |-> post[u].token]
               rec == [task |-> t, id |-> update.id, index |-> Len(history[t]) + 1]
    <2>1. t \in Tasks /\ update \in Update
      BY <1>20, TasksAssumption DEF PostCommit, PostInv
    <2>2. /\ history' = [history EXCEPT ![t] = Append(@, entry)]
          /\ recorded' = recorded \cup {rec}
          /\ task[t].state \in Open
          /\ task' = [task EXCEPT ![t].state = StateFor(update.type)]
          /\ UNCHANGED starting
      BY <1>20, <2>0 DEF PostCommit, Mine
    <2>3. /\ history[t] \in Seq(Entry) /\ history[t] # <<>>
          /\ task[t] \in Row
          /\ \A i \in DOMAIN history[t] : history[t][i].type \notin Terminal
      BY <2>1, <2>2, SMT DEF TypeOK, HistoryInv, HistoryOf, Open, Terminal
    <2>4. /\ history'[t] = Append(history[t], entry)
          /\ task'[t].state = StateFor(update.type)
          /\ task'[t].owner = task[t].owner
          /\ \A o \in Tasks : o # t => history'[o] = history[o] /\ task'[o] = task[o]
      BY <2>1, <2>2, <2>3 DEF TypeOK, Row
    <2>5. /\ Len(history[t]) \in Nat
          /\ Len(history'[t]) = Len(history[t]) + 1
          /\ DOMAIN history'[t] = DOMAIN history[t] \cup {Len(history[t]) + 1}
          /\ DOMAIN history[t] = 1 .. Len(history[t])
          /\ history'[t][Len(history[t]) + 1] = entry
          /\ \A i \in DOMAIN history[t] : history'[t][i] = history[t][i]
          /\ history'[t] # <<>>
      <3>1. entry \in Entry
        BY <1>20, <2>1 DEF PostCommit, PostInv, TypeOK, Entry, Update
      <3> HIDE DEF entry
      <3> QED
        BY <3>1, <2>3, <2>4, AppendFacts, SMT
    <2>6. /\ StateFor(update.type) \in Terminal <=> update.type \in Terminal
          /\ update.type \in Terminal => StateFor(update.type) = update.type
          /\ StateFor(update.type) # "absent"
      BY <2>1 DEF StateFor, Terminal, Update, UpdateTypes
    <2>7. rec \in recorded' /\ rec.task = t /\ rec.id = entry.update
      BY <2>2
    <2>8. entry.type = update.type
      OBVIOUS
    <2>9. starting[t] = None
      BY <2>1, <2>2 DEF HistoryInv, HistoryOf, Open
    <2>10. recorded \subseteq recorded'
      BY <2>2
    <2>11. UNCHANGED starting
      BY <2>2
    <2>12. /\ task[t].state # "absent"
           /\ \A i \in DOMAIN history[t] :
                i > 1 => \E r \in recorded : r.task = t /\ r.id = history[t][i].update
      BY <2>1, <2>2 DEF HistoryInv, HistoryOf, Open
    <2> HIDE DEF update, entry, rec
    <2>13. ASSUME NEW o \in Tasks, o # t
           PROVE  HistoryOf(o)'
      BY <2>4, <2>10, <2>11, <2>13, SMT DEF HistoryInv, HistoryOf
    <2>14. HistoryOf(t)'
      <3>1. ASSUME NEW i \in DOMAIN history'[t], i > 1
            PROVE  \E r \in recorded' : r.task = t /\ r.id = history'[t][i].update
        BY <3>1, <2>5, <2>7, <2>10, <2>12, SMT
      <3>2. ASSUME NEW i \in DOMAIN history'[t], history'[t][i].type \in Terminal
            PROVE  i = Len(history'[t]) /\ task'[t].state \in Terminal
        BY <3>2, <2>3, <2>4, <2>5, <2>6, <2>8
      <3>3. task'[t].state \in Terminal =>
                history'[t][Len(history'[t])].type = task'[t].state
        BY <2>4, <2>5, <2>6, <2>8
      <3> QED
        BY <3>1, <3>2, <3>3, <2>4, <2>5, <2>6, <2>9, <2>11 DEF HistoryOf
    <2> QED
      BY <2>13, <2>14 DEF HistoryInv
  <1>21. ASSUME NEW u \in Updaters, PostFail(u)
        PROVE  HistoryInv'
    BY <1>21, TasksAssumption, SMT DEF TypeOK, PostInv, HistoryInv, HistoryOf, Open, Terminal,
        PostFail, EndPost, Release, NoPost, table
  <1> QED
    BY NextCases, <1>1, <1>2, <1>3, <1>4, <1>5, <1>6, <1>7, <1>8, <1>9, <1>10,
       <1>11, <1>12, <1>13, <1>14, <1>15, <1>16, <1>17, <1>18, <1>19, <1>20,
       <1>21

-------------------------------------------------------------------------------
(* The invariant holds at first and every step keeps it. *)
LEMMA InitIInv == Init => IInv
  <1> SUFFICES ASSUME Init PROVE IInv
    OBVIOUS
  <1>1. TypeOK
    BY TasksAssumption, SMT DEF Init, TypeOK, Row, States, NoClaim, NoPost, ClaimRequest,
        PostRequest
  <1>2. PostInv /\ ClaimInv /\ HistoryInv
    BY SMT DEF Init, PostInv, ClaimInv, Active, HistoryInv, HistoryOf, Terminal, NoClaim, NoPost
  <1> QED
    BY <1>1, <1>2 DEF IInv

LEMMA IInvStep == IInv /\ [Next]_vars => IInv'
  BY TypeStep, PostInvStep, ClaimInvStep, HistoryInvStep DEF IInv

(* Every behaviour of the claim and update endpoints keeps the invariant.  *)
THEOREM InvariantHolds == Spec => []IInv
  BY InitIInv, IInvStep, PTL DEF Spec

(* The tables, the locks and the locals of the claim and update requests   *)
(* keep their types (agent_service.rs claim and update).                   *)
THEOREM TypesHold == Spec => []TypeOK
  BY InvariantHolds, PTL DEF IInv

(* A terminal event stays the last event of its task, and a row whose task *)
(* ended is never reopened, whichever claim was waiting for the row        *)
(* (claim_oldest_queued_agent_task, record_agent_task_update_with_outcome). *)
THEOREM TerminalStays == Spec => []TerminalIsFinal
  <1>1. IInv => TerminalIsFinal
    BY DEF IInv, HistoryInv, HistoryOf, TerminalIsFinal
  <1> QED
    BY <1>1, InvariantHolds, PTL

-------------------------------------------------------------------------------
(* Only the commit of a start, of a claim and of an update change a task   *)
(* or its events.                                                          *)
LEMMA TaskSteps ==
    ASSUME [Next]_vars
    PROVE  \/ UNCHANGED <<task, history>>
           \/ \E t \in Tasks : StartCommit(t)
           \/ \E c \in Claimers : ClaimGrant(c)
           \/ \E u \in Updaters : PostCommit(u)
  BY NextCases DEF Tick, Crash, vars, table, StartBegin, ClaimBegin, ClaimLock, ClaimSelect,
        ClaimRecheck, ClaimNothing, ClaimFail, PostBegin, PostTransaction, PostLockRow,
        PostRefuse, PostLockRoom, PostReplay, PostInvalid, PostFail

(* What a grant does to the row it leases. *)
LEMMA Granted ==
    ASSUME IInv, NEW c \in Claimers, ClaimGrant(c)
    PROVE  \E t \in Oldest(claim[c].candidates) :
            /\ t \in Tasks
            /\ task[t].state \in Open
            /\ task' = [task EXCEPT ![t] = task'[t]]
            /\ task'[t].state = "running"
            /\ task'[t].owner = claim[c].token
            /\ history' = history
  <1>1. PICK t \in Oldest(claim[c].candidates) : Claimable(t, claim[c].now) /\ task' = Lease(c, t)
    BY DEF ClaimGrant
  <1>2. t \in Tasks
    BY DEF Oldest, IInv, TypeOK, ClaimRequest
  <1>3. /\ task' = [task EXCEPT ![t] = task'[t]]
        /\ task'[t].state = "running" /\ task'[t].owner = claim[c].token
    BY <1>1, <1>2 DEF Lease, IInv, TypeOK, Row
  <1> QED
    BY <1>1, <1>2, <1>3 DEF ClaimGrant, Claimable

(* What an update's commit does to its task. *)
LEMMA Posted ==
    ASSUME IInv, NEW u \in Updaters, PostCommit(u)
    PROVE  \E t \in Tasks, update \in Updates :
            /\ Recorded(t, update.id) = {}
            /\ task[t].state \in Open
            /\ task[t].owner \in Tokens
            /\ task' = [task EXCEPT ![t] = task'[t]]
            /\ task'[t].state = StateFor(update.type)
            /\ task'[t].owner = task[t].owner
            /\ history' = [history EXCEPT ![t] = Append(@,
                    [type |-> update.type, update |-> update.id, token |-> task[t].owner])]
  <1> DEFINE t == post[u].task
             update == post[u].update
  <1>1. /\ t \in Tasks /\ update \in Updates
        /\ task[t].owner = post[u].token /\ post[u].token \in Tokens
    BY DEF PostCommit, IInv, PostInv, TypeOK
  <1>2. /\ task' = [task EXCEPT ![t] = task'[t]]
        /\ task'[t].state = StateFor(update.type)
        /\ task'[t].owner = task[t].owner
    BY <1>1 DEF PostCommit, Mine, IInv, TypeOK, Row
  <1>3. /\ Recorded(t, update.id) = {} /\ task[t].state \in Open
        /\ history' = [history EXCEPT ![t] = Append(@,
                [type |-> update.type, update |-> update.id, token |-> task[t].owner])]
    BY <1>1 DEF PostCommit, Mine
  <1> QED
    <2> HIDE DEF t, update
    <2> QED
      BY <1>1, <1>2, <1>3

(* A claim never leases a task while an older one that it saw is still     *)
(* claimable (claim_oldest_queued_agent_task, store.rs:691-692).           *)
THEOREM HeadFirst == Spec => HeadNotSkipped
  <1>1. ASSUME IInv, [Next]_vars
        PROVE  \A c \in Claimers, t \in Tasks : GrantsHead(c, t)
    <2> SUFFICES ASSUME NEW c \in Claimers, NEW t \in Tasks,
                        claim[c].phase = "selected",
                        task'[t].owner # task[t].owner,
                        task'[t].owner = claim[c].token,
                        NEW o \in claim[c].candidates,
                        task[o].created < task[t].created
                 PROVE  ~Claimable(o, claim[c].now)
      BY DEF GrantsHead
    <2>1. claim[c].token \in Tokens /\ Active(c)
      BY <1>1 DEF IInv, TypeOK, ClaimInv, Active
    <2>2. task[o].created \in Nat /\ task[t].created \in Nat
      BY <1>1 DEF IInv, TypeOK, ClaimRequest, Row
    <2>3. CASE UNCHANGED <<task, history>>
      BY <2>3
    <2>4. ASSUME NEW s \in Tasks, StartCommit(s)
          PROVE  FALSE
      BY <1>1, <2>1, <2>4, TasksAssumption DEF StartCommit, IInv, TypeOK
    <2>5. ASSUME NEW d \in Claimers, ClaimGrant(d)
          PROVE  FALSE
      <3>1. PICK g \in Oldest(claim[d].candidates) :
                task' = [task EXCEPT ![g] = task'[g]] /\ task'[g].owner = claim[d].token
        BY <1>1, <2>5, Granted
      <3>2. g = t
        BY <1>1, <3>1 DEF IInv, TypeOK
      <3>3. d = c
        BY <1>1, <2>1, <2>5, <3>1, <3>2 DEF ClaimGrant, IInv, ClaimInv, Active
      <3> QED
        BY <2>2, <3>1, <3>2, <3>3, SMT DEF Oldest
    <2>6. ASSUME NEW u \in Updaters, PostCommit(u)
          PROVE  FALSE
      BY <1>1, <2>6, Posted DEF IInv, TypeOK
    <2> QED
      BY <1>1, <2>3, <2>4, <2>5, <2>6, TaskSteps
  <1> QED
    BY <1>1, InvariantHolds, PTL DEF Spec, HeadNotSkipped

-------------------------------------------------------------------------------
(* Refinement of LeasedWork.                                               *)

(* The updates in a task's events, all but the first. *)
Effects(h) ==
    {[id |-> h[i].update, token |-> h[i].token] : i \in {j \in DOMAIN h : j > 1}}

(* Appending an event to a task that has one adds its update. *)
LEMMA EffectsAppend ==
    ASSUME NEW h \in Seq(Entry), h # <<>>, NEW e \in Entry
    PROVE  Effects(Append(h, e)) = Effects(h) \cup {[id |-> e.update, token |-> e.token]}
  <1> DEFINE g == Append(h, e)
             n == Len(h) + 1
  <1>1. /\ n \in Nat /\ n > 1
        /\ DOMAIN g = DOMAIN h \cup {n}
        /\ DOMAIN h \subseteq Nat
        /\ g[n] = e
        /\ \A i \in DOMAIN h : g[i] = h[i]
    <2>1. Len(h) \in Nat /\ Len(h) # 0
      BY SMT
    <2> QED
      BY <2>1, AppendFacts, SMT
  <1> HIDE DEF g, n
  <1>2. Effects(g) = Effects(h) \cup {[id |-> e.update, token |-> e.token]}
    <2>1. ASSUME NEW x \in Effects(g)
          PROVE  x \in Effects(h) \cup {[id |-> e.update, token |-> e.token]}
      BY <1>1 DEF Effects
    <2>2. ASSUME NEW x \in Effects(h)
          PROVE  x \in Effects(g)
      BY <1>1 DEF Effects
    <2>3. [id |-> e.update, token |-> e.token] \in Effects(g)
      BY <1>1 DEF Effects
    <2> QED
      BY <2>1, <2>2, <2>3
  <1> QED
    BY <1>2 DEF g

LEMMA WorkInit == Init => Work!Init
  BY SMT DEF Init, Work!Init, WorkState, Open

(* Every step is one that LeasedWork allows, or changes nothing it sees:   *)
(* a started task is an Offer, a granted claim is a Hand, a committed      *)
(* update is an Act.                                                       *)
LEMMA WorkStep ==
    ASSUME IInv, [Next]_vars
    PROVE  [Work!Next]_(Work!vars)
  <1>0. /\ \A t \in Tasks : task[t] \in Row /\ history[t] \in Seq(Entry)
        /\ task = [t \in Tasks |-> task[t]]
        /\ history = [t \in Tasks |-> history[t]]
    BY DEF IInv, TypeOK
  <1>1. CASE UNCHANGED <<task, history>>
    BY <1>1 DEF Work!vars, WorkState
  <1>2. ASSUME NEW t \in Tasks, StartCommit(t)
        PROVE  Work!Offer(t)
    <2>1. /\ task[t].state = "absent" /\ task[t].owner = None /\ history[t] = <<>>
          /\ task' = [task EXCEPT ![t] = task'[t]]
          /\ task'[t].state = "queued" /\ task'[t].owner = None
          /\ history' = [history EXCEPT ![t] = history'[t]]
      BY <1>0, <1>2 DEF StartCommit, IInv, HistoryInv, HistoryOf
    <2>2. /\ Effects(history[t]) = {} /\ Effects(history'[t]) = {}
      BY <1>0, <1>2, <2>1, SMT DEF StartCommit, Effects
    <2>3. \A o \in Tasks : /\ task'[o].owner = task[o].owner
                           /\ Effects(history'[o]) = Effects(history[o])
                           /\ WorkState(o)' = IF o = t THEN "open" ELSE WorkState(o)
      BY <1>0, <2>1, <2>2 DEF WorkState, Open
    <2>4. WorkState(t) = "absent"
      BY <2>1 DEF WorkState, Open
    <2> QED
      BY <2>3, <2>4 DEF Work!Offer, Effects
  <1>3. ASSUME NEW c \in Claimers, ClaimGrant(c)
        PROVE  Work!Next
    <2>1. PICK t \in Tasks :
            /\ task[t].state \in Open
            /\ task' = [task EXCEPT ![t] = task'[t]]
            /\ task'[t].state = "running"
            /\ task'[t].owner = claim[c].token
            /\ history' = history
      BY <1>3, Granted
    <2>2. /\ claim[c].token \in Tokens \ {task[t].owner}
          /\ \A i \in DOMAIN history[t] : history[t][i].token # claim[c].token
      BY <1>3 DEF IInv, ClaimInv, ClaimGrant, Active, TypeOK
    <2>3. WorkState(t) = "open"
      BY <2>1 DEF WorkState
    <2>4. \A o \in Tasks : /\ task'[o].owner = IF o = t THEN claim[c].token ELSE task[o].owner
                           /\ WorkState(o)' = WorkState(o)
      BY <1>0, <2>1 DEF WorkState, Open
    <2>5. \A e \in Effects(history[t]) : e.token # claim[c].token
      BY <2>2, SMT DEF Effects
    <2>6. Work!Hand(t)
      <3> DEFINE effects == [o \in Tasks |-> Effects(history[o])]
                 holder == [o \in Tasks |-> task[o].owner]
                 state == [o \in Tasks |-> WorkState(o)]
      <3>1. state[t] = "open" /\ UNCHANGED <<state, effects>>
        BY <2>1, <2>3, <2>4
      <3>2. /\ claim[c].token \in Tokens \ {holder[t]}
            /\ \A e \in effects[t] : e.token # claim[c].token
            /\ holder' = [holder EXCEPT ![t] = claim[c].token]
        BY <2>2, <2>4, <2>5
      <3>3. \E k \in Tokens \ {holder[t]} :
                (\A e \in effects[t] : e.token # k) /\ holder' = [holder EXCEPT ![t] = k]
        BY <3>2
      <3> QED
        BY <3>1, <3>3 DEF Work!Hand, Effects
    <2> QED
      BY <2>6 DEF Work!Next
  <1>4. ASSUME NEW u \in Updaters, PostCommit(u)
        PROVE  Work!Next
    <2>1. PICK t \in Tasks, update \in Updates :
            /\ Recorded(t, update.id) = {}
            /\ task[t].state \in Open
            /\ task[t].owner \in Tokens
            /\ task' = [task EXCEPT ![t] = task'[t]]
            /\ task'[t].state = StateFor(update.type)
            /\ task'[t].owner = task[t].owner
            /\ history' = [history EXCEPT ![t] = Append(@,
                    [type |-> update.type, update |-> update.id, token |-> task[t].owner])]
      BY <1>4, Posted
    <2> DEFINE e == [type |-> update.type, update |-> update.id, token |-> task[t].owner]
    <2>2. /\ e \in Entry /\ e.update = update.id /\ e.token = task[t].owner
          /\ StateFor(update.type) \in {"running", "awaiting_external_input"} \cup Terminal
      BY <2>1, TasksAssumption DEF Entry, Update, StateFor, UpdateTypes, Terminal
    <2>3. history' = [history EXCEPT ![t] = Append(history[t], e)]
      BY <2>1
    <2> HIDE DEF e
    <2>4. \A o \in Tasks :
            /\ task'[o].owner = task[o].owner
            /\ Effects(history'[o]) =
                IF o = t THEN Effects(history[t]) \cup {[id |-> update.id, token |-> task[t].owner]}
                         ELSE Effects(history[o])
      <3>1. history[t] # <<>>
        BY <2>1 DEF IInv, HistoryInv, HistoryOf, Open
      <3>2. Effects(Append(history[t], e)) =
                Effects(history[t]) \cup {[id |-> e.update, token |-> e.token]}
        BY <1>0, <2>2, <3>1, EffectsAppend
      <3> QED
        BY <1>0, <2>1, <2>2, <2>3, <3>2
    <2>5. \A x \in Effects(history[t]) : x.id # update.id
      BY <2>1, SMT DEF Effects, IInv, HistoryInv, HistoryOf, Recorded
    <2>6. /\ WorkState(t) = "open"
          /\ WorkState(t)' \in {"open"} \cup Terminal
          /\ \A o \in Tasks : o # t => WorkState(o)' = WorkState(o)
      BY <1>0, <2>1, <2>2 DEF WorkState, Open, Terminal
    <2>7. task[t].owner # None
      BY <2>1, TasksAssumption
    <2>8. Work!Act(t)
      <3> DEFINE effects == [o \in Tasks |-> Effects(history[o])]
                 holder == [o \in Tasks |-> task[o].owner]
                 state == [o \in Tasks |-> WorkState(o)]
                 ids == {v.id : v \in Updates}
      <3>1. state[t] = "open" /\ holder[t] # None /\ UNCHANGED holder
        BY <2>4, <2>6, <2>7
      <3>2. \E id \in ids :
                /\ \A x \in effects[t] : x.id # id
                /\ effects' = [effects EXCEPT ![t] = @ \cup {[id |-> id, token |-> holder[t]]}]
        <4>1. /\ \A x \in effects[t] : x.id # update.id
              /\ effects' = [effects EXCEPT ![t] =
                    @ \cup {[id |-> update.id, token |-> holder[t]]}]
          BY <2>4, <2>5
        <4> QED
          BY <4>1
      <3>3. \E s \in {"open"} \cup Terminal : state' = [state EXCEPT ![t] = s]
        <4>1. state' = [state EXCEPT ![t] = WorkState(t)']
          BY <2>6
        <4> QED
          BY <2>6, <4>1
      <3> QED
        BY <3>1, <3>2, <3>3 DEF Work!Act, Effects
    <2> QED
      BY <2>8 DEF Work!Next
  <1> QED
    BY <1>1, <1>2, <1>3, <1>4, TaskSteps DEF Work!Next

(* Through expiry, takeover, retries, failures and crashes the claim and   *)
(* update endpoints only do what LeasedWork allows: only the current lease *)
(* writes, an update id takes effect once, an outcome is kept              *)
(* (claim_oldest_queued_agent_task, record_agent_task_update_with_outcome). *)
THEOREM LeasedWorkImplemented == Spec => TasksAreLeasedWork
  BY InvariantHolds, WorkInit, WorkStep, PTL DEF Spec, Work!Spec, TasksAreLeasedWork
===============================================================================

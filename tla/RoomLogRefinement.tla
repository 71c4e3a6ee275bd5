--------------------------- MODULE RoomLogRefinement ---------------------------
(***************************************************************************)
(* The transactions of RoomLedger implement the atomic requests of         *)
(* RoomLog.  A request takes effect when its transaction commits; the      *)
(* decisions and tasks tables, the lock and the uncommitted writes are     *)
(* hidden.                                                                 *)
(***************************************************************************)
EXTENDS RoomLedger, Sequences

(* The room's events without the ids drawn for their subjects. *)
VisibleEvents(events) ==
    {[seq |-> e.seq, req |-> e.req, type |-> e.type] : e \in events}

StatusOf(h) ==
    CASE pc[h] = "idle" -> "idle"
      [] pc[h] \in {"begun", "locked", "fresh", "reserved", "staged"} -> "asked"
      [] pc[h] = "committed" -> "applied"
      [] pc[h] = "answered" ->
            (CASE reply[h].result = "accepted" -> "accepted"
               [] reply[h].result = "duplicate" -> "duplicate"
               [] reply[h].result = "conflicting_duplicate" -> "conflict"
               [] OTHER -> "refused")

(* The request a handler runs, as its client knows it. *)
AskOf(h) ==
    IF pc[h] = "idle" THEN [id |-> {}, body |-> {}]
    ELSE [id |-> current[h].id, body |-> current[h].body]

Applied == {[id |-> rec.id, body |-> rec.body] : rec \in ledger}

Room == INSTANCE RoomLog WITH
    Clients <- Handlers,
    Bodies <- Body,
    EffectsOf <- [body \in Body |-> Effects(body)],
    log <- VisibleEvents(log),
    applied <- Applied,
    asks <- [h \in Handlers |-> AskOf(h)],
    status <- [h \in Handlers |-> StatusOf(h)],
    told <- [h \in Handlers |-> VisibleEvents(reply[h].events)]

(* Requests are atomic: what clients see of process, prior_request,        *)
(* record_request and the publication after the commit is what RoomLog     *)
(* allows, with retries, races on one id, failures at any statement, lost  *)
(* commit acknowledgements and crashes.                                    *)
RequestsAreAtomic == Room!Spec
===============================================================================

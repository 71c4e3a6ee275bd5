----------------------------- MODULE CatalogPages -----------------------------
(***************************************************************************)
(* Listing the models of the Codex agent: the bridge (catalog_bridge.rs)   *)
(* fetches the whole catalog for every page and cuts it at a cursor, the   *)
(* models handler (conversation_service.rs) checks a page, leaves out what *)
(* the policy does not allow, and hides the bridge's cursor behind its     *)
(* own; validate_catalog_selection checks a choice against the catalog.    *)
(*                                                                         *)
(* Both keep their cursors in maps of bounded size that lose an arbitrary  *)
(* entry when they are full, and are empty after a restart.  The upstream  *)
(* catalog may change between any two requests.  A catalog stands for its  *)
(* digest.                                                                 *)
(***************************************************************************)
EXTENDS Integers, Sequences, FiniteSets, Functions

CONSTANTS
    Clients,     \* browsers listing models
    Catalogs,    \* what the upstream may serve: [revision, data]
    Policies,    \* deployments: [revision, allowed]
    Limits,      \* page sizes asked for
    MaxCursors,  \* 1024
    None         \* no cursor, no catalog, no default effort

(* The models of any catalog, as the upstream describes them. *)
Described == UNION {Range(x.data) : x \in Catalogs}

ASSUME CatalogAssumption ==
    /\ IsFiniteSet(Clients)
    /\ \A x \in Catalogs : x.data \in Seq(Described)
    /\ \A m \in Described : DOMAIN m = {"id", "efforts", "default"}
    /\ \A p \in Policies : p.revision \in Nat
    /\ Limits \subseteq Nat \ {0}
    /\ MaxCursors \in Nat \ {0}
    /\ None \notin Catalogs \cup Nat

VARIABLES
    upstream,  \* the catalog the upstream serves now
    policy,    \* the policy the gateway was started with
    bridge,    \* CatalogBridge.cursors: [id, catalog, offset]
    gateway,   \* ConversationIntegration.cursors: [id, revision, provider]
    asking,    \* each client's request: phase, limit, resumed entry, page
    listing    \* each client: its cursor, the models it has, where they are from

vars == <<upstream, policy, bridge, gateway, asking, listing>>

NoRequest == [phase |-> "idle", limit |-> 0, resume |-> None, page |-> None]
NoListing == [cursor |-> None, models |-> <<>>, catalog |-> None,
              policy |-> None, complete |-> FALSE]

Init ==
    /\ upstream \in Catalogs
    /\ policy \in Policies
    /\ bridge = {}
    /\ gateway = {}
    /\ asking = [c \in Clients |-> NoRequest]
    /\ listing = [c \in Clients |-> NoListing]

UpstreamChanges ==
    /\ upstream' \in Catalogs \ {upstream}
    /\ UNCHANGED <<policy, bridge, gateway, asking, listing>>

-------------------------------------------------------------------------------
(* The maps.                                                               *)

(* Mutant of Inserted: nothing makes room. *)
InsertedUnbounded(map, entry) == {map \cup {entry}}

(* What inserting an entry may leave: a full map loses one of its own. *)
Inserted(map, entry) ==
    IF Cardinality(map) >= MaxCursors
    THEN {(map \ {old}) \cup {entry} : old \in map}
    ELSE {map \cup {entry}}

Entry(map, id) == {e \in map : e.id = id}

(* Uuid::new_v4: an id that is in use nowhere. *)
Fresh(used) == CHOOSE id \in 1 .. Cardinality(used) + 1 : id \notin used

FreshBridgeId ==
    Fresh({e.id : e \in bridge} \cup {e.provider : e \in gateway}
          \cup {asking[c].page.next : c \in {d \in Clients : asking[d].phase = "answering"}})

FreshGatewayId == Fresh({e.id : e \in gateway} \cup {listing[c].cursor : c \in Clients})

-------------------------------------------------------------------------------
(* models: one page.                                                       *)

(* The bridge's entry behind a client's cursor, looked up before the       *)
(* catalog is fetched.                                                     *)
Resumes(c) ==
    UNION {Entry(bridge, g.provider) :
            g \in {e \in Entry(gateway, listing[c].cursor) : e.revision = policy.revision}}

Ask(c) ==
    /\ asking[c].phase = "idle"
    /\ ~listing[c].complete
    /\ \E limit \in Limits, resume \in
            IF listing[c].cursor = None THEN {None} ELSE Resumes(c) :
        asking' = [asking EXCEPT ![c] = [NoRequest EXCEPT
                        !.phase = "fetching", !.limit = limit, !.resume = resume]]
    /\ UNCHANGED <<upstream, policy, bridge, gateway, listing>>

(* The cursor is unknown or stale: the client starts again. *)
AskRefused(c) ==
    /\ asking[c].phase = "idle"
    /\ listing[c].cursor # None
    /\ Resumes(c) = {}
    /\ listing' = [listing EXCEPT ![c] = NoListing]
    /\ UNCHANGED <<upstream, policy, bridge, gateway, asking>>

(* Mutant of SameCatalog: the digest is not compared. *)
AnyCatalog(resume) == TRUE

(* The cursor holds for the catalog it was cut from. *)
SameCatalog(resume) == resume # None => resume.catalog = upstream

Offset(resume) == IF resume = None THEN 0 ELSE resume.offset

Smaller(a, b) == IF a < b THEN a ELSE b

HasNext(end) == end < Len(upstream.data)

(* CatalogBridge.page once the catalog is there. *)
Fetch(c) ==
    LET resume == asking[c].resume
        end == Smaller(Offset(resume) + asking[c].limit, Len(upstream.data))
        cut == [catalog |-> upstream, data |-> SubSeq(upstream.data, Offset(resume) + 1, end)]
        answered(next) ==
            [asking EXCEPT ![c].phase = "answering",
                           ![c].page = [catalog |-> cut.catalog, data |-> cut.data,
                                        next |-> next]]
    IN  /\ asking[c].phase = "fetching"
        /\ SameCatalog(resume)
        /\ IF HasNext(end)
           THEN /\ bridge' \in Inserted(bridge, [id |-> FreshBridgeId, catalog |-> upstream,
                                                 offset |-> end])
                /\ asking' = answered(FreshBridgeId)
           ELSE asking' = answered(None) /\ UNCHANGED bridge
        /\ UNCHANGED <<upstream, policy, gateway, listing>>

(* The catalog changed: ConversationStale, and the client starts again. *)
FetchStale(c) ==
    /\ asking[c].phase = "fetching"
    /\ ~SameCatalog(asking[c].resume)
    /\ asking' = [asking EXCEPT ![c] = NoRequest]
    /\ listing' = [listing EXCEPT ![c] = NoListing]
    /\ UNCHANGED <<upstream, policy, bridge, gateway>>

(* No answer within the deadline, or not a catalog: the client may ask for *)
(* the same page again.                                                    *)
FetchFails(c) ==
    /\ asking[c].phase = "fetching"
    /\ asking' = [asking EXCEPT ![c] = NoRequest]
    /\ UNCHANGED <<upstream, policy, bridge, gateway, listing>>

Distinct(data) == \A i, j \in DOMAIN data : data[i].id = data[j].id => i = j

(* The default effort of a model is one of its efforts, or absent. *)
DefaultListed(m) == m.default \in m.efforts \cup {None}

(* validate_catalog, on what the bridge returned. *)
ValidPage(page) ==
    /\ page.catalog.revision = policy.revision
    /\ Distinct(page.data)
    /\ \A i \in DOMAIN page.data : DefaultListed(page.data[i])

Permits(p, model, effort) == [model |-> model, effort |-> effort] \in p.allowed

(* Mutant of Restricted: a model the policy knows keeps all its efforts. *)
RestrictedNot(p, m) ==
    [m EXCEPT !.efforts = IF \E e \in @ : Permits(p, m.id, e) THEN @ ELSE {}]

(* A model with the efforts the policy allows it. *)
Restricted(p, m) ==
    [m EXCEPT !.efforts = {e \in @ : Permits(p, m.id, e)},
              !.default = IF Permits(p, m.id, @) THEN @ ELSE None]

(* A model is kept if it has any effort left. *)
Keep(p, models, m) ==
    IF Restricted(p, m).efforts = {} THEN models ELSE Append(models, Restricted(p, m))

(* retain_mut: the models that are kept, after the first n. *)
Allowed(p, data) ==
    LET kept[n \in 0 .. Len(data)] ==
            IF n = 0 THEN <<>> ELSE Keep(p, kept[n - 1], data[n])
    IN  kept[Len(data)]

(* The client's listing with one more page. *)
Extended(c, cursor) ==
    LET page == asking[c].page
        models == Allowed(policy, page.data)
    IN  IF asking[c].resume = None
        THEN [cursor |-> cursor, models |-> models, catalog |-> page.catalog,
              policy |-> policy, complete |-> cursor = None]
        ELSE [listing[c] EXCEPT !.cursor = cursor, !.models = @ \o models,
                                !.complete = cursor = None]

(* A valid page is answered; the answer may get lost. *)
Answer(c) ==
    LET page == asking[c].page
        id == IF page.next = None THEN None ELSE FreshGatewayId
    IN  /\ asking[c].phase = "answering"
        /\ ValidPage(page)
        /\ IF id = None THEN UNCHANGED gateway
           ELSE gateway' \in Inserted(gateway, [id |-> id, revision |-> policy.revision,
                                                provider |-> page.next])
        /\ listing' \in {listing, [listing EXCEPT ![c] = Extended(c, id)]}
        /\ asking' = [asking EXCEPT ![c] = NoRequest]
        /\ UNCHANGED <<upstream, policy, bridge>>

AnswerInvalid(c) ==
    /\ asking[c].phase = "answering"
    /\ ~ValidPage(asking[c].page)
    /\ asking' = [asking EXCEPT ![c] = NoRequest]
    /\ UNCHANGED <<upstream, policy, bridge, gateway, listing>>

StartOver(c) ==
    /\ asking[c].phase = "idle"
    /\ listing[c] # NoListing
    /\ listing' = [listing EXCEPT ![c] = NoListing]
    /\ UNCHANGED <<upstream, policy, bridge, gateway, asking>>

(* The gateway starts again, perhaps with another policy; its answers to   *)
(* the requests in flight are lost, browsers keep their cursors.           *)
Restart ==
    /\ policy' \in Policies
    /\ bridge' = {}
    /\ gateway' = {}
    /\ asking' = [c \in Clients |-> NoRequest]
    /\ UNCHANGED <<upstream, listing>>

Next ==
    \/ UpstreamChanges
    \/ \E c \in Clients :
        \/ Ask(c) \/ AskRefused(c) \/ Fetch(c) \/ FetchStale(c) \/ FetchFails(c)
        \/ Answer(c) \/ AnswerInvalid(c) \/ StartOver(c)
    \/ Restart

Spec == Init /\ [][Next]_vars

-------------------------------------------------------------------------------
(* A choice: resolve_settings, then validate_catalog_selection, which has  *)
(* the whole catalog in one page.                                          *)
Selectable(p, catalog, model, effort) ==
    /\ Permits(p, model, effort)
    /\ catalog.revision = p.revision
    /\ Distinct(catalog.data)
    /\ \A i \in DOMAIN catalog.data : DefaultListed(catalog.data[i])
    /\ \E i \in DOMAIN catalog.data :
        catalog.data[i].id = model /\ effort \in catalog.data[i].efforts

-------------------------------------------------------------------------------
(* Correctness.                                                            *)

(* The maps, requests and listings have their types, and the maps their    *)
(* size (CatalogBridge, ConversationIntegration).                          *)
TypeOK ==
    /\ upstream \in Catalogs /\ policy \in Policies
    /\ bridge \subseteq [id : Nat, catalog : Catalogs, offset : Nat]
    /\ gateway \subseteq [id : Nat, revision : Nat, provider : Nat]
    /\ Cardinality(bridge) <= MaxCursors /\ Cardinality(gateway) <= MaxCursors
    /\ \A c \in Clients :
        /\ asking[c].phase \in {"idle", "fetching", "answering"}
        /\ listing[c].cursor \in Nat \cup {None}
        /\ listing[c].catalog \in Catalogs \cup {None}
        /\ listing[c].complete \in BOOLEAN

(* The lengths of the beginnings of its catalog that a client may have. *)
Covered(c) ==
    LET all == listing[c].catalog.data
    IN  {k \in 0 .. Len(all) :
            Allowed(listing[c].policy, SubSeq(all, 1, k)) = listing[c].models}

(* Whoever follows the cursors lists one catalog: the pages are pieces of  *)
(* the catalog of the first page, in order, with nothing left out, shown   *)
(* twice or taken from another version, the last one completes it, and a   *)
(* cursor brings at least one more model, so every listing ends; other     *)
(* clients, evictions, retries and a changing upstream notwithstanding     *)
(* (page, models).                                                         *)
PagesOfOneCatalog ==
    \A c \in Clients :
        listing[c].catalog # None =>
            /\ Covered(c) # {}
            /\ listing[c].complete => Len(listing[c].catalog.data) \in Covered(c)
            /\ \A r \in Resumes(c) :
                r.offset \in Covered(c) /\ r.offset < Len(r.catalog.data)

Models == {m.id : m \in Described}
Efforts == UNION {m.efforts : m \in Described}

(* What a completed listing shows is what a turn may choose from the same  *)
(* catalog, and conversely, and a default it shows can be chosen, unless   *)
(* the catalog names a model twice: then validate_catalog_selection        *)
(* accepts nothing from it (models, resolve_settings).                     *)
ListedIsSelectable ==
    \A c \in Clients :
        listing[c].complete /\ Distinct(listing[c].catalog.data) =>
            LET shown == Range(listing[c].models)
            IN  /\ \A m \in Models, e \in Efforts :
                    (\E x \in shown : x.id = m /\ e \in x.efforts)
                    <=> Selectable(listing[c].policy, listing[c].catalog, m, e)
                /\ \A x \in shown : DefaultListed(x)
===============================================================================

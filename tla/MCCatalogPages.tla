---------------------------- MODULE MCCatalogPages ----------------------------
(***************************************************************************)
(* Two browsers list a catalog of three models that may be replaced by one *)
(* of the same revision that names a model twice, by one with a default    *)
(* effort that its model does not have, and by one of another revision.    *)
(* Maps of one cursor: a retry, or the other browser, evicts the cursor a  *)
(* browser holds or is about to be given.                                  *)
(***************************************************************************)
EXTENDS CatalogPages, TLC

CONSTANTS b1, b2, none

Model(id, efforts, default) == [id |-> id, efforts |-> efforts, default |-> default]

Mini == Model("mini", {"low", "high"}, "low")
Full == Model("full", {"low"}, none)
Large == Model("large", {"high"}, "high")
Odd == Model("odd", {"low"}, "high")

Versions ==
    {[revision |-> 1, data |-> <<Mini, Full, Large>>],
     [revision |-> 1, data |-> <<Full, Full>>],
     [revision |-> 1, data |-> <<Full, Odd>>],
     [revision |-> 2, data |-> <<Mini, Large>>]}

Deployments ==
    {[revision |-> 1, allowed |-> {[model |-> "mini", effort |-> "high"],
                                   [model |-> "full", effort |-> "low"]}],
     [revision |-> 2, allowed |-> {[model |-> "large", effort |-> "high"]}]}

Symmetry == Permutations(Clients)
===============================================================================

------------------------------ MODULE MCCatalogSync ------------------------------
(* Two connections of one catalog and one of another on the same database. *)
EXTENDS CatalogSync, TLC

CONSTANTS c1, c2, c3, g1, g2

MCCatalogOf == (c1 :> g1) @@ (c2 :> g1) @@ (c3 :> g2)

\* Two transactions at a time are enough to block each other.
FewOpen == Cardinality({c \in Conns : tx[c].open}) <= 2

Symmetry == Permutations({c1, c2})
=============================================================================

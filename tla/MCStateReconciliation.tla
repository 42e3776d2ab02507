----------------------- MODULE MCStateReconciliation -----------------------
(***************************************************************************)
(* A root with two children, one of which has a child of its own.          *)
(***************************************************************************)
EXTENDS StateReconciliation, TLC

CONSTANTS root, a, b, g

MCParent == a :> root @@ b :> root @@ g :> a
=============================================================================

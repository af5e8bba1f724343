------------------------- MODULE MCTradingRelationship -------------------------
(* TradingRelationship for TLC. *)
EXTENDS TradingRelationshipProperties, TLC

CONSTANTS c1, c2, p1, p2

(* Only for the run without a liveness property.                              *)
Symmetric == Permutations({c1, c2}) \cup Permutations({p1, p2})
=============================================================================

--------------------------- MODULE MCCachedMetric ---------------------------
(* An instance of CachedMetric for TLC: three requests for the same list   *)
(* of trending tokens, two for the gas price, one other query.             *)
EXTENDS CachedMetric, TLC

CONSTANTS t1, t2, t3, g1, g2, p1

MCKind == [r \in Request |-> CASE r \in {t1, t2, t3} -> "trending"
                               [] r \in {g1, g2} -> "gas"
                               [] OTHER -> "plain"]
=============================================================================

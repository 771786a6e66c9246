---------------------------- MODULE GraphMetricsMC ----------------------------
(* A few messages over a handful of entities for TLC. *)
EXTENDS GraphMetrics

CONSTANTS w, x, y, z

\* Two entities that occur together, in either order; one alone, twice, with a
\* pair that is no edge yet; and a chain.
Sentences ==
    {[mentions |-> <<p[1], p[2]>>, pairs |-> {{p[1], p[2]}}] :
        p \in {<<w, x>>, <<x, y>>, <<z, y>>, <<w, z>>}}
    \cup {[mentions |-> <<x, x>>, pairs |-> {{x, z}}],
          [mentions |-> <<w, y, z>>, pairs |-> {{w, y}, {y, z}}]}
=============================================================================

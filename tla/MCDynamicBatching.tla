------------------------- MODULE MCDynamicBatching --------------------------
(* Instances of DynamicBatching for TLC.                                   *)
EXTENDS DynamicBatching, TLC

\* Clients are interchangeable, and so are workers (ring keeps the order in
\* which they connected); used with safety properties only.
Symmetry == Permutations(Clients) \cup Permutations(Workers)
=============================================================================

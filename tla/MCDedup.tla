------------------------------- MODULE MCDedup -------------------------------
(* Model values and symmetry for the runs of Dedup.                        *)
EXTENDS Dedup, TLC

CONSTANTS i1, i2, c1, c2

OneIngest    == {i1}
TwoIngests   == {i1, i2}
OneCollapse  == {c1}
TwoCollapses == {c1, c2}

\* Transactions and requests are interchangeable; ids and hashes are ordered.
Interchangeable == Permutations(Ingests) \cup Permutations(Collapses)
==============================================================================

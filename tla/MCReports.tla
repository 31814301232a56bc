----------------------------- MODULE MCReports -----------------------------
\* Runs are interchangeable, and so are machines.
EXTENDS TrendChart

Symmetry == Permutations(Dispatches) \cup Permutations(Equipments)
=============================================================================

----------------------------- MODULE MCWebChannel -----------------------------
\* Model-checking instance of both channels; every set of ids is symmetric.
EXTENDS WebChannel, TLC

Symmetry ==
    Permutations(Requests) \cup Permutations(Samples)
        \cup Permutations(ExpTypes) \cup Permutations(Equipments)
        \cup Permutations(Wips) \cup Permutations(Dispatches)
=============================================================================

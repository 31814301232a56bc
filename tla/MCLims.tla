------------------------------- MODULE MCLims -------------------------------
\* Model-checking instances of Lims: ids are model values, and the symmetry of
\* each set of ids is used (no definition tells two ids of a set apart).
EXTENDS LimsInv, Site, TLC

Symmetry ==
    Permutations(Requests) \cup Permutations(Samples)
        \cup Permutations(ExpTypes) \cup Permutations(Equipments)
        \cup Permutations(Wips) \cup Permutations(Dispatches)
=============================================================================

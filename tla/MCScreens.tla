----------------------------- MODULE MCScreens -----------------------------
\* Model-checking instances of the pages.  In the first tab users sign in by
\* turns and have FirstPages; a second has OtherPages (bounds of the instance).
EXTENDS Screens, TLC

CONSTANTS FirstTab, FirstPages, OtherPages

MCPagesOf == [t \in Tabs |-> IF t = FirstTab THEN FirstPages ELSE OtherPages]

Symmetry ==
    Permutations(ExpTypes) \cup Permutations(Wips) \cup Permutations(Dispatches)
=============================================================================

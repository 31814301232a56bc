--------------------------- MODULE MCCatalogForms ---------------------------
\* Model-checking instance of the catalogue's forms: it starts empty, and the
\* types, all of them created during the run, are symmetric.
EXTENDS CatalogForms, TLC

Symmetry == Permutations(ExpTypes)
=============================================================================

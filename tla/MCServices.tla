----------------------------- MODULE MCServices -----------------------------
EXTENDS Services, TLC

\* No action, and no property, tells these values apart.
Symmetry ==
    Permutations(Sessions) \cup Permutations(Users)
        \cup Permutations(Requests) \cup Permutations(Names \ Preloaded)
=============================================================================

--------------------------- MODULE MCSkillJournal ---------------------------
EXTENDS SkillJournal, TLC

CONSTANTS p1, p2, p3, w1, w2

\* Patches and writers only differ by name.
Interchangeable == Permutations(Patch) \cup Permutations(Writer)
=============================================================================

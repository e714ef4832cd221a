---- MODULE MCUserMemory ----
EXTENDS UserMemory, TLC

\* Processes run the same programs: exchanging them changes nothing.
ProcessSymmetry == Permutations(Process)
====

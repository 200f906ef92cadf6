--------------------------- MODULE MCSandboxTasks ---------------------------
EXTENDS SandboxTasks, TLC

Symmetry == Permutations(Tasks) \cup Permutations(Containers)
            \cup Permutations(ZoneIds)

=============================================================================

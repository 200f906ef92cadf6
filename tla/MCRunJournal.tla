---------------------------- MODULE MCRunJournal ----------------------------
EXTENDS RunJournal, TLC

Symmetry == Permutations(Procs) \cup Permutations(Events)

=============================================================================

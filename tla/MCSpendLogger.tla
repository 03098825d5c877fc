--------------------------- MODULE MCSpendLogger ---------------------------
(* Model values and symmetry for the safety runs of SpendLogger.           *)
EXTENDS SpendLogger, TLC

Symmetry == Permutations(Entries)
=============================================================================

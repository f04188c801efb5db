--------------------------- MODULE MCConcurrencyGate ---------------------------
(* Small instances of ConcurrencyGate for TLC.                             *)
EXTENDS ConcurrencyGate, TLC

\* Workers are interchangeable, and so are endpoints.
Symmetry == Permutations(Workers) \cup Permutations(Endpoints)
==============================================================================

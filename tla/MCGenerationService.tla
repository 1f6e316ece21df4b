------------------------- MODULE MCGenerationService -------------------------
(* Small instances of GenerationService for TLC. *)
EXTENDS GenerationService, TLC

CONSTANTS p1, p2, p3, hour1

TwoProcs   == {p1, p2}
ThreeProcs == {p1, p2, p3}
OneSlot    == {hour1}

\* Callers are interchangeable: no constant and no initial value tells them apart.
Symmetry == Permutations(Procs)
=============================================================================

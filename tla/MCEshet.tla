------------------------------ MODULE MCEshet ------------------------------
(* Instances of EshetSystem for TLC: model values and symmetry.            *)
EXTENDS EshetProperties, TLC
CONSTANTS r1, r2, r3, v1, v2
RequestSymmetry == Permutations(Reqs)
ValueSymmetry == Permutations(Values)
Symmetry == Permutations(Reqs) \cup Permutations(Values)
=============================================================================

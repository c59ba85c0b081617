---------------------------- MODULE MCProjectApi ----------------------------
(***************************************************************************)
(* Instances of ProjectApi for TLC.  Handlers, keys and values are         *)
(* interchangeable.                                                        *)
(***************************************************************************)
EXTENDS ProjectApi, TLC

Symmetry == Permutations(Handlers) \cup Permutations(EnvKeys) \cup Permutations(Values)
=============================================================================

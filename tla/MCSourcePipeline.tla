-------------------------- MODULE MCSourcePipeline --------------------------
(* Instances of SourcePipeline for TLC.                                    *)
EXTENDS SourcePipeline, TLC

CONSTANTS p1, p2, i1, i2

\* processes, and the contents the normalizer accepts, are interchangeable
Symmetry == Permutations(Procs) \union Permutations(Items \ Bad)
=============================================================================

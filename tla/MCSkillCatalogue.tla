------------------------- MODULE MCSkillCatalogue -------------------------
(* Instances of SkillCatalogue for TLC.                                    *)
EXTENDS SkillCatalogue, TLC

MCPermissions == {{"memory_write"}, {"network"}}

Symmetry == Permutations(Cli) \cup Permutations(Bytes)

MCHostCapabilities == {"memory_write", "code_execution"}
===========================================================================

---------------------------- MODULE MCQueueStore ----------------------------
(* Instances of QueueStore for TLC.                                        *)
EXTENDS QueueRefinement, TLC

CONSTANTS o1, o2, o3, tA, tB

(* o1 and o2 share a tenant, o3 is alone in the other.                     *)
MCTenantOf(o) == IF o = o3 THEN tB ELSE tA

(* Task ids, keys and fingerprints are only compared; of the operators, o1 *)
(* and o2 are alike.                                                       *)
Symmetry ==
    Permutations(Task) \cup Permutations(Key) \cup Permutations(Fingerprint)
        \cup Permutations({o1, o2})
=============================================================================

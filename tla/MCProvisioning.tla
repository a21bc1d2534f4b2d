--------------------------- MODULE MCProvisioning ---------------------------
(* The provisioning requests on small constants for TLC.                   *)
EXTENDS Provisioning, TLC

Symmetry == Permutations(Iccids) \cup Permutations(Imsis)
              \cup Permutations(KeySets)

(* Home-network keys are used by none of the profiles.                     *)
NoneUsed == [i \in Infos |-> {}]
NoneNamed == [i \in Infos |-> NoSuciKey]
=============================================================================

--------------------------- MODULE MCProfileVault ---------------------------
(* The vault on small constants for TLC.                                   *)
EXTENDS ProfileVault, TLC

Symmetry == Permutations(Callers) \cup Permutations(Iccids)
              \cup Permutations(Imsis) \cup Permutations(KeySets)

(* One home-network key, which every info uses                             *)
Key1 == [number |-> 1, octets |-> 1]
OneSuciKey == {Key1}
OneUsed == [i \in Infos |-> {Key1}]

(* It is in the single fields, or in a later entry of the list only.       *)
OneNamed == [i \in Infos |-> Key1]
NoneNamed == [i \in Infos |-> NoSuciKey]
=============================================================================

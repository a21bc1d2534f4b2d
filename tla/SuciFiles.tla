------------------------------ MODULE SuciFiles ------------------------------
(***************************************************************************)
(* adapters/suci.py: the contents of EF.SUCI_Calc_Info and the services of *)
(* EF.UST that decide which of two such files is used.                     *)
(*                                                                         *)
(* A configuration is a priority and a protection: the null scheme, or a   *)
(* home-network public key, which stands for protection scheme, key id and *)
(* octets together.  The files hold keys in a list of their own, to which  *)
(* the entries refer by a position that starts at 1.                       *)
(***************************************************************************)
EXTENDS Integers, Sequences, FiniteSets

CONSTANT NullScheme

(* Priorities are unique and no configuration is repeated.                 *)
LegalList(list) ==
  \A i, j \in DOMAIN list :
    i # j => /\ list[i].priority # list[j].priority
             /\ list[i].protection # list[j].protection

(* How many of the entries at these positions do not come behind entry i   *)
Place(list, positions, i) ==
  Cardinality({j \in positions : list[j].priority <= list[i].priority})

(* The entries at these positions, sorted by their priorities              *)
Sorted(list, positions) ==
  [k \in 1..Cardinality(positions) |->
     list[CHOOSE i \in positions : Place(list, positions, i) = k]]

ByPriority(list) == Sorted(list, DOMAIN list)

(* The preferred configuration: the one with the smallest priority         *)
Preferred(list) == ByPriority(list)[1]

OnlyEntry(protection) == <<[priority |-> 0, protection |-> protection]>>

Protected(list) == {i \in DOMAIN list : list[i].protection # NullScheme}

HnetKeys(list) ==
  LET entries == Sorted(list, Protected(list))
  IN  [i \in DOMAIN entries |-> entries[i].protection]

(* Mutant: positions start at 0.                                           *)
KeyIndexFromZero(keys, protection) ==
  IF protection = NullScheme THEN 0
  ELSE (CHOOSE i \in DOMAIN keys : keys[i] = protection) - 1

KeyIndex(keys, protection) ==
  IF protection = NullScheme THEN 0
  ELSE CHOOSE i \in DOMAIN keys : keys[i] = protection

BuildCalcInfo(list) ==
  LET entries == ByPriority(list)
      keys == HnetKeys(list)
  IN  [schemes |-> [i \in DOMAIN entries |->
                      [priority |-> entries[i].priority,
                       keyIndex |-> KeyIndex(keys, entries[i].protection)]],
       keys |-> keys]

(* What a read card reports of the file                                    *)
ReadConfigurations(calc) ==
  LET entries == ByPriority(calc.schemes)
  IN  [i \in DOMAIN entries |->
         [priority |-> entries[i].priority,
          protection |-> IF entries[i].keyIndex \in DOMAIN calc.keys
                         THEN calc.keys[entries[i].keyIndex]
                         ELSE NullScheme]]

(* Service 124: SUCI is calculated; 125: by the USIM and not by the ME.    *)
ServicesFor(mode) == [s124 |-> TRUE, s125 |-> mode = "usim"]

(* The file that a card with these services uses                           *)
ActiveMode(services) ==
  IF services.s124 /\ services.s125 THEN "usim" ELSE "me"
=============================================================================

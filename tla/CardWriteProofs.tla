--------------------------- MODULE CardWriteProofs ---------------------------
(***************************************************************************)
(* What a write leaves on the card, for lists of any length, any card, any *)
(* fields and any number of attempts that were cut off.                    *)
(***************************************************************************)
EXTENDS CardWrite, FiniteSetTheorems, SequenceTheorems, WellFoundedInduction, TLAPS

-----------------------------------------------------------------------------
(* Entries in the order of their priorities                                *)

Numbered(list, S) ==
  /\ IsFiniteSet(S)
  /\ \A i \in S : list[i].priority \in Int
  /\ \A i, j \in S : list[i].priority = list[j].priority => i = j

(* The places of the entries are 1 to their number, and a smaller priority *)
(* has a smaller place.                                                    *)
LEMMA Places ==
  ASSUME NEW list, NEW S, Numbered(list, S)
  PROVE  /\ Cardinality(S) \in Nat
         /\ \A i \in S : Place(list, S, i) \in 1..Cardinality(S)
         /\ \A i, j \in S : list[i].priority < list[j].priority =>
              Place(list, S, i) < Place(list, S, j)
<1> DEFINE Below(i) == {j \in S : list[j].priority <= list[i].priority}
<1> USE DEF Numbered
<1>1. ASSUME NEW i \in S
      PROVE  /\ IsFiniteSet(Below(i)) /\ Cardinality(Below(i)) \in Nat
             /\ Cardinality(Below(i)) <= Cardinality(S)
             /\ Cardinality(Below(i)) # 0
  <2>1. Below(i) \in SUBSET S /\ i \in Below(i)
    OBVIOUS
  <2>2. IsFiniteSet(Below(i)) /\ Cardinality(Below(i)) <= Cardinality(S)
    BY <2>1, FS_Subset
  <2>3. Cardinality(Below(i)) \in Nat
    BY <2>2, FS_CardinalityType
  <2>4. Cardinality(Below(i)) # 0
    BY <2>1, <2>2, FS_EmptySet
  <2> QED BY <2>2, <2>3, <2>4
<1>2. Cardinality(S) \in Nat
  BY FS_CardinalityType
<1>3. ASSUME NEW i \in S, NEW j \in S, list[i].priority < list[j].priority
      PROVE  Cardinality(Below(i)) < Cardinality(Below(j))
  <2>1. Below(i) \in SUBSET Below(j) /\ j \in Below(j) /\ j \notin Below(i)
    BY <1>3
  <2>2. Cardinality(Below(i)) <= Cardinality(Below(j))
    BY <1>1, <2>1, FS_Subset
  <2>3. Cardinality(Below(i)) # Cardinality(Below(j))
    BY <1>1, <2>1, FS_Subset
  <2> QED BY <1>1, <2>2, <2>3
<1>4. \A i \in S : Place(list, S, i) = Cardinality(Below(i))
  BY DEF Place
<1>5. ASSUME NEW i \in S
      PROVE  Place(list, S, i) \in 1..Cardinality(S)
  <2> HIDE DEF Numbered, Below
  <2> QED BY <1>1, <1>2, <1>4
<1>6. ASSUME NEW i \in S, NEW j \in S, list[i].priority < list[j].priority
      PROVE  Place(list, S, i) < Place(list, S, j)
  BY <1>3, <1>4, <1>6
<1> HIDE DEF Numbered, Below
<1> QED BY <1>2, <1>5, <1>6

(* Every place is taken.                                                   *)
LEMMA PlacesTaken ==
  ASSUME NEW list, NEW S, Numbered(list, S)
  PROVE  \A k \in 1..Cardinality(S) : \E i \in S : Place(list, S, i) = k
<1> DEFINE n == Cardinality(S)
           place == [i \in S |-> Place(list, S, i)]
<1>1. n \in Nat /\ place \in [S -> 1..n]
  BY Places
<1>2. \A i, j \in S : place[i] = place[j] => i = j
  <2> SUFFICES ASSUME NEW i \in S, NEW j \in S, i # j
               PROVE  place[i] # place[j]
    OBVIOUS
  <2>1. list[i].priority < list[j].priority \/ list[j].priority < list[i].priority
    BY DEF Numbered
  <2>2. place[i] < place[j] \/ place[j] < place[i]
    BY <2>1, Places
  <2> QED BY <1>1, <2>2
<1>3. place \in Injection(S, 1..n)
  BY <1>1, <1>2 DEF Injection, IsInjective
<1>4. IsFiniteSet(1..n) /\ Cardinality(1..n) = n
  BY <1>1, FS_Interval
<1>5. place \in Surjection(S, 1..n)
  BY <1>3, <1>4, FS_Injection
<1> QED BY <1>5 DEF Surjection

(* What Sorted returns: the entries of these positions, all of them, in    *)
(* the strict order of their priorities.                                   *)
LEMMA SortedEntries ==
  ASSUME NEW list, NEW S, Numbered(list, S)
  PROVE  /\ Cardinality(S) \in Nat
         /\ DOMAIN Sorted(list, S) = 1..Cardinality(S)
         /\ \A k \in 1..Cardinality(S) : \E i \in S : Sorted(list, S)[k] = list[i]
         /\ \A i \in S : \E k \in 1..Cardinality(S) : Sorted(list, S)[k] = list[i]
         /\ \A k, m \in 1..Cardinality(S) : k < m =>
              Sorted(list, S)[k].priority < Sorted(list, S)[m].priority
<1> DEFINE n == Cardinality(S)
           at(k) == CHOOSE i \in S : Place(list, S, i) = k
<1>1. \A k \in 1..n : at(k) \in S /\ Place(list, S, at(k)) = k
  BY PlacesTaken
<1>2. Sorted(list, S) = [k \in 1..n |-> list[at(k)]]
  BY DEF Sorted
<1>3. n \in Nat /\ \A i \in S : Place(list, S, i) \in 1..n
  BY Places
<1>4. ASSUME NEW i \in S
      PROVE  at(Place(list, S, i)) = i
  <2> DEFINE k == Place(list, S, i)
  <2>1. at(k) \in S /\ Place(list, S, at(k)) = k
    BY <1>1, <1>3
  <2>2. ~(list[at(k)].priority < list[i].priority)
        /\ ~(list[i].priority < list[at(k)].priority)
    BY <2>1, <1>3, Places
  <2>3. list[at(k)].priority = list[i].priority
    BY <2>1, <2>2 DEF Numbered
  <2> QED BY <2>1, <2>3 DEF Numbered
<1>5. ASSUME NEW k \in 1..n, NEW m \in 1..n, k < m
      PROVE  list[at(k)].priority < list[at(m)].priority
  <2>1. at(k) \in S /\ at(m) \in S /\ Place(list, S, at(k)) = k /\ Place(list, S, at(m)) = m
    BY <1>1
  <2>2. ~(list[at(m)].priority < list[at(k)].priority)
    BY <2>1, <1>3, <1>5, Places
  <2>3. list[at(m)].priority # list[at(k)].priority
    BY <2>1, <1>3, <1>5 DEF Numbered
  <2> QED BY <2>1, <2>2, <2>3 DEF Numbered
<1> HIDE DEF at
<1> QED BY <1>1, <1>2, <1>3, <1>4, <1>5

LEMMA IntervalSize ==
  \A n \in Nat : IsFiniteSet(1..n) /\ Cardinality(1..n) = n
<1> TAKE n \in Nat
<1>1. Cardinality(1..n) = IF 1 > n THEN 0 ELSE n - 1 + 1
  BY FS_Interval
<1>2. IsFiniteSet(1..n)
  BY FS_Interval
<1> QED BY <1>1, <1>2

(* Entries that are in order already stay as they are.                     *)
LEMMA SortedAlready ==
  ASSUME NEW n \in Nat, NEW list, DOMAIN list = 1..n, list = [k \in 1..n |-> list[k]],
         \A k \in 1..n : list[k].priority \in Int,
         \A k, m \in 1..n : k < m => list[k].priority < list[m].priority
  PROVE  ByPriority(list) = list
<1>1. \A k \in Nat : IsFiniteSet(1..k) /\ Cardinality(1..k) = k
  BY IntervalSize
<1>2. ASSUME NEW k \in 1..n
      PROVE  Place(list, 1..n, k) = k
  <2>1. ASSUME NEW j \in 1..n
        PROVE  list[j].priority <= list[k].priority <=> j \in 1..k
    <3>1. j < k => list[j].priority < list[k].priority
      OBVIOUS
    <3>2. k < j => list[k].priority < list[j].priority
      OBVIOUS
    <3> QED BY <3>1, <3>2
  <2>2. {j \in 1..n : list[j].priority <= list[k].priority} = 1..k
    BY <2>1
  <2>3. Cardinality(1..k) = k
    BY <1>1
  <2> QED BY <2>2, <2>3 DEF Place
<1>3. \A k \in 1..n : (CHOOSE i \in 1..n : Place(list, 1..n, i) = k) = k
  BY <1>2
<1>4. ByPriority(list) = [k \in 1..n |-> list[CHOOSE i \in 1..n : Place(list, 1..n, i) = k]]
  BY <1>1 DEF ByPriority, Sorted
<1> QED BY <1>3, <1>4

-----------------------------------------------------------------------------
(* SUCI_Calc_Info                                                          *)

LEMMA ConfigurationParts ==
  ASSUME NEW entry \in Configuration
  PROVE  /\ entry.priority \in Int
         /\ entry.protection \in Protections
         /\ entry = [priority |-> entry.priority, protection |-> entry.protection]
<1>1. entry \in [priority : 0..255, protection : Protections]
  BY DEF Configuration
<1>2. entry.priority \in 0..255
  BY <1>1
<1> QED BY <1>1, <1>2

LEMMA LegalIsNumbered ==
  ASSUME NEW list \in Seq(Configuration), LegalList(list),
         NEW S \in SUBSET DOMAIN list
  PROVE  Numbered(list, S)
<1>1. DOMAIN list = 1..Len(list) /\ Len(list) \in Nat
  OBVIOUS
<1>2. IsFiniteSet(DOMAIN list)
  BY <1>1, IntervalSize
<1>3. IsFiniteSet(S)
  BY <1>2, FS_Subset
<1>4. \A i \in S : list[i].priority \in Int
  <2> TAKE i \in S
  <2>1. list[i] \in Configuration
    BY <1>1
  <2> QED BY <2>1, ConfigurationParts
<1> QED BY <1>3, <1>4 DEF Numbered, LegalList

(* The sorted list has the entries of the list.                            *)
LEMMA ByPriorityIsList ==
  ASSUME NEW list \in Seq(Configuration), LegalList(list)
  PROVE  /\ ByPriority(list) \in Seq(Configuration)
         /\ Len(ByPriority(list)) = Len(list)
<1>1. Numbered(list, DOMAIN list)
  BY LegalIsNumbered
<1>2. Cardinality(DOMAIN list) = Len(list)
  <2>1. DOMAIN list = 1..Len(list) /\ Len(list) \in Nat
    OBVIOUS
  <2> QED BY <2>1, IntervalSize
<1>3. ByPriority(list) = [k \in 1..Len(list) |-> ByPriority(list)[k]]
  BY <1>2 DEF ByPriority, Sorted
<1>4. \A k \in 1..Len(list) : ByPriority(list)[k] \in Configuration
  BY <1>1, <1>2, SortedEntries DEF ByPriority
<1> QED BY <1>3, <1>4

(* The index that is built for a protection is its place in the key list,  *)
(* and for the null scheme no place in it.                                 *)
LEMMA KeyIndexFinds ==
  ASSUME NEW list \in Seq(Configuration), LegalList(list), NEW i \in DOMAIN list
  PROVE  LET keys == HnetKeys(list)
             index == KeyIndex(keys, list[i].protection)
         IN  IF list[i].protection = NullScheme THEN index \notin DOMAIN keys
             ELSE index \in DOMAIN keys /\ keys[index] = list[i].protection
<1> DEFINE P == Protected(list)
           n == Cardinality(P)
           keys == HnetKeys(list)
<1>1. Numbered(list, P)
  BY LegalIsNumbered DEF Protected
<1>2. n \in Nat /\ DOMAIN Sorted(list, P) = 1..n
  BY <1>1, SortedEntries
<1>3. keys = [k \in 1..n |-> Sorted(list, P)[k].protection]
  BY <1>2 DEF HnetKeys
<1>4. CASE list[i].protection = NullScheme
  BY <1>2, <1>3, <1>4 DEF KeyIndex
<1>5. CASE list[i].protection # NullScheme
  <2>1. i \in P
    BY <1>5 DEF Protected
  <2>2. \E k \in DOMAIN keys : keys[k] = list[i].protection
    BY <1>1, <1>3, <2>1, SortedEntries
  <2> QED BY <1>5, <2>2 DEF KeyIndex
<1> QED BY <1>4, <1>5

(* A file that was built from a list of configurations is read back as     *)
(* this list, sorted: builder and reader of adapters/suci.py are inverse   *)
(* for lists of any length.                                                *)
THEOREM ReadsBackAsBuilt ==
  ASSUME NEW list \in Seq(Configuration), LegalList(list)
  PROVE  ReadConfigurations(BuildCalcInfo(list)) = ByPriority(list)
<1> DEFINE entries == ByPriority(list)
           n == Len(list)
           keys == HnetKeys(list)
           schemes == [k \in 1..n |-> [priority |-> entries[k].priority,
                                       keyIndex |-> KeyIndex(keys, entries[k].protection)]]
<1>1. n \in Nat /\ entries \in Seq(Configuration) /\ DOMAIN entries = 1..n
  BY ByPriorityIsList
<1>2. BuildCalcInfo(list) = [schemes |-> schemes, keys |-> keys]
  BY <1>1 DEF BuildCalcInfo
<1>3. Numbered(list, DOMAIN list) /\ Cardinality(DOMAIN list) = n
  <2>1. DOMAIN list = 1..n
    OBVIOUS
  <2> QED BY <1>1, <2>1, LegalIsNumbered, IntervalSize
<1>4. ByPriority(schemes) = schemes
  <2>1. \A k, m \in 1..n : k < m => entries[k].priority < entries[m].priority
    BY <1>3, SortedEntries DEF ByPriority
  <2>2. \A k \in 1..n : schemes[k].priority = entries[k].priority
    OBVIOUS
  <2>3. \A k \in 1..n : entries[k].priority \in Int
    <3> TAKE k \in 1..n
    <3>1. entries[k] \in Configuration
      BY <1>1
    <3> HIDE DEF entries
    <3> QED BY <3>1, ConfigurationParts
  <2>4. DOMAIN schemes = 1..n /\ schemes = [k \in 1..n |-> schemes[k]]
    OBVIOUS
  <2> HIDE DEF schemes, entries
  <2> QED BY <1>1, <2>1, <2>2, <2>3, <2>4, SortedAlready
<1>5. ASSUME NEW k \in 1..n
      PROVE  entries[k] = [priority |-> entries[k].priority,
                           protection |-> IF schemes[k].keyIndex \in DOMAIN keys
                                          THEN keys[schemes[k].keyIndex] ELSE NullScheme]
  <2>1. PICK i \in DOMAIN list : entries[k] = list[i]
    BY <1>3, SortedEntries DEF ByPriority
  <2>2. schemes[k].keyIndex = KeyIndex(keys, list[i].protection)
    BY <2>1
  <2>3. list[i].protection = IF schemes[k].keyIndex \in DOMAIN keys
                             THEN keys[schemes[k].keyIndex] ELSE NullScheme
    BY <2>2, KeyIndexFinds
  <2>4. entries[k] = [priority |-> entries[k].priority, protection |-> entries[k].protection]
    <3>1. entries[k] \in Configuration
      BY <1>1
    <3> HIDE DEF entries
    <3> QED BY <3>1, ConfigurationParts
  <2> QED BY <2>1, <2>3, <2>4
<1>6. ReadConfigurations(BuildCalcInfo(list)) =
        [k \in 1..n |-> [priority |-> schemes[k].priority,
                         protection |-> IF schemes[k].keyIndex \in DOMAIN keys
                                        THEN keys[schemes[k].keyIndex] ELSE NullScheme]]
  <2> DEFINE calc == [schemes |-> schemes, keys |-> keys]
  <2>1. calc.schemes = schemes /\ calc.keys = keys /\ DOMAIN schemes = 1..n
    OBVIOUS
  <2> HIDE DEF schemes, keys, calc
  <2>2. ReadConfigurations(calc) =
          [k \in 1..n |-> [priority |-> schemes[k].priority,
                           protection |-> IF schemes[k].keyIndex \in DOMAIN keys
                                          THEN keys[schemes[k].keyIndex] ELSE NullScheme]]
    BY <1>4, <2>1 DEF ReadConfigurations
  <2> QED BY <1>2, <2>2 DEF calc
<1>7. \A k \in 1..n : schemes[k].priority = entries[k].priority
  OBVIOUS
<1>8. entries = [k \in 1..n |-> entries[k]]
  BY <1>1
<1>9. entries =
        [k \in 1..n |-> [priority |-> schemes[k].priority,
                         protection |-> IF schemes[k].keyIndex \in DOMAIN keys
                                        THEN keys[schemes[k].keyIndex] ELSE NullScheme]]
  <2> HIDE DEF schemes, entries, keys
  <2> QED BY <1>5, <1>7, <1>8
<1> QED BY <1>6, <1>9

(* What can be written: typed, legal and not empty.                        *)
LEMMA ListsAreLegal ==
  ASSUME NEW list \in Lists
  PROVE  list \in Seq(Configuration) /\ LegalList(list) /\ list # <<>>
<1>1. CASE list \in {r.list : r \in Requested} /\ list # <<>> /\ LegalList(list)
  <2>1. PICK r \in Requested : list = r.list
    BY <1>1
  <2>2. r \in Record
    BY RecordsAssumption
  <2>3. r.list \in Seq(Configuration)
    BY <2>2 DEF Record
  <2> QED BY <1>1, <2>1, <2>3
<1>2. ASSUME NEW p \in Protections, list = OnlyEntry(p)
      PROVE  list \in Seq(Configuration) /\ LegalList(list) /\ list # <<>>
  <2>1. [priority |-> 0, protection |-> p] \in Configuration
    BY DEF Configuration
  <2> QED BY <1>2, <2>1 DEF OnlyEntry, LegalList
<1> QED BY <1>1, <1>2 DEF Lists

(* The preferred configuration of such a list, as written and as read      *)
LEMMA PreferredIsTyped ==
  ASSUME NEW list \in Seq(Configuration), LegalList(list), list # <<>>
  PROVE  /\ Preferred(list) \in Configuration
         /\ ReadConfigurations(BuildCalcInfo(list))[1] = Preferred(list)
<1>1. 1 \in 1..Len(ByPriority(list)) /\ ByPriority(list) \in Seq(Configuration)
  BY ByPriorityIsList
<1> QED BY <1>1, ReadsBackAsBuilt DEF Preferred

(* A list of one entry is in order.                                        *)
LEMMA PreferredOfOne ==
  ASSUME NEW list \in Seq(Configuration), Len(list) = 1
  PROVE  Preferred(list) = list[1]
<1>1. 1 \in Nat /\ DOMAIN list = 1..1 /\ list = [k \in 1..1 |-> list[k]]
  OBVIOUS
<1>2. \A k \in 1..1 : list[k].priority \in Int
  BY <1>1, ConfigurationParts
<1>3. \A k, m \in 1..1 : k < m => list[k].priority < list[m].priority
  OBVIOUS
<1>4. ByPriority(list) = list
  BY <1>1, <1>2, <1>3, SortedAlready
<1> QED BY <1>4 DEF Preferred

(* Four digits are as long as a routing indicator gets.                    *)
LEMMA ZfillType ==
  ASSUME NEW digits \in RoutingValues
  PROVE  /\ Zfill(digits) \in RoutingValues
         /\ Len(digits) = 4 => Zfill(digits) = digits
         /\ Len(Zfill(digits)) = 4
<1>1. digits \in Seq(0..9) /\ Len(digits) \in 0..4
  <2>1. digits \in Seq(0..9) /\ Len(digits) <= 4
    BY DEF RoutingValues
  <2> DEFINE n == Len(digits)
  <2>2. n \in Nat
    BY <2>1, LenProperties
  <2> HIDE DEF n
  <2>3. n <= 4 => n \in 0..4
    BY <2>2
  <2> QED BY <2>1, <2>3 DEF n
<1>2. Zfill(digits) \in [1..4 -> 0..9]
  <2>1. ASSUME NEW i \in 1..4, i > 4 - Len(digits)
        PROVE  digits[i - 4 + Len(digits)] \in 0..9
    <3>1. i - 4 + Len(digits) \in 1..Len(digits)
      BY <1>1, <2>1
    <3> QED BY <1>1, <3>1
  <2> QED BY <2>1 DEF Zfill
<1>3. Zfill(digits) \in Seq(0..9) /\ Len(Zfill(digits)) = 4
  <2>1. Zfill(digits) \in Seq(0..9)
    BY <1>2, SeqDef
  <2>2. DOMAIN Zfill(digits) = 1..4
    BY <1>2
  <2> HIDE DEF Zfill
  <2> QED BY <2>1, <2>2, LenProperties
<1>4. ASSUME Len(digits) = 4
      PROVE  Zfill(digits) = digits
  <2>1. digits \in [1..4 -> 0..9]
    BY <1>1, <1>4, LenProperties
  <2>2. \A i \in 1..4 : i > 4 - Len(digits) /\ i - 4 + Len(digits) = i
    BY <1>4
  <2>3. \A i \in 1..4 : Zfill(digits)[i] = digits[i]
    BY <2>2 DEF Zfill
  <2> QED BY <1>2, <2>1, <2>3
<1>5. Zfill(digits) \in RoutingValues
  BY <1>3 DEF RoutingValues
<1> QED BY <1>3, <1>4, <1>5

-----------------------------------------------------------------------------
(* The order of the stages                                                 *)

LEMMA StageOrder ==
  /\ AllStages = {"check", "pre_routing", "pre_calc", "pre_ust", "pre_spn",
                  "imsi", "acc", "msisdn", "spn", "auth3g", "auth2g",
                  "impi", "ims_domain", "impu", "ist", "routing", "calc", "ust", "commit"}
  /\ Position \in [AllStages -> 1..19]
  /\ \A s, t \in AllStages : Position[s] = Position[t] => s = t
  /\ \A s \in {"check", "pre_routing", "pre_calc", "pre_ust", "pre_spn"} : Position[s] <= 5
  /\ \A s \in AllStages \ {"check", "pre_routing", "pre_calc", "pre_ust", "pre_spn"} :
       Position[s] > 5
  /\ Position["calc"] < Position["ust"]
  /\ \A s \in AllStages : Position[s] <= Position["commit"]
<1>1. DOMAIN Stages = 1..19 /\ Len(Stages) = 19
  BY DEF Stages
<1>2. \A i, j \in 1..19 : Stages[i] = Stages[j] => i = j
  BY DEF Stages
<1>3. \A i \in 1..19 : Stages[i] \in AllStages /\ Position[Stages[i]] = i
  <2> TAKE i \in 1..19
  <2>1. Stages[i] \in AllStages
    BY <1>1 DEF AllStages
  <2>2. (CHOOSE j \in DOMAIN Stages : Stages[j] = Stages[i]) = i
    BY <1>1, <1>2
  <2> QED BY <2>1, <2>2 DEF Position
<1>4. \A s \in AllStages : \E i \in 1..19 : s = Stages[i]
  BY <1>1 DEF AllStages
<1>5. Position \in [AllStages -> 1..19]
  BY <1>3, <1>4 DEF Position
<1>6. \A i \in 1..19 : i <= 5 <=>
        Stages[i] \in {"check", "pre_routing", "pre_calc", "pre_ust", "pre_spn"}
  BY DEF Stages
<1>7. Stages[17] = "calc" /\ Stages[18] = "ust" /\ Stages[19] = "commit"
  BY DEF Stages
<1>8. AllStages = {Stages[i] : i \in 1..19}
  BY <1>1 DEF AllStages
<1>9. AllStages = {"check", "pre_routing", "pre_calc", "pre_ust", "pre_spn",
                   "imsi", "acc", "msisdn", "spn", "auth3g", "auth2g",
                   "impi", "ims_domain", "impu", "ist", "routing", "calc", "ust", "commit"}
  BY <1>8 DEF Stages
<1>10. \A s \in {"check", "pre_routing", "pre_calc", "pre_ust", "pre_spn"} : Position[s] <= 5
  BY <1>3, <1>4, <1>6, <1>9
<1>11. \A s \in AllStages \ {"check", "pre_routing", "pre_calc", "pre_ust", "pre_spn"} :
         Position[s] > 5
  BY <1>3, <1>4, <1>6
<1>12. Position["calc"] = 17 /\ Position["ust"] = 18 /\ Position["commit"] = 19
  BY <1>3, <1>7
<1>13. \A s, t \in AllStages : Position[s] = Position[t] => s = t
  BY <1>3, <1>4
<1>14. \A s \in AllStages : Position[s] <= 19
  BY <1>3, <1>4
<1> HIDE DEF AllStages
<1> QED BY <1>5, <1>9, <1>10, <1>11, <1>12, <1>13, <1>14

Preflights == {"check", "pre_routing", "pre_calc", "pre_ust", "pre_spn"}

(* A stage that is next finds no earlier one left.                         *)
LEMMA NothingEarlierIsLeft ==
  ASSUME NEW stage, At(stage), bridge \subseteq AllStages
  PROVE  /\ stage \in AllStages
         /\ stage \notin Preflights => bridge \cap Preflights = {}
         /\ stage = "ust" => "calc" \notin bridge
         /\ stage = "commit" => bridge = {"commit"}
<1>1. \A other \in bridge : Position[stage] <= Position[other]
  BY DEF At
<1>2. stage \in bridge /\ stage \in AllStages
  BY DEF At
<1>3. Position \in [AllStages -> 1..19]
  BY StageOrder
<1>4. ASSUME stage \notin Preflights, NEW other \in bridge \cap Preflights
      PROVE  FALSE
  <2>1. Position[stage] > 5 /\ Position[other] <= 5
    BY <1>2, <1>4, StageOrder DEF Preflights
  <2> QED BY <1>1, <1>2, <1>3, <1>4, <2>1
<1>5. ASSUME stage = "ust"
      PROVE  "calc" \notin bridge
  <2>1. Position["calc"] < Position["ust"]
    BY StageOrder
  <2> QED BY <1>1, <1>2, <1>3, <1>5, <2>1
<1>6. ASSUME stage = "commit", NEW other \in bridge
      PROVE  other = "commit"
  <2>1. Position[other] <= Position["commit"]
    BY StageOrder
  <2>2. Position[other] = Position["commit"]
    BY <1>1, <1>2, <1>3, <1>6, <2>1
  <2> QED BY <1>2, <1>6, <2>2, StageOrder
<1> QED BY <1>2, <1>4, <1>5, <1>6

(* What is left is what the draft involves from some stage on.             *)
BridgeInOrder ==
  bridge # {} =>
    /\ draft # NoDraft
    /\ \E n \in 1..Len(Stages) : bridge = {s \in Program : Position[s] >= n}

LEMMA PassKeepsOrder ==
  ASSUME BridgeInOrder, NEW stage, Pass(stage), UNCHANGED draft
  PROVE  BridgeInOrder'
<1>1. Program' = Program
  BY DEF Program, Involved, ChangesSuci
<1>2. Program \subseteq AllStages /\ Len(Stages) = 19
  BY DEF Program, Stages
<1>3. PICK n \in 1..19 : bridge = {s \in Program : Position[s] >= n}
  BY <1>2 DEF BridgeInOrder, Pass, At
<1>4. stage \in bridge /\ bridge' = bridge \ {stage}
  BY DEF Pass, At
<1>5. \A s \in AllStages : Position[s] \in 1..19
  BY StageOrder
<1>6. bridge' = {s \in Program : Position[s] >= Position[stage] + 1}
  <2>1. ASSUME NEW s \in bridge, s # stage
        PROVE  Position[s] >= Position[stage] + 1
    <3>1. Position[stage] <= Position[s] /\ Position[stage] # Position[s]
      BY <1>2, <1>3, <1>4, <2>1, StageOrder DEF Pass, At
    <3> QED BY <1>2, <1>3, <1>4, <1>5, <3>1
  <2>2. ASSUME NEW s \in Program, Position[s] >= Position[stage] + 1
        PROVE  s \in bridge /\ s # stage
    <3>1. Position[stage] >= n
      BY <1>3, <1>4
    <3> QED BY <1>2, <1>3, <1>4, <1>5, <2>2, <3>1
  <2> QED BY <1>3, <1>4, <2>1, <2>2
<1>7. bridge' # {} => Position[stage] + 1 \in 1..19
  BY <1>2, <1>3, <1>4, <1>5, <1>6
<1> QED BY <1>1, <1>2, <1>4, <1>6, <1>7 DEF BridgeInOrder

-----------------------------------------------------------------------------
(* The invariant                                                           *)

(* A draft is valid, and handed to the bridge as it is stored.             *)
DraftIsReady ==
  draft # NoDraft =>
    /\ revision < MaxRevision
    /\ Valid(draft.record)
    /\ Payload = draft.record
    /\ draft.record.list \in Lists \cup {<<>>}

Passed(stage) == stage \in Program \ bridge

(* What the bridge has passed is on the card, or was found there.          *)
PassedIsDone ==
  bridge # {} =>
    /\ \A file \in PlainFiles :
         Passed(file) => card.plain[file] = Contents(Payload.plain, file)
    /\ Passed("routing") => card.routing = Payload.routing
    /\ Passed("calc") => card.calc[TargetFile] = BuildCalcInfo(TargetConfigurations)
    /\ Passed("ust") => card.services = ServicesFor(Payload.mode)
    /\ Passed("check") =>
         (draft.changed \ {"imsi", "acc", "msisdn", "spn"} # {} => "sja5" \notin lacking)
    /\ Passed("pre_routing") => "routing" \notin lacking
    /\ Passed("pre_calc") => TargetReady
    /\ Passed("pre_ust") => "ust" \notin lacking
    /\ Passed("pre_spn") => "spn" \notin lacking

CardInv == CardWriteTypeOK /\ DraftIsReady /\ PassedIsDone

(* What the validation of a draft makes of a record: another one, which it *)
(* leaves as it is.                                                        *)
LEMMA EffectiveRecord ==
  ASSUME NEW r \in Record, Valid(Effective(r))
  PROVE  /\ Effective(r) \in Record
         /\ Effective(r).list = Configurations(r)
         /\ Effective(Effective(r)) = Effective(r)
<1> DEFINE e == Effective(r)
           list == Configurations(r)
           protection == IF list = <<>> THEN Unset ELSE Preferred(list).protection
<1>1. r \in [plain : [Plain -> Values], routing : RoutingValues, mode : Modes,
             protection : Protections \cup {Unset}, form : Forms, list : Seq(Configuration)]
  BY DEF Record
<1>2. e = [r EXCEPT !.list = list, !.protection = protection]
  BY DEF Effective
<1>3. e.list = list /\ e.protection = protection
  BY <1>1, <1>2
<1>4. LegalList(list)
  BY <1>3 DEF Valid
<1>5. list \in Seq(Configuration)
  <2>1. CASE r.list # <<>>
    BY <1>1, <2>1 DEF Configurations
  <2>2. CASE r.list = <<>> /\ r.protection = Unset
    BY <2>2 DEF Configurations
  <2>3. CASE r.list = <<>> /\ r.protection # Unset
    <3>1. [priority |-> 0, protection |-> r.protection] \in Configuration
      BY <1>1, <2>3 DEF Configuration
    <3> QED BY <2>3, <3>1 DEF Configurations, OnlyEntry
  <2> QED BY <2>1, <2>2, <2>3
<1>6. protection \in Protections \cup {Unset}
  BY <1>4, <1>5, PreferredIsTyped, ConfigurationParts
<1>7. e \in Record
  <2> HIDE DEF list, protection
  <2> QED BY <1>1, <1>2, <1>5, <1>6 DEF Record
<1>8. Configurations(e) = list
  <2>1. list = <<>> => protection = Unset
    OBVIOUS
  <2> QED BY <1>3, <2>1 DEF Configurations
<1>9. Effective(e) = [e EXCEPT !.list = list, !.protection = protection]
  BY <1>8 DEF Effective
<1>10. [e EXCEPT !.list = list, !.protection = protection] = e
  <2> HIDE DEF list, protection
  <2> QED BY <1>1, <1>2
<1> QED BY <1>3, <1>7, <1>9, <1>10

(* A valid proposal has a list that can be written, or none.               *)
LEMMA ProposalHasList ==
  ASSUME NEW r \in Requested, Valid(Effective(r))
  PROVE  Effective(r).list \in Lists \cup {<<>>}
<1>1. r \in Record
  BY RecordsAssumption
<1>2. Effective(r).list = Configurations(r)
  BY <1>1, EffectiveRecord
<1>3. LegalList(Configurations(r))
  BY <1>2 DEF Valid
<1>4. CASE r.list # <<>>
  BY <1>2, <1>3, <1>4 DEF Configurations, Lists
<1>5. CASE r.list = <<>> /\ r.protection = Unset
  BY <1>2, <1>5 DEF Configurations
<1>6. CASE r.list = <<>> /\ r.protection # Unset
  <2>1. r.protection \in Protections
    BY <1>1, <1>6 DEF Record
  <2> QED BY <1>2, <1>6, <2>1 DEF Configurations, Lists
<1> QED BY <1>4, <1>5, <1>6

LEMMA InitInv == Init => CardInv
<1> SUFFICES ASSUME Init
             PROVE  CardInv
  OBVIOUS
<1>1. active \in Record /\ draft = NoDraft /\ bridge = {} /\ revision = 1
  BY RecordsAssumption DEF Init
<1>2. lacking \subseteq Lackable
  BY DEF Init
<1>3. PICK calc \in {Blank, BuildCalcInfo(OnlyEntry(NullScheme))}, s124 \in BOOLEAN :
        card = [plain |-> [f \in PlainFiles |-> Contents(active.plain, f)],
                routing |-> Zfill(active.routing), calc |-> [m \in Modes |-> calc],
                services |-> [s124 |-> s124, s125 |-> FALSE]]
  BY DEF Init
<1>4. active.plain \in [Plain -> Values] /\ active.routing \in RoutingValues
  BY <1>1 DEF Record
<1>5. calc \in CalcFiles
  BY DEF CalcFiles, Lists, Protections
<1>6. CardTypeOK
  BY <1>3, <1>4, <1>5, ZfillType DEF CardTypeOK
<1>7. 1 \in 1..MaxRevision
  BY CardWriteAssumption
<1> QED BY <1>1, <1>2, <1>6, <1>7
  DEF CardInv, CardWriteTypeOK, DraftIsReady, PassedIsDone

(* A file that can be decoded gives typed configurations.                  *)
LEMMA ReadConfigurationsType ==
  ASSUME CardTypeOK, SuciReadable
  PROVE  CardConfigurations[1].protection \in Protections
<1> DEFINE mode == ActiveMode(card.services)
<1>1. mode \in Modes
  BY DEF ActiveMode, Modes
<1>2. card.calc[mode] \in CalcFiles /\ card.calc[mode] # Blank
  BY <1>1 DEF CardTypeOK, SuciReadable
<1>3. PICK list \in Lists : card.calc[mode] = BuildCalcInfo(list)
  BY <1>2 DEF CalcFiles
<1>4. CardConfigurations[1] = Preferred(list) /\ Preferred(list) \in Configuration
  BY <1>3, ListsAreLegal, PreferredIsTyped DEF CardConfigurations
<1> QED BY <1>4, ConfigurationParts

LEMMA AdoptedType ==
  ASSUME CardTypeOK, active \in Record, NEW selected \in SUBSET Adoptable,
         \A f \in selected : Readable(f)
  PROVE  Adopted(active, selected) \in Record
<1> DEFINE plain == [f \in Plain |-> IF f \in selected THEN card.plain[f] ELSE active.plain[f]]
<1>1. active \in [plain : [Plain -> Values], routing : RoutingValues, mode : Modes,
                  protection : Protections \cup {Unset}, form : Forms,
                  list : Seq(Configuration)]
  BY DEF Record
<1>2. plain \in [Plain -> Values]
  <2>1. ASSUME NEW f \in Plain, f \in selected
        PROVE  card.plain[f] \in Values
    <3>1. f \in PlainFiles /\ f \notin AuthFiles
      BY <2>1 DEF Adoptable, ImsFields, PlainFiles, AuthFields, AuthFiles
    <3>2. PICK p \in [Plain -> Values] : card.plain[f] = Contents(p, f)
      BY <3>1 DEF CardTypeOK
    <3> QED BY <3>1, <3>2 DEF Contents
  <2> QED BY <1>1, <2>1
<1>3. CASE "suci" \in selected
  <2>1. SuciReadable
    BY <1>3 DEF Readable
  <2>2. CardConfigurations[1].protection \in Protections
    BY <2>1, ReadConfigurationsType
  <2>3. Zfill(card.routing) \in RoutingValues
    BY ZfillType DEF CardTypeOK
  <2>4. Adopted(active, selected) =
          [active EXCEPT !.plain = plain, !.routing = Zfill(card.routing),
                         !.protection = CardConfigurations[1].protection, !.form = "card"]
    BY <1>3 DEF Adopted, WithCardValues
  <2> HIDE DEF plain
  <2> QED BY <1>1, <1>2, <2>2, <2>3, <2>4 DEF Record, Forms
<1>4. CASE "suci" \notin selected
  <2>1. Adopted(active, selected) = [active EXCEPT !.plain = plain]
    BY <1>4 DEF Adopted, WithCardValues
  <2> HIDE DEF plain
  <2> QED BY <1>1, <1>2, <2>1 DEF Record
<1> QED BY <1>3, <1>4

(* The request handlers: the bridge is idle.                               *)
LEMMA IdleStepInv ==
  ASSUME CardInv,
         \/ \E request \in Requested : Prepare(request)
         \/ Discard
         \/ \E selected \in SUBSET Adoptable : AdoptReadableFields(selected)
         \/ StartWrite
  PROVE  CardInv'
<1> USE DEF CardInv
<1>1. ASSUME NEW request \in Requested, Prepare(request)
      PROVE  CardInv'
  <2> DEFINE proposed == Effective(request)
             changed == ChangedFields(active, proposed)
  <2>1. request \in Record /\ Valid(proposed)
    BY <1>1, RecordsAssumption DEF Prepare
  <2>2. proposed \in Record /\ Effective(proposed) = proposed
    BY <2>1, EffectiveRecord
  <2>3. proposed.list \in Lists \cup {<<>>}
    BY <2>1, ProposalHasList
  <2>4. /\ draft' = [record |-> proposed, changed |-> changed]
        /\ revision < MaxRevision /\ bridge = {}
        /\ UNCHANGED <<active, revision, card, lacking, bridge>>
    BY <1>1 DEF Prepare
  <2>5. changed \in SUBSET Fields
    BY DEF ChangedFields, Differing, TextFields, Fields, SuciFields
  <2>6. DraftIsReady'
    <3>1. draft'.record = proposed
      BY <2>4
    <3>2. Payload' = Effective(proposed)
      BY <3>1 DEF Payload
    <3> HIDE DEF proposed
    <3> QED BY <2>1, <2>2, <2>3, <2>4, <3>1, <3>2 DEF DraftIsReady
  <2>7. CardWriteTypeOK'
    <3>1. draft' \in [record : Record, changed : SUBSET Fields]
      BY <2>2, <2>4, <2>5
    <3>2. CardTypeOK'
      BY <2>4 DEF CardTypeOK, CardWriteTypeOK
    <3> QED BY <2>4, <3>1, <3>2 DEF CardWriteTypeOK
  <2>8. PassedIsDone'
    BY <2>4 DEF PassedIsDone
  <2> QED BY <2>6, <2>7, <2>8
<1>2. ASSUME Discard
      PROVE  CardInv'
  <2>1. /\ bridge = {} /\ draft' = NoDraft
        /\ UNCHANGED <<active, revision, card, lacking, bridge>>
    BY <1>2 DEF Discard
  <2>2. CardTypeOK'
    BY <2>1 DEF CardTypeOK, CardWriteTypeOK
  <2> QED BY <2>1, <2>2 DEF CardWriteTypeOK, DraftIsReady, PassedIsDone
<1>3. ASSUME NEW selected \in SUBSET Adoptable, AdoptReadableFields(selected)
      PROVE  CardInv'
  <2>1. /\ bridge = {} /\ draft = NoDraft /\ revision < MaxRevision
        /\ active' = Adopted(active, selected) /\ revision' = revision + 1
        /\ UNCHANGED <<draft, card, lacking, bridge>>
        /\ \A f \in selected : Readable(f)
    BY <1>3 DEF AdoptReadableFields
  <2>2. CardTypeOK /\ active \in Record
    BY DEF CardWriteTypeOK
  <2>3. active' \in Record
    BY <2>1, <2>2, AdoptedType
  <2>4. revision' \in 1..MaxRevision
    BY <2>1, CardWriteAssumption DEF CardWriteTypeOK
  <2>5. CardTypeOK'
    BY <2>1, <2>2 DEF CardTypeOK
  <2> QED BY <2>1, <2>3, <2>4, <2>5 DEF CardWriteTypeOK, DraftIsReady, PassedIsDone
<1>4. ASSUME StartWrite
      PROVE  CardInv'
  <2>1. /\ draft # NoDraft /\ bridge' = Program
        /\ UNCHANGED <<active, revision, draft, card, lacking>>
    BY <1>4 DEF StartWrite, vaultVars
  <2>2. Program' = Program
    BY <2>1 DEF Program, Involved, ChangesSuci
  <2>3. CardTypeOK'
    BY <2>1 DEF CardTypeOK, CardWriteTypeOK
  <2>4. Program = {s \in Program : Position[s] >= 1} /\ 1 \in 1..Len(Stages)
    BY StageOrder DEF Program, Stages
  <2>5. CardWriteTypeOK'
    BY <2>1, <2>2, <2>3, <2>4 DEF CardWriteTypeOK
  <2>6. PassedIsDone'
    BY <2>1, <2>2 DEF PassedIsDone, Passed
  <2>7. DraftIsReady'
    BY <2>1 DEF DraftIsReady, Payload
  <2> QED BY <2>5, <2>6, <2>7
<1> QED BY <1>1, <1>2, <1>3, <1>4

(* What a draft asks for stays as it is while the draft does.              *)
LEMMA SameDraft ==
  ASSUME UNCHANGED <<draft, lacking>>
  PROVE  /\ Program' = Program /\ Payload' = Payload /\ TargetFile' = TargetFile
         /\ TargetConfigurations' = TargetConfigurations
         /\ TargetReady' = TargetReady
<1>1. Payload' = Payload
  BY DEF Payload
<1> QED BY <1>1
  DEF Program, Involved, ChangesSuci, TargetFile, TargetConfigurations, PassesList, TargetReady

LEMMA BridgeIsKnown ==
  ASSUME CardInv, bridge # {}
  PROVE  /\ bridge \subseteq Program /\ Program \subseteq AllStages
         /\ BridgeInOrder /\ CardTypeOK
         /\ draft # NoDraft /\ draft.record \in Record
BY DEF CardInv, CardWriteTypeOK, BridgeInOrder, Program

(* A stage is passed and the vault left alone: what remains to be shown    *)
(* is about the card.                                                      *)
LEMMA StagePassed ==
  ASSUME CardInv, NEW stage, Pass(stage), UNCHANGED <<vaultVars, lacking>>,
         CardTypeOK', PassedIsDone'
  PROVE  CardInv'
<1>1. UNCHANGED <<active, revision, draft, lacking>>
  BY DEF vaultVars
<1>2. BridgeInOrder
  BY DEF CardInv, CardWriteTypeOK, BridgeInOrder
<1>3. BridgeInOrder'
  BY <1>1, <1>2, PassKeepsOrder
<1>4. CardWriteTypeOK'
  BY <1>1, <1>3 DEF CardInv, CardWriteTypeOK, BridgeInOrder
<1>5. DraftIsReady'
  BY <1>1 DEF CardInv, DraftIsReady, Payload
<1> QED BY <1>4, <1>5 DEF CardInv

(* What is passed then was passed before, or is this stage.                *)
LEMMA NewlyPassed ==
  ASSUME NEW stage, Pass(stage), UNCHANGED <<draft, lacking>>
  PROVE  /\ bridge # {}
         /\ \A s : Passed(s)' => Passed(s) \/ s = stage
BY SameDraft DEF Pass, At, Passed

LEMMA CheckInv ==
  ASSUME CardInv, Check \/ Preflight
  PROVE  CardInv'
<1>1. ASSUME NEW stage \in {"check", "pre_routing", "pre_calc", "pre_ust", "pre_spn"},
             Pass(stage), UNCHANGED <<vaultVars, card, lacking>>
      PROVE  CardInv'
  <2>1. UNCHANGED <<draft, lacking>>
    BY <1>1 DEF vaultVars
  <2>2. bridge # {} /\ \A s : Passed(s)' => Passed(s) \/ s = stage
    BY <1>1, <2>1, NewlyPassed
  <2>3. \A file \in PlainFiles : file # stage
    BY <1>1, CardWriteAssumption DEF PlainFiles, AuthFiles, AllPlain
  <2>4. PassedIsDone
    BY DEF CardInv
  <2>5. PassedIsDone'
    BY <1>1, <2>1, <2>2, <2>3, <2>4, SameDraft DEF PassedIsDone, Pass, Feasible
  <2>6. CardTypeOK'
    BY <1>1, <2>2, BridgeIsKnown DEF CardTypeOK
  <2> QED BY <1>1, <2>5, <2>6, StagePassed
<1> QED BY <1>1 DEF Check, Preflight

LEMMA WritePlainInv ==
  ASSUME CardInv, NEW file \in PlainFiles, WritePlain(file)
  PROVE  CardInv'
<1>1. /\ Pass(file) /\ UNCHANGED <<vaultVars, lacking>>
      /\ card' = [card EXCEPT !.plain[file] = Contents(Payload.plain, file)]
  BY DEF WritePlain
<1>2. UNCHANGED <<draft, lacking>>
  BY <1>1 DEF vaultVars
<1>3. bridge # {} /\ \A s : Passed(s)' => Passed(s) \/ s = file
  BY <1>1, <1>2, NewlyPassed
<1>4. /\ CardTypeOK /\ DOMAIN card.plain = PlainFiles
      /\ Payload.plain \in [Plain -> Values]
  BY <1>3, BridgeIsKnown DEF CardInv, CardTypeOK, DraftIsReady, Record
<1>5. /\ DOMAIN card' = DOMAIN card /\ DOMAIN card'.plain = PlainFiles
      /\ card'.plain[file] = Contents(Payload.plain, file)
      /\ \A other \in PlainFiles \ {file} : card'.plain[other] = card.plain[other]
      /\ card'.routing = card.routing /\ card'.calc = card.calc
      /\ card'.services = card.services
  BY <1>1, <1>4 DEF CardTypeOK
<1>6. CardTypeOK'
  BY <1>4, <1>5 DEF CardTypeOK
<1>7. file \notin {"routing", "calc", "ust", "commit"} \cup Preflights
  BY CardWriteAssumption DEF PlainFiles, AuthFiles, AllPlain, Preflights
<1>8. PassedIsDone'
  BY <1>2, <1>3, <1>5, <1>7, SameDraft DEF CardInv, PassedIsDone, Preflights
<1> QED BY <1>1, <1>6, <1>8, StagePassed

LEMMA WriteRoutingInv ==
  ASSUME CardInv, WriteRouting
  PROVE  CardInv'
<1>1. /\ Pass("routing") /\ UNCHANGED <<vaultVars, lacking>>
      /\ card' = [card EXCEPT !.routing = Payload.routing]
  BY DEF WriteRouting
<1>2. UNCHANGED <<draft, lacking>>
  BY <1>1 DEF vaultVars
<1>3. bridge # {} /\ \A s : Passed(s)' => Passed(s) \/ s = "routing"
  BY <1>1, <1>2, NewlyPassed
<1>4. CardTypeOK /\ Payload.routing \in RoutingValues
  BY <1>3, BridgeIsKnown DEF CardInv, DraftIsReady, Record
<1>5. /\ DOMAIN card' = DOMAIN card /\ card'.plain = card.plain
      /\ card'.routing = Payload.routing /\ card'.calc = card.calc
      /\ card'.services = card.services
  BY <1>1, <1>4 DEF CardTypeOK
<1>6. CardTypeOK'
  BY <1>4, <1>5 DEF CardTypeOK
<1>7. "routing" \notin PlainFiles
  BY CardWriteAssumption DEF PlainFiles, AuthFiles, AllPlain
<1>8. PassedIsDone'
  BY <1>2, <1>3, <1>5, <1>7, SameDraft DEF CardInv, PassedIsDone
<1> QED BY <1>1, <1>6, <1>8, StagePassed

LEMMA SuciStages ==
  ASSUME CardInv, bridge # {}
  PROVE  /\ "calc" \in Program <=> ChangesSuci
         /\ "ust" \in Program <=> ChangesSuci
         /\ "pre_calc" \in Program <=> ChangesSuci
         /\ "pre_ust" \in Program <=> ChangesSuci
<1>1. draft.changed \subseteq Fields
  BY DEF CardInv, CardWriteTypeOK
<1>2. {"calc", "ust", "pre_calc", "pre_ust"} \cap (draft.changed \cup AuthFiles) = {}
  BY <1>1, CardWriteAssumption DEF Fields, SuciFields, AuthFiles, AllPlain
<1>3. {"calc", "pre_calc", "pre_ust", "ust"} \subseteq AllStages
  BY StageOrder
<1>4. \A s \in {"calc", "pre_calc", "pre_ust", "ust"} : Involved(s) <=> ChangesSuci
  BY <1>2 DEF Involved
<1> QED BY <1>3, <1>4 DEF Program

(* What the bridge writes to SUCI_Calc_Info can be read back.              *)
LEMMA TargetIsLegal ==
  ASSUME CardInv, At("calc")
  PROVE  /\ TargetReady
         /\ TargetConfigurations \in Lists
         /\ TargetFile \in Modes
<1>1. bridge # {} /\ "calc" \in bridge
  BY DEF At
<1>2. bridge \subseteq Program /\ Program \subseteq AllStages
  BY <1>1, BridgeIsKnown
<1>3. Passed("pre_calc")
  <2>1. "pre_calc" \notin bridge
    BY <1>2, NothingEarlierIsLeft DEF Preflights
  <2>2. "pre_calc" \in Program
    BY <1>1, <1>2, SuciStages
  <2> QED BY <2>1, <2>2 DEF Passed
<1>4. TargetReady
  BY <1>1, <1>3 DEF CardInv, PassedIsDone
<1>5. draft.record \in Record /\ Payload = draft.record /\ Payload.list \in Lists \cup {<<>>}
  BY <1>1, BridgeIsKnown DEF CardInv, DraftIsReady
<1>6. Payload.protection \in Protections
  BY <1>4, <1>5 DEF TargetReady, Record
<1>7. TargetConfigurations \in Lists
  BY <1>5, <1>6 DEF TargetConfigurations, Lists
<1>8. TargetFile \in Modes
  BY <1>5 DEF TargetFile, Record
<1> QED BY <1>4, <1>7, <1>8

LEMMA WriteCalcInfoInv ==
  ASSUME CardInv, WriteCalcInfo
  PROVE  CardInv'
<1>1. /\ Pass("calc") /\ UNCHANGED <<vaultVars, lacking>>
      /\ card' = [card EXCEPT !.calc[TargetFile] = BuildCalcInfo(TargetConfigurations)]
  BY DEF WriteCalcInfo
<1>2. UNCHANGED <<draft, lacking>>
  BY <1>1 DEF vaultVars
<1>3. bridge # {} /\ \A s : Passed(s)' => Passed(s) \/ s = "calc"
  BY <1>1, <1>2, NewlyPassed
<1>4. CardTypeOK /\ TargetFile \in Modes /\ BuildCalcInfo(TargetConfigurations) \in CalcFiles
  BY <1>1, <1>3, BridgeIsKnown, TargetIsLegal DEF Pass, CalcFiles
<1>5. /\ DOMAIN card' = DOMAIN card /\ card'.plain = card.plain
      /\ card'.routing = card.routing
      /\ card'.calc = [card.calc EXCEPT ![TargetFile] = BuildCalcInfo(TargetConfigurations)]
      /\ card'.services = card.services
  BY <1>1, <1>4 DEF CardTypeOK
<1>6. /\ card'.calc \in [Modes -> CalcFiles]
      /\ card'.calc[TargetFile] = BuildCalcInfo(TargetConfigurations)
  BY <1>4, <1>5 DEF CardTypeOK
<1>7. CardTypeOK'
  BY <1>4, <1>5, <1>6 DEF CardTypeOK
<1>8. "calc" \notin PlainFiles
  BY CardWriteAssumption DEF PlainFiles, AuthFiles, AllPlain
<1>9. PassedIsDone'
  BY <1>2, <1>3, <1>5, <1>6, <1>8, SameDraft DEF CardInv, PassedIsDone
<1> QED BY <1>1, <1>7, <1>9, StagePassed

LEMMA WriteServicesInv ==
  ASSUME CardInv, WriteServices
  PROVE  CardInv'
<1>1. /\ Pass("ust") /\ UNCHANGED <<vaultVars, lacking>>
      /\ card' = [card EXCEPT !.services = ServicesFor(Payload.mode)]
  BY DEF WriteServices
<1>2. UNCHANGED <<draft, lacking>>
  BY <1>1 DEF vaultVars
<1>3. bridge # {} /\ \A s : Passed(s)' => Passed(s) \/ s = "ust"
  BY <1>1, <1>2, NewlyPassed
<1>4. CardTypeOK
  BY <1>3, BridgeIsKnown
<1>5. /\ DOMAIN card' = DOMAIN card /\ card'.plain = card.plain
      /\ card'.routing = card.routing /\ card'.calc = card.calc
      /\ card'.services = ServicesFor(Payload.mode)
  BY <1>1, <1>4 DEF CardTypeOK
<1>6. CardTypeOK'
  BY <1>4, <1>5 DEF CardTypeOK, ServicesFor
<1>7. "ust" \notin PlainFiles
  BY CardWriteAssumption DEF PlainFiles, AuthFiles, AllPlain
<1>8. PassedIsDone'
  BY <1>2, <1>3, <1>5, <1>7, SameDraft DEF CardInv, PassedIsDone
<1> QED BY <1>1, <1>6, <1>8, StagePassed

(* After its last stage the bridge is idle.                                *)
LEMMA CommitIsLast ==
  ASSUME CardInv, At("commit")
  PROVE  /\ bridge = {"commit"} /\ draft # NoDraft
         /\ \A s \in Program \ {"commit"} : Passed(s)
<1>1. bridge # {}
  BY DEF At
<1>2. bridge = {"commit"}
  BY <1>1, BridgeIsKnown, NothingEarlierIsLeft
<1> QED BY <1>1, <1>2, BridgeIsKnown DEF Passed

LEMMA CommitInv ==
  ASSUME CardInv, Commit
  PROVE  CardInv'
<1>1. /\ At("commit") /\ bridge' = bridge \ {"commit"}
      /\ active' = draft.record /\ revision' = revision + 1 /\ draft' = NoDraft
      /\ UNCHANGED <<card, lacking>>
  BY DEF Commit, Pass
<1>2. bridge' = {} /\ draft # NoDraft
  BY <1>1, CommitIsLast
<1>3. draft.record \in Record /\ revision < MaxRevision /\ revision \in 1..MaxRevision
  BY <1>2 DEF CardInv, CardWriteTypeOK, DraftIsReady
<1>4. revision + 1 \in 1..MaxRevision
  BY <1>3, CardWriteAssumption
<1>5. CardTypeOK'
  BY <1>1 DEF CardInv, CardWriteTypeOK, CardTypeOK
<1> QED BY <1>1, <1>2, <1>3, <1>4, <1>5
  DEF CardInv, CardWriteTypeOK, DraftIsReady, PassedIsDone

LEMMA BridgeFailsInv ==
  ASSUME CardInv, BridgeFails
  PROVE  CardInv'
<1>1. /\ bridge # {} /\ bridge' = {}
      /\ UNCHANGED <<active, revision, draft, lacking>>
  BY DEF BridgeFails, vaultVars
<1>2. CardTypeOK
  BY <1>1, BridgeIsKnown
<1>3. CardTypeOK'
  <2>1. CASE card' = card
    BY <1>2, <2>1 DEF CardTypeOK
  <2>2. CASE At("calc") /\ card' = [card EXCEPT !.calc[TargetFile] = Blank]
    <3>1. TargetFile \in Modes
      BY <2>2, TargetIsLegal
    <3>2. /\ DOMAIN card' = DOMAIN card /\ card'.plain = card.plain
          /\ card'.routing = card.routing /\ card'.services = card.services
          /\ card'.calc = [card.calc EXCEPT ![TargetFile] = Blank]
      BY <1>2, <2>2 DEF CardTypeOK
    <3>3. card'.calc \in [Modes -> CalcFiles]
      BY <1>2, <3>1, <3>2 DEF CardTypeOK, CalcFiles
    <3> QED BY <1>2, <3>2, <3>3 DEF CardTypeOK
  <2> QED BY <2>1, <2>2 DEF BridgeFails
<1>4. DraftIsReady'
  BY <1>1 DEF CardInv, DraftIsReady, Payload
<1> QED BY <1>1, <1>3, <1>4 DEF CardInv, CardWriteTypeOK, PassedIsDone

LEMMA StepInv == CardInv /\ [Next]_vars => CardInv'
<1> SUFFICES ASSUME CardInv, [Next]_vars
             PROVE  CardInv'
  OBVIOUS
<1>1. CASE UNCHANGED vars
  <2>1. UNCHANGED <<active, revision, draft, card, lacking, bridge>>
    BY <1>1 DEF vars
  <2>2. CardTypeOK' = CardTypeOK
    BY <2>1 DEF CardTypeOK
  <2> QED BY <2>1, <2>2, SameDraft
    DEF CardInv, CardWriteTypeOK, DraftIsReady, PassedIsDone, Passed
<1>2. CASE \/ \E request \in Requested : Prepare(request)
           \/ Discard
           \/ \E selected \in SUBSET Adoptable : AdoptReadableFields(selected)
           \/ StartWrite
  BY <1>2, IdleStepInv
<1>3. CASE BridgeStep
  BY <1>3, CheckInv, WritePlainInv, WriteRoutingInv, WriteCalcInfoInv, WriteServicesInv, CommitInv
  DEF BridgeStep
<1>4. CASE BridgeFails
  BY <1>4, BridgeFailsInv
<1> QED BY <1>1, <1>2, <1>3, <1>4 DEF Next

(* Everything the bridge has passed is on the card or was found there, and *)
(* whatever failed before left a card and a vault of the right types.      *)
THEOREM CardInvariant == Spec => []CardInv
<1> QED BY InitInv, StepInv, PTL DEF Spec

(* Types, and a bridge that always has a draft and a rest of its program.  *)
THEOREM CardTypeCorrect == Spec => []CardWriteTypeOK
<1>1. CardInv => CardWriteTypeOK
  BY DEF CardInv
<1> QED BY <1>1, CardInvariant, PTL

-----------------------------------------------------------------------------
(* A failed write can be repeated                                          *)

LEMMA LeastNumber ==
  ASSUME NEW S \in SUBSET Nat, S # {}
  PROVE  \E m \in S : \A k \in S : m <= k
<1>1. PICK m \in S : \A k \in S : <<k, m>> \notin OpToRel(<, Nat)
  BY NatLessThanWellFounded, WFMin, Zenon
<1>2. \A k \in S : ~(k < m)
  BY <1>1 DEF OpToRel
<1> QED BY <1>2

(* A bridge at work has a next stage.                                      *)
LEMMA SomeStageIsNext ==
  ASSUME CardInv, bridge # {}
  PROVE  \E stage \in AllStages : At(stage)
<1> DEFINE left == {Position[s] : s \in bridge}
<1>1. bridge \subseteq AllStages
  BY BridgeIsKnown
<1>2. left \in SUBSET Nat /\ left # {}
  <2>1. \A s \in bridge : Position[s] \in Nat
    BY <1>1, StageOrder
  <2> QED BY <2>1
<1>3. PICK m \in left : \A k \in left : m <= k
  <2> HIDE DEF left
  <2> QED BY <1>2, LeastNumber
<1>4. PICK stage \in bridge : m = Position[stage]
  BY <1>3
<1>5. At(stage)
  BY <1>3, <1>4 DEF At
<1> QED BY <1>1, <1>4, <1>5

(* Unless the draft asks for what this card cannot do, the bridge never    *)
(* meets a stage that it cannot pass: nothing that an earlier attempt left *)
(* on the card, a file cut off in the middle included, stands in the way.  *)
THEOREM FailedWritesCanBeRepeated == Spec => []WriteCanBeRepeated
<1>1. ASSUME CardInv, bridge # {}, ~Impossible, NEW stage \in AllStages, At(stage)
      PROVE  Feasible(stage)
  <2>1. /\ lacking \subseteq {"saip_read"}
        /\ ChangesSuci => Payload.protection # Unset
        /\ "routing_indicator" \in draft.changed => Payload.routing # NoRouting
    BY <1>1 DEF Impossible
  <2>2. stage \in Program /\ draft # NoDraft /\ Payload = draft.record /\ Valid(Payload)
    BY <1>1, BridgeIsKnown DEF At, CardInv, DraftIsReady
  <2>3. "saip_read" \notin AllStages
    BY StageOrder
  <2>4. stage = "pre_calc" => TargetReady
    <3>1. CalcFile[Payload.mode] # "saip_read"
      BY <1>1, <2>2, BridgeIsKnown DEF Record, Modes, CalcFile
    <3> QED BY <1>1, <2>1, <2>2, <3>1, SuciStages DEF TargetReady, Valid
  <2>5. stage = "routing" => Payload.routing # NoRouting
    <3>1. "routing" \notin draft.changed \cup AuthFiles
      BY <1>1, CardWriteAssumption
      DEF CardInv, CardWriteTypeOK, Fields, SuciFields, AuthFiles, AllPlain
    <3> QED BY <2>1, <2>2, <3>1 DEF Program, Involved
  <2> QED BY <2>1, <2>3, <2>4, <2>5 DEF Feasible
<1>2. CardInv => WriteCanBeRepeated
  BY <1>1, SomeStageIsNext DEF WriteCanBeRepeated
<1> QED BY <1>2, CardInvariant, PTL

-----------------------------------------------------------------------------
(* What a step may never do                                                *)

(* Only the last stage of the bridge makes a revision while it is at work. *)
LEMMA CommittedByCommit ==
  ASSUME CardInv, [Next]_vars, Committed
  PROVE  Commit /\ At("commit") /\ bridge # {}
<1>1. bridge # {} /\ At("commit") /\ revision' = revision + 1
  BY DEF Committed, At
<1>2. revision \in Int
  BY DEF CardInv, CardWriteTypeOK
<1>3. revision' # revision
  BY <1>1, <1>2
<1>4. \/ bridge = {} \/ UNCHANGED revision \/ Commit
  BY <1>1
  DEF Next, vars, vaultVars, Prepare, Discard, AdoptReadableFields, StartWrite, BridgeStep,
      Check, Preflight, WritePlain, WriteRouting, WriteCalcInfo, WriteServices, BridgeFails
<1> QED BY <1>1, <1>3, <1>4

(* A version that a write makes active is on the card, whatever parts of   *)
(* it the draft changed and however many attempts failed before.           *)
THEOREM CommittedVersionOnCard == Spec => CommittedIsOnCard
<1>1. ASSUME CardInv, [Next]_vars, Committed
      PROVE  /\ \A file \in PlainFiles :
                  Involved(file) => card.plain[file] = Contents(active'.plain, file)
             /\ "routing_indicator" \in draft.changed => card.routing = active'.routing
  <2>1. Commit /\ At("commit") /\ bridge # {}
    BY <1>1, CommittedByCommit
  <2>2. active' = Payload
    BY <1>1, <2>1, CommitIsLast DEF Commit, CardInv, DraftIsReady
  <2>3. PassedIsDone /\ \A s \in Program \ {"commit"} : Passed(s)
    BY <1>1, <2>1, CommitIsLast DEF CardInv
  <2>4. ASSUME NEW file \in PlainFiles, Involved(file)
        PROVE  card.plain[file] = Contents(active'.plain, file)
    <3>1. file \in AllStages /\ file # "commit"
      BY StageOrder, CardWriteAssumption DEF PlainFiles, AuthFiles, AuthFields, AllPlain
    <3> QED BY <2>1, <2>2, <2>3, <2>4, <3>1 DEF Program, PassedIsDone
  <2>5. ASSUME "routing_indicator" \in draft.changed
        PROVE  card.routing = active'.routing
    <3>1. "routing" \in Program
      BY <2>5, StageOrder DEF Program, Involved
    <3> QED BY <2>1, <2>2, <2>3, <3>1 DEF PassedIsDone
  <2> QED BY <2>4, <2>5
<1> QED BY <1>1, CardInvariant, PTL DEF CommittedIsOnCard, Spec

(* A file that is missing or cannot be reached is met before anything is   *)
(* written.                                                                *)
THEOREM MissingFilesMetFirst == Spec => NoPartialWriteWithoutFile
<1>1. ASSUME CardInv, [Next]_vars, card' # card
      PROVE  /\ Involved("pre_routing") => "routing" \notin lacking
             /\ Involved("pre_calc") => {CalcFile[TargetFile], "ust"} \cap lacking = {}
             /\ Involved("pre_spn") => "spn" \notin lacking
  <2>1. PICK stage : At(stage) /\ stage \notin Preflights
    <3>1. CASE WriteRouting \/ WriteCalcInfo \/ WriteServices \/ BridgeFails
      BY <1>1, <3>1 DEF WriteRouting, WriteCalcInfo, WriteServices, BridgeFails, Pass, Preflights
    <3>2. CASE \E file \in PlainFiles : WritePlain(file)
      <4>1. PlainFiles \cap Preflights = {}
        BY CardWriteAssumption DEF PlainFiles, AuthFiles, AllPlain, Preflights
      <4> QED BY <3>2, <4>1 DEF WritePlain, Pass
    <3> QED BY <1>1, <3>1, <3>2
      DEF Next, vars, vaultVars, Prepare, Discard, AdoptReadableFields, StartWrite, BridgeStep,
          Check, Preflight, Commit
  <2>2. bridge # {} /\ bridge \subseteq Program /\ Program \subseteq AllStages
    BY <1>1, <2>1, BridgeIsKnown DEF At
  <2>3. bridge \cap Preflights = {}
    BY <2>1, <2>2, NothingEarlierIsLeft
  <2>4. \A s \in Preflights : Involved(s) => Passed(s)
    BY <2>3, StageOrder DEF Passed, Program, Preflights
  <2>5. ASSUME Involved("pre_calc")
        PROVE  {CalcFile[TargetFile], "ust"} \cap lacking = {}
    <3>1. Passed("pre_calc")
      BY <2>4, <2>5 DEF Preflights
    <3>2. Passed("pre_ust")
      BY <1>1, <2>2, <2>4, <3>1, SuciStages DEF Passed, Program, Preflights
    <3>3. TargetReady /\ "ust" \notin lacking
      BY <1>1, <2>2, <3>1, <3>2 DEF CardInv, PassedIsDone
    <3> QED BY <3>3 DEF TargetReady, TargetFile
  <2> QED BY <1>1, <2>2, <2>4, <2>5 DEF CardInv, PassedIsDone, Preflights
<1> QED BY <1>1, CardInvariant, PTL DEF NoPartialWriteWithoutFile, Spec

LEMMA ServicesSelectMode == \A mode \in Modes : ActiveMode(ServicesFor(mode)) = mode
<1>1. ActiveMode(ServicesFor("usim")) = "usim"
  BY DEF ActiveMode, ServicesFor
<1>2. ActiveMode(ServicesFor("me")) = "me"
  BY DEF ActiveMode, ServicesFor
<1> QED BY <1>1, <1>2 DEF Modes

(* The services move to a file that has been written completely.           *)
THEOREM ServicesFollowTheirFile == Spec => SwitchesToCompleteFile
<1>1. ASSUME CardInv, [Next]_vars, ActiveMode(card'.services) # ActiveMode(card.services)
      PROVE  card'.calc[ActiveMode(card'.services)] = BuildCalcInfo(TargetConfigurations)
  <2>1. WriteServices
    <3>1. card'.services # card.services
      BY <1>1
    <3>2. ASSUME bridge # {}
          PROVE  CardTypeOK
      BY <1>1, <3>2, BridgeIsKnown
    <3>3. ~(\E file \in PlainFiles : WritePlain(file))
      BY <3>1, <3>2 DEF WritePlain, Pass, At, CardTypeOK
    <3>4. ~WriteRouting /\ ~WriteCalcInfo
      BY <3>1, <3>2 DEF WriteRouting, WriteCalcInfo, Pass, At, CardTypeOK
    <3>5. ~BridgeFails
      BY <3>1, <3>2 DEF BridgeFails, CardTypeOK
    <3> QED BY <1>1, <3>1, <3>3, <3>4, <3>5
      DEF Next, vars, vaultVars, Prepare, Discard, AdoptReadableFields, StartWrite, BridgeStep,
          Check, Preflight, Commit
  <2>2. At("ust") /\ bridge # {} /\ bridge \subseteq Program /\ Program \subseteq AllStages
    BY <1>1, <2>1, BridgeIsKnown DEF WriteServices, Pass, At
  <2>3. Passed("calc")
    BY <1>1, <2>2, NothingEarlierIsLeft, SuciStages DEF Passed, At
  <2>4. card.calc[TargetFile] = BuildCalcInfo(TargetConfigurations)
    BY <1>1, <2>2, <2>3 DEF CardInv, PassedIsDone
  <2>5. card'.services = ServicesFor(Payload.mode) /\ card'.calc = card.calc
    BY <1>1, <2>1, <2>2, BridgeIsKnown DEF WriteServices, CardTypeOK
  <2>6. Payload.mode \in Modes
    BY <1>1, <2>2, BridgeIsKnown DEF CardInv, DraftIsReady, Record
  <2>7. ActiveMode(card'.services) = TargetFile
    BY <2>5, <2>6, ServicesSelectMode DEF TargetFile
  <2> QED BY <2>4, <2>5, <2>7
<1> QED BY <1>1, CardInvariant, PTL DEF SwitchesToCompleteFile, Spec

(* A draft for a protection has a list, and in the mode of the USIM this   *)
(* list is its one configuration: the file that is written has the list.   *)
LEMMA TargetHasList ==
  ASSUME CardInv, draft # NoDraft, PassesList, Payload.protection # Unset
  PROVE  /\ Payload.list \in Lists
         /\ Payload.protection = Preferred(Payload.list).protection
         /\ TargetConfigurations = Payload.list
<1>1. /\ Payload = draft.record /\ Valid(Payload) /\ Payload.list \in Lists \cup {<<>>}
      /\ Payload \in Record
  BY DEF CardInv, CardWriteTypeOK, DraftIsReady
<1> DEFINE list == Configurations(draft.record)
<1>2. Payload = [draft.record EXCEPT !.list = list,
                   !.protection = IF list = <<>> THEN Unset ELSE Preferred(list).protection]
  BY DEF Payload, Effective
<1>3. /\ Payload.list = list
      /\ Payload.protection = IF list = <<>> THEN Unset ELSE Preferred(list).protection
  <2> HIDE DEF list
  <2> QED BY <1>1, <1>2 DEF Record
<1>4. list # <<>> /\ list \in Lists /\ Payload.protection = Preferred(list).protection
  BY <1>1, <1>3
<1>5. CASE Payload.mode = "me"
  BY <1>3, <1>4, <1>5 DEF TargetConfigurations
<1>6. CASE Payload.mode = "usim"
  <2>1. Len(list) = 1 /\ list[1].priority = 0
    BY <1>1, <1>3, <1>6 DEF Valid
  <2>2. list \in Seq(Configuration)
    BY <1>4, ListsAreLegal
  <2>3. Payload.protection = list[1].protection
    BY <1>4, <2>1, <2>2, PreferredOfOne
  <2>4. list[1] = [priority |-> 0, protection |-> list[1].protection] /\ list = <<list[1]>>
    <3>1. list[1] \in Configuration
      BY <2>1, <2>2
    <3> HIDE DEF list
    <3> QED BY <2>1, <2>2, <3>1, ConfigurationParts
  <2>5. list = OnlyEntry(Payload.protection)
    BY <2>3, <2>4 DEF OnlyEntry
  <2> QED BY <1>3, <1>4, <1>6, <2>5 DEF TargetConfigurations
<1> QED BY <1>1, <1>3, <1>4, <1>5, <1>6 DEF Record, Modes

(* What the comparison after a write of SUCI values reports, provided that *)
(* the card can be read: the values of the version that became active.     *)
THEOREM ComparisonAfterWrite == Spec => ComparisonConfirmsWrite
<1>1. ASSUME CardInv, [Next]_vars, Committed, ChangesSuci, PassesList,
             Payload.protection # Unset, {"saip_read", "routing"} \cap lacking = {},
             Payload.routing = card.routing, Len(card.routing) = 4
      PROVE  SuciReadable /\ SuciMatches(active')
  <2> DEFINE mode == Payload.mode
             list == Payload.list
  <2>1. Commit /\ At("commit") /\ bridge # {} /\ draft # NoDraft /\ CardTypeOK
    BY <1>1, CommittedByCommit, BridgeIsKnown
  <2>2. /\ Payload = draft.record /\ active' = draft.record /\ Payload \in Record
    BY <1>1, <2>1, BridgeIsKnown DEF Commit, CardInv, DraftIsReady
  <2>3. mode \in Modes
    BY <2>2 DEF Record
  <2>4. \A s \in Program \ {"commit"} : Passed(s)
    BY <1>1, <2>1, CommitIsLast
  <2>5. Passed("calc") /\ Passed("ust") /\ Passed("pre_calc") /\ Passed("pre_ust")
    BY <1>1, <2>1, <2>4, SuciStages
  <2>6. Passed("check") /\ draft.changed \ {"imsi", "acc", "msisdn", "spn"} # {}
    <3>1. "check" \in Program
      BY StageOrder DEF Program, Involved
    <3> QED BY <1>1, <2>4, <3>1 DEF ChangesSuci, SuciFields
  <2>7. /\ card.calc[mode] = BuildCalcInfo(TargetConfigurations)
        /\ card.services = ServicesFor(mode)
        /\ "sja5" \notin lacking /\ "ust" \notin lacking
        /\ TargetReady
    BY <1>1, <2>1, <2>5, <2>6 DEF CardInv, PassedIsDone, TargetFile
  <2>8. /\ list \in Lists /\ TargetConfigurations = list
        /\ Payload.protection = Preferred(list).protection
    BY <1>1, <2>1, TargetHasList
  <2>9. ActiveMode(card.services) = mode
    BY <2>3, <2>7, ServicesSelectMode
  <2>10. SuciReadable
    <3>1. card.calc[mode] # Blank
      BY <2>7, <2>8, BlankAssumption
    <3> QED BY <1>1, <2>7, <2>9, <3>1 DEF SuciReadable, TargetReady
  <2>11. /\ CardConfigurations = ByPriority(list)
         /\ CardConfigurations[1].protection = Payload.protection
    <3>1. list \in Seq(Configuration) /\ LegalList(list) /\ list # <<>>
      BY <2>8, ListsAreLegal
    <3>2. CardConfigurations = ReadConfigurations(BuildCalcInfo(list))
      BY <2>7, <2>8, <2>9 DEF CardConfigurations
    <3> QED BY <2>8, <3>1, <3>2, ReadsBackAsBuilt, PreferredIsTyped
  <2>12. Zfill(card.routing) = Payload.routing
    BY <1>1, <2>1, ZfillType DEF CardTypeOK
  <2>13. Effective(active') = Payload
    BY <2>2 DEF Payload
  <2>14. SuciMatches(active')
    BY <2>7, <2>11, <2>12, <2>13 DEF SuciMatches
  <2> QED BY <2>10, <2>14
<1> QED BY <1>1, CardInvariant, PTL DEF ComparisonConfirmsWrite, Spec

-----------------------------------------------------------------------------
(* Adoptions and drafts                                                    *)

(* A second adoption of the same fields finds nothing to adopt.            *)
THEOREM AdoptionLeavesNothing == Spec => AdoptionSettles
<1>1. ASSUME CardInv, NEW selected \in SUBSET Adoptable, AdoptReadableFields(selected)
      PROVE  Differences(active', selected) = {}
  <2>1. active' = Adopted(active, selected) /\ active \in Record
    BY <1>1 DEF AdoptReadableFields, CardInv, CardWriteTypeOK
  <2>2. \A f \in selected \cap Plain : active'.plain[f] = card.plain[f]
    BY <2>1 DEF Adopted, WithCardValues, Record
  <2>3. "suci" \in selected =>
          /\ active'.routing = Zfill(card.routing)
          /\ active'.protection = CardConfigurations[1].protection
          /\ active'.form = "card"
    BY <2>1 DEF Adopted, WithCardValues, Record
  <2> QED BY <2>2, <2>3 DEF Differences
<1>2. CardInv => \A selected \in SUBSET Adoptable :
        AdoptReadableFields(selected) => Differences(active', selected) = {}
  BY <1>1
<1> QED BY <1>2, CardInvariant, PTL DEF AdoptionSettles, Spec

(* The list of a draft is what was compared when it was prepared, and the  *)
(* active version waits for it: no adoption changes it in between.         *)
LEMMA DraftNamesInductive ==
  CardInv /\ DraftNamesOnlyChanges /\ [Next]_vars => DraftNamesOnlyChanges'
<1> SUFFICES ASSUME CardInv, DraftNamesOnlyChanges, [Next]_vars
             PROVE  DraftNamesOnlyChanges'
  OBVIOUS
<1>1. ASSUME NEW request \in Requested, Prepare(request)
      PROVE  DraftNamesOnlyChanges'
  <2> DEFINE proposed == Effective(request)
  <2>1. /\ draft' = [record |-> proposed, changed |-> ChangedFields(active, proposed)]
        /\ active' = active
    BY <1>1 DEF Prepare
  <2>2. draft'.record = proposed /\ draft'.changed = ChangedFields(active, proposed)
    BY <2>1
  <2>3. active.form # "text" => ChangedFields(active, proposed) = Differing(active, proposed)
    BY DEF ChangedFields, TextFields
  <2> HIDE DEF proposed
  <2> QED BY <2>1, <2>2, <2>3 DEF DraftNamesOnlyChanges
<1>2. CASE \/ Discard \/ Commit
           \/ \E selected \in SUBSET Adoptable : AdoptReadableFields(selected)
  BY <1>2 DEF Discard, Commit, AdoptReadableFields, DraftNamesOnlyChanges
<1>3. CASE UNCHANGED <<active, draft>>
  BY <1>3 DEF DraftNamesOnlyChanges, Differing, Configurations
<1> QED BY <1>1, <1>2, <1>3
  DEF Next, vars, vaultVars, StartWrite, BridgeStep, Check, Preflight, WritePlain, WriteRouting,
      WriteCalcInfo, WriteServices, BridgeFails

(* A draft names exactly the fields that get another value.                *)
THEOREM DraftsNameOnlyChanges == Spec => []DraftNamesOnlyChanges
<1>1. Init => DraftNamesOnlyChanges
  BY DEF Init, DraftNamesOnlyChanges
<1> QED BY <1>1, CardInvariant, DraftNamesInductive, PTL DEF Spec

-----------------------------------------------------------------------------
(* Profile and card keep the promise of a prepared change                  *)

(* What differs from the active version is named by the draft.             *)
DraftNamesDifferences ==
  draft # NoDraft => Differing(active, draft.record) \subseteq draft.changed

LEMMA DifferencesInductive ==
  DraftNamesDifferences /\ [Next]_vars => DraftNamesDifferences'
<1> SUFFICES ASSUME DraftNamesDifferences, [Next]_vars
             PROVE  DraftNamesDifferences'
  OBVIOUS
<1>1. ASSUME NEW request \in Requested, Prepare(request)
      PROVE  DraftNamesDifferences'
  <2> DEFINE proposed == Effective(request)
  <2>1. /\ draft' = [record |-> proposed, changed |-> ChangedFields(active, proposed)]
        /\ active' = active
    BY <1>1 DEF Prepare
  <2>2. draft'.record = proposed /\ draft'.changed = ChangedFields(active, proposed)
    BY <2>1
  <2>3. Differing(active, proposed) \subseteq ChangedFields(active, proposed)
    BY DEF ChangedFields
  <2> HIDE DEF proposed
  <2> QED BY <2>1, <2>2, <2>3 DEF DraftNamesDifferences
<1>2. CASE \/ Discard \/ Commit
           \/ \E selected \in SUBSET Adoptable : AdoptReadableFields(selected)
  BY <1>2 DEF Discard, Commit, AdoptReadableFields, DraftNamesDifferences
<1>3. CASE UNCHANGED <<active, draft>>
  BY <1>3 DEF DraftNamesDifferences, Differing, Configurations
<1> QED BY <1>1, <1>2, <1>3
  DEF Next, vars, vaultVars, StartWrite, BridgeStep, Check, Preflight, WritePlain, WriteRouting,
      WriteCalcInfo, WriteServices, BridgeFails

LEMMA PartsAreDistinct ==
  /\ PlainFiles \cap ({"routing"} \cup SuciParts \cup {"calc", "ust", "commit"}) = {}
  /\ \A file \in PlainFiles \ AuthFiles : file \in Plain \ AuthFields
  /\ \A mode \in Modes : CalcFile[mode] \in {"calc_me", "calc_usim"}
BY CardWriteAssumption
DEF PlainFiles, AuthFiles, AuthFields, AllPlain, SuciParts, Modes, CalcFile

(* The parts of the card, before and after a step                          *)
LEMMA CardParts ==
  /\ \A file \in PlainFiles : OnCard(file) = card.plain[file]
  /\ \A file \in PlainFiles : OnCard(file)' = card'.plain[file]
  /\ OnCard("routing") = Zfill(card.routing) /\ OnCard("routing")' = Zfill(card'.routing)
  /\ OnCard("services") = card.services /\ OnCard("services")' = card'.services
  /\ \A mode \in Modes : /\ OnCard(CalcFile[mode]) = card.calc[mode]
                          /\ OnCard(CalcFile[mode])' = card'.calc[mode]
BY PartsAreDistinct DEF OnCard, SuciParts, CalcFile, Modes

LEMMA TargetCalcInfoIsBuilt ==
  TargetCalcInfo = BuildCalcInfo(TargetConfigurations)
BY DEF TargetCalcInfo

LEMMA TargetParts ==
  ASSUME Payload.mode \in Modes
  PROVE  /\ \A file \in PlainFiles : Target(file) = Contents(Payload.plain, file)
         /\ Target("routing") = Zfill(Payload.routing)
         /\ Target("services") = ServicesFor(Payload.mode)
         /\ Target(CalcFile[TargetFile]) = BuildCalcInfo(TargetConfigurations)
BY PartsAreDistinct, TargetCalcInfoIsBuilt DEF Target, SuciParts, CalcFile, Modes, TargetFile

(* What is prepared stays while the draft does.                            *)
LEMMA SameWanted ==
  ASSUME UNCHANGED draft
  PROVE  Wanted' = Wanted /\ DraftParts' = DraftParts
<1>1. Payload' = Payload
  BY DEF Payload
<1> QED BY <1>1
  DEF Wanted, DraftParts, Target, Involved, ChangesSuci, TargetFile, TargetConfigurations,
      PassesList, TargetCalcInfo

LEMMA SameStored ==
  ASSUME UNCHANGED active
  PROVE  Stored' = Stored
BY DEF Stored, InVault

LEMMA SameHeld ==
  ASSUME UNCHANGED card
  PROVE  Held' = Held
BY DEF Held, OnCard

(* A step that changes the card in parts of the draft only is an attempt   *)
(* at the change.                                                          *)
LEMMA TouchIsWrite ==
  ASSUME draft # NoDraft, UNCHANGED <<active, draft>>,
         \A part \in (KnownParts \cup SuciParts) \ DraftParts : OnCard(part)' = OnCard(part)
  PROVE  Change!Write("profile")
<1> DEFINE All == KnownParts \cup SuciParts
<1>1. Wanted["profile"] = [part \in DraftParts |-> Target(part)] /\ DOMAIN Wanted = {"profile"}
  BY DEF Wanted
<1>2. UNCHANGED <<Stored, Wanted>>
  BY SameWanted, SameStored
<1>3. Held = [c \in {"card"} |-> Held["card"]] /\ Stored["profile"].card = "card"
  BY DEF Held, Stored
<1>4. /\ Held["card"] = [part \in All |-> OnCard(part)]
      /\ Held'["card"] = [part \in All |-> OnCard(part)']
  BY DEF Held
<1> DEFINE touched == Change!Restrict(Held'["card"], DraftParts)
<1>5. Change!Overlaid(Held["card"], touched) = Held'["card"]
  <2>1. touched = [part \in DraftParts |-> Held'["card"][part]]
    BY DEF Change!Restrict
  <2>2. \A part \in All : Held'["card"][part] =
          IF part \in DraftParts THEN touched[part] ELSE Held["card"][part]
    BY <1>4, <2>1
  <2> QED BY <1>4, <2>1, <2>2 DEF Change!Overlaid
<1>6. Held' = [Held EXCEPT !["card"] = Held'["card"]]
  BY DEF Held
<1> QED BY <1>1, <1>2, <1>3, <1>5, <1>6 DEF Change!Write

(* What is at work and involved is a part of the draft.                    *)
LEMMA InvolvedParts ==
  ASSUME CardInv, bridge # {}
  PROVE  /\ \A file \in PlainFiles : file \in DraftParts <=> file \in Program
         /\ "routing" \in DraftParts <=> "routing" \in Program
         /\ "services" \in DraftParts <=> "ust" \in Program
         /\ CalcFile[TargetFile] \in DraftParts <=> "calc" \in Program
         /\ TargetFile \in Modes
<1>1. TargetFile \in Modes
  BY BridgeIsKnown DEF CardInv, DraftIsReady, Record, TargetFile
<1>2. /\ {"services", CalcFile[TargetFile]} \cap KnownParts = {}
      /\ PlainFiles \subseteq KnownParts /\ "routing" \in KnownParts
  BY <1>1, PartsAreDistinct DEF KnownParts, SuciParts
<1>3. \A part \in KnownParts : part \in DraftParts <=> Involved(part)
  BY <1>2 DEF DraftParts
<1>4. \A part \in {"services", CalcFile[TargetFile]} : part \in DraftParts <=> ChangesSuci
  BY <1>2 DEF DraftParts
<1>5. PlainFiles \cup {"routing"} \subseteq AllStages
  BY StageOrder, CardWriteAssumption DEF PlainFiles, AuthFiles, AuthFields, AllPlain
<1>6. \A part \in PlainFiles \cup {"routing"} : part \in DraftParts <=> part \in Program
  BY <1>2, <1>3, <1>5 DEF Program
<1> QED BY <1>1, <1>4, <1>6, SuciStages

LEMMA WritePlainSimulates ==
  ASSUME CardInv, NEW file \in PlainFiles, WritePlain(file)
  PROVE  Change!Write("profile")
<1>1. /\ file \in bridge /\ UNCHANGED <<active, draft>>
      /\ card' = [card EXCEPT !.plain[file] = Contents(Payload.plain, file)]
  BY DEF WritePlain, Pass, At, vaultVars
<1>2. bridge \subseteq Program /\ draft # NoDraft /\ CardTypeOK
  BY <1>1, BridgeIsKnown
<1>3. file \in DraftParts
  BY <1>1, <1>2, InvolvedParts
<1>4. /\ \A other \in PlainFiles \ {file} : card'.plain[other] = card.plain[other]
      /\ card'.routing = card.routing /\ card'.calc = card.calc
      /\ card'.services = card.services
  BY <1>1, <1>2 DEF CardTypeOK
<1>5. \A part \in (KnownParts \cup SuciParts) \ {file} : OnCard(part)' = OnCard(part)
  BY <1>4, CardParts DEF KnownParts, SuciParts, CalcFile, Modes
<1> QED BY <1>1, <1>2, <1>3, <1>5, TouchIsWrite

LEMMA WriteRoutingSimulates ==
  ASSUME CardInv, WriteRouting
  PROVE  Change!Write("profile")
<1>1. /\ "routing" \in bridge /\ UNCHANGED <<active, draft>>
      /\ card' = [card EXCEPT !.routing = Payload.routing]
  BY DEF WriteRouting, Pass, At, vaultVars
<1>2. bridge \subseteq Program /\ draft # NoDraft /\ CardTypeOK
  BY <1>1, BridgeIsKnown
<1>3. "routing" \in DraftParts
  BY <1>1, <1>2, InvolvedParts
<1>4. /\ card'.plain = card.plain /\ card'.calc = card.calc
      /\ card'.services = card.services
  BY <1>1, <1>2 DEF CardTypeOK
<1>5. \A part \in (KnownParts \cup SuciParts) \ {"routing"} : OnCard(part)' = OnCard(part)
  BY <1>4, CardParts DEF KnownParts, SuciParts, CalcFile, Modes
<1> QED BY <1>1, <1>2, <1>3, <1>5, TouchIsWrite

LEMMA WriteServicesSimulates ==
  ASSUME CardInv, WriteServices
  PROVE  Change!Write("profile")
<1>1. /\ "ust" \in bridge /\ UNCHANGED <<active, draft>>
      /\ card' = [card EXCEPT !.services = ServicesFor(Payload.mode)]
  BY DEF WriteServices, Pass, At, vaultVars
<1>2. bridge \subseteq Program /\ draft # NoDraft /\ CardTypeOK
  BY <1>1, BridgeIsKnown
<1>3. "services" \in DraftParts
  BY <1>1, <1>2, InvolvedParts
<1>4. card'.plain = card.plain /\ card'.calc = card.calc /\ card'.routing = card.routing
  BY <1>1, <1>2 DEF CardTypeOK
<1>5. \A part \in (KnownParts \cup SuciParts) \ {"services"} : OnCard(part)' = OnCard(part)
  BY <1>4, CardParts DEF KnownParts, SuciParts, CalcFile, Modes
<1> QED BY <1>1, <1>2, <1>3, <1>5, TouchIsWrite

(* SUCI_Calc_Info, written completely or cut off in the middle             *)
LEMMA CalcInfoSimulates ==
  ASSUME CardInv, "calc" \in bridge, UNCHANGED <<active, draft>>, NEW calc,
         card' = [card EXCEPT !.calc[TargetFile] = calc]
  PROVE  Change!Write("profile")
<1>1. bridge \subseteq Program /\ draft # NoDraft /\ CardTypeOK
  BY BridgeIsKnown
<1>2. CalcFile[TargetFile] \in DraftParts /\ TargetFile \in Modes
  BY <1>1, InvolvedParts
<1>3. /\ card'.plain = card.plain /\ card'.routing = card.routing
      /\ card'.services = card.services
      /\ card'.calc = [card.calc EXCEPT ![TargetFile] = calc]
  BY <1>1 DEF CardTypeOK
<1>4. \A mode \in Modes \ {TargetFile} : card'.calc[mode] = card.calc[mode]
  BY <1>1, <1>3 DEF CardTypeOK
<1>5. \A part \in (KnownParts \cup SuciParts) \ {CalcFile[TargetFile]} :
        OnCard(part)' = OnCard(part)
  BY <1>2, <1>3, <1>4, CardParts DEF KnownParts, SuciParts, CalcFile, Modes
<1> QED BY <1>1, <1>2, <1>5, TouchIsWrite

(* A commit takes over what the draft names and what equals it already.    *)
LEMMA CommitSimulates ==
  ASSUME CardInv, DraftNamesDifferences, Commit
  PROVE  Change!Accept("profile")
<1>1. /\ At("commit") /\ bridge # {} /\ draft # NoDraft
      /\ active' = draft.record /\ draft' = NoDraft /\ UNCHANGED card
  BY CommitIsLast DEF Commit, Pass, At
<1>2. /\ draft.record \in Record /\ active \in Record /\ Payload = draft.record
      /\ active' = Payload
  BY <1>1, BridgeIsKnown DEF CardInv, CardWriteTypeOK, DraftIsReady
<1>3. Payload.mode \in Modes
  BY <1>2 DEF Record
<1>4. \A s \in Program \ {"commit"} : Passed(s)
  BY <1>1, CommitIsLast
<1>5. \A part \in DraftParts : Held["card"][part] = Target(part)
  <2>1. ASSUME NEW part \in DraftParts
        PROVE  Held["card"][part] = OnCard(part) /\ OnCard(part) = Target(part)
    <3>1. \/ part \in PlainFiles \/ part = "routing"
          \/ part = "services" \/ part = CalcFile[TargetFile]
      BY DEF DraftParts, KnownParts
    <3>2. part \in KnownParts \cup SuciParts
      BY <1>3, <3>1, PartsAreDistinct DEF KnownParts, SuciParts, TargetFile
    <3>3. PassedIsDone
      BY DEF CardInv
    <3>4. CASE part \in PlainFiles
      <4>1. Passed(part)
        BY <1>1, <1>4, <2>1, <3>4, InvolvedParts, PartsAreDistinct
      <4> QED BY <1>1, <1>3, <3>2, <3>3, <3>4, <4>1, CardParts, TargetParts DEF PassedIsDone, Held
    <3>5. CASE part = "routing"
      <4>1. Passed("routing")
        BY <1>1, <1>4, <2>1, <3>5, InvolvedParts
      <4> QED BY <1>1, <1>3, <3>2, <3>3, <3>5, <4>1, CardParts, TargetParts DEF PassedIsDone, Held
    <3>6. CASE part = "services"
      <4>1. Passed("ust")
        BY <1>1, <1>4, <2>1, <3>6, InvolvedParts
      <4> QED BY <1>1, <1>3, <3>2, <3>3, <3>6, <4>1, CardParts, TargetParts DEF PassedIsDone, Held
    <3>7. CASE part = CalcFile[TargetFile]
      <4>1. Passed("calc") /\ TargetFile \in Modes
        BY <1>1, <1>4, <2>1, <3>7, InvolvedParts
      <4> QED BY <1>1, <1>3, <3>2, <3>3, <3>7, <4>1, CardParts, TargetParts DEF PassedIsDone, Held
    <3> QED BY <3>1, <3>4, <3>5, <3>6, <3>7
  <2> QED BY <2>1
<1>6. \A part \in KnownParts : InVault(part)' =
        IF part \in DraftParts THEN Target(part) ELSE InVault(part)
  <2>1. ASSUME NEW file \in PlainFiles
        PROVE  /\ InVault(file)' = Contents(Payload.plain, file)
               /\ file \notin DraftParts => InVault(file) = Contents(Payload.plain, file)
    <3>1. InVault(file)' = Contents(Payload.plain, file)
      BY <1>2, PartsAreDistinct DEF InVault
    <3>2. ASSUME file \notin DraftParts
          PROVE  Contents(active.plain, file) = Contents(Payload.plain, file)
      <4>1. ~Involved(file)
        BY <3>2 DEF DraftParts, KnownParts
      <4>2. \A f \in Plain \ draft.changed : active.plain[f] = Payload.plain[f]
        BY <1>1, <1>2 DEF DraftNamesDifferences, Differing
      <4>3. CASE file \in AuthFiles
        BY <4>1, <4>2, <4>3 DEF Involved, Contents
      <4>4. CASE file \notin AuthFiles
        BY <4>1, <4>2, <4>4, PartsAreDistinct DEF Involved, Contents
      <4> QED BY <4>3, <4>4
    <3> QED BY <3>1, <3>2, PartsAreDistinct DEF InVault
  <2>2. /\ InVault("routing")' = Zfill(Payload.routing)
        /\ "routing" \notin DraftParts => InVault("routing") = Zfill(Payload.routing)
    <3>1. "routing" \notin DraftParts => active.routing = Payload.routing
      BY <1>1, <1>2 DEF DraftParts, KnownParts, Involved, DraftNamesDifferences, Differing
    <3> QED BY <1>2, <3>1 DEF InVault
  <2> QED BY <1>3, <2>1, <2>2, TargetParts DEF KnownParts
<1>7. Wanted["profile"] = [part \in DraftParts |-> Target(part)] /\ DOMAIN Wanted = {"profile"}
  BY <1>1 DEF Wanted
<1>8. Stored' = [Stored EXCEPT !["profile"].parts = Change!Overlaid(@, Wanted["profile"])]
  <2>1. Change!Overlaid(Stored["profile"].parts, Wanted["profile"]) = Stored'["profile"].parts
    BY <1>6, <1>7 DEF Change!Overlaid, Stored
  <2> QED BY <2>1 DEF Stored
<1>9. Wanted' = Change!Drop(Wanted, "profile")
  BY <1>1, <1>7 DEF Wanted, Change!Drop, Change!Restrict, EmptyTable
<1>10. UNCHANGED Held /\ Stored["profile"].card = "card"
  BY <1>1, SameHeld DEF Stored
<1> QED BY <1>5, <1>7, <1>8, <1>9, <1>10 DEF Change!Accept

(* An adoption takes the selected fields from the card, and those of the   *)
(* routing indicator with those of SUCI.                                   *)
LEMMA AdoptionSimulates ==
  ASSUME CardInv, NEW selected \in SUBSET Adoptable, AdoptReadableFields(selected)
  PROVE  Change!Learn("profile")
<1> DEFINE parts == (selected \cap Plain) \cup {part \in {"routing"} : "suci" \in selected}
           read == Change!Restrict(Held["card"], parts)
<1>1. /\ bridge = {} /\ draft = NoDraft /\ UNCHANGED <<draft, card>>
      /\ active' = Adopted(active, selected) /\ active \in Record
  BY DEF AdoptReadableFields, CardInv, CardWriteTypeOK
<1>2. CardTypeOK
  BY DEF CardInv, CardWriteTypeOK
<1>3. selected \cap Plain \subseteq PlainFiles \ AuthFiles /\ selected \cap AuthFields = {}
  BY DEF Adoptable, ImsFields, PlainFiles, AuthFields, AuthFiles
<1>4. parts \in SUBSET KnownParts
  BY <1>3 DEF KnownParts
<1>5. /\ active'.plain =
           [f \in Plain |-> IF f \in selected THEN card.plain[f] ELSE active.plain[f]]
      /\ active'.routing = IF "suci" \in selected THEN Zfill(card.routing) ELSE active.routing
  <2> DEFINE plain == [f \in Plain |-> IF f \in selected THEN card.plain[f] ELSE active.plain[f]]
  <2>1. CASE "suci" \in selected
    <3>1. active' = [active EXCEPT !.plain = plain, !.routing = Zfill(card.routing),
                       !.protection = CardConfigurations[1].protection, !.form = "card"]
      BY <1>1, <2>1 DEF Adopted, WithCardValues
    <3> HIDE DEF plain
    <3>2. active'.plain = plain /\ active'.routing = Zfill(card.routing)
      BY <1>1, <3>1 DEF Record
    <3> QED BY <2>1, <3>2 DEF plain
  <2>2. CASE "suci" \notin selected
    <3>1. active' = [active EXCEPT !.plain = plain]
      BY <1>1, <2>2 DEF Adopted, WithCardValues
    <3> HIDE DEF plain
    <3>2. active'.plain = plain /\ active'.routing = active.routing
      BY <1>1, <3>1 DEF Record
    <3> QED BY <2>2, <3>2 DEF plain
  <2> QED BY <2>1, <2>2
<1>6. active.plain \in [Plain -> Values]
  BY <1>1 DEF Record
<1>7. \A part \in KnownParts : InVault(part)' =
        IF part \in parts THEN OnCard(part) ELSE InVault(part)
  <2>1. ASSUME NEW file \in PlainFiles \ AuthFiles
        PROVE  InVault(file)' = IF file \in parts THEN OnCard(file) ELSE InVault(file)
    BY <1>5, <2>1, PartsAreDistinct, CardParts DEF InVault, Contents
  <2>2. ASSUME NEW file \in PlainFiles \cap AuthFiles
        PROVE  InVault(file)' = IF file \in parts THEN OnCard(file) ELSE InVault(file)
    <3>1. file \notin parts
      BY <1>3, <2>2, PartsAreDistinct
    <3>2. \A f \in Plain \cap AuthFields : active'.plain[f] = active.plain[f]
      BY <1>3, <1>5
    <3> QED BY <2>2, <3>1, <3>2, PartsAreDistinct DEF InVault, Contents
  <2>3. InVault("routing")' = IF "routing" \in parts THEN OnCard("routing") ELSE InVault("routing")
    <3>1. "routing" \in parts <=> "suci" \in selected
      BY <1>3, PartsAreDistinct
    <3>2. Zfill(Zfill(card.routing)) = Zfill(card.routing)
      BY <1>2, ZfillType DEF CardTypeOK
    <3> QED BY <1>5, <3>1, <3>2, CardParts DEF InVault
  <2> QED BY <2>1, <2>2, <2>3 DEF KnownParts
<1> HIDE DEF parts
<1>8. Stored' = [Stored EXCEPT !["profile"].parts = Change!Overlaid(@, read)]
  <2>1. \A part \in parts : Held["card"][part] = OnCard(part)
    BY <1>4 DEF Held
  <2>2. Change!Overlaid(Stored["profile"].parts, read) = Stored'["profile"].parts
    BY <1>7, <2>1 DEF Change!Overlaid, Change!Restrict, Stored
  <2> QED BY <2>2 DEF Stored
<1>9. /\ UNCHANGED <<Wanted, Held>> /\ DOMAIN Wanted = {}
      /\ "profile" \in DOMAIN Stored /\ Stored["profile"].card = "card"
      /\ DOMAIN Stored["profile"].parts = KnownParts
  BY <1>1, SameWanted, SameHeld DEF Stored, Wanted, EmptyTable
<1> QED BY <1>4, <1>8, <1>9 DEF Change!Learn

LEMMA DraftSimulates ==
  /\ \A request \in Requested : Prepare(request) => Change!Prepare("profile")
  /\ Discard => Change!Withdraw("profile")
<1>1. ASSUME NEW request \in Requested, Prepare(request)
      PROVE  Change!Prepare("profile")
  <2>1. draft' = [record |-> Effective(request),
                  changed |-> ChangedFields(active, Effective(request))]
    BY <1>1 DEF Prepare
  <2>2. draft' # NoDraft
    <3>1. request \in Record /\ Valid(Effective(request))
      BY <1>1, RecordsAssumption DEF Prepare
    <3>2. Effective(request) \in Record
      BY <3>1, EffectiveRecord
    <3>3. ChangedFields(active, Effective(request)) \in SUBSET Fields
      BY DEF ChangedFields, Differing, TextFields, Fields, SuciFields
    <3> QED BY <2>1, <3>2, <3>3, NoDraftAssumption
  <2>3. DOMAIN Wanted \subseteq {"profile"} /\ DOMAIN Wanted' = {"profile"}
    BY <2>2 DEF Wanted, EmptyTable
  <2>4. UNCHANGED <<Stored, Held>> /\ "profile" \in DOMAIN Stored
    BY <1>1, SameStored, SameHeld DEF Prepare, Stored
  <2> QED BY <2>3, <2>4 DEF Change!Prepare
<1>2. ASSUME Discard
      PROVE  Change!Withdraw("profile")
  <2>1. draft # NoDraft /\ draft' = NoDraft /\ UNCHANGED <<active, card>>
    BY <1>2 DEF Discard
  <2>2. Wanted' = Change!Drop(Wanted, "profile")
    BY <2>1 DEF Wanted, Change!Drop, Change!Restrict, EmptyTable
  <2> QED BY <2>1, <2>2, SameStored, SameHeld DEF Change!Withdraw
<1> QED BY <1>1, <1>2

LEMMA ChangeSimulates ==
  CardInv /\ DraftNamesDifferences /\ [Next]_vars => [Change!Next]_<<Stored, Wanted, Held>>
<1> SUFFICES ASSUME CardInv, DraftNamesDifferences, [Next]_vars
             PROVE  [Change!Next]_<<Stored, Wanted, Held>>
  OBVIOUS
<1>1. "profile" \in DOMAIN Stored
  BY DEF Stored
<1>2. CASE UNCHANGED <<active, draft, card>>
  BY <1>2, SameStored, SameWanted, SameHeld
<1>3. CASE \E request \in Requested : Prepare(request)
  BY <1>1, <1>3, DraftSimulates DEF Change!Next
<1>4. CASE Discard
  BY <1>1, <1>4, DraftSimulates DEF Change!Next
<1>5. CASE \E selected \in SUBSET Adoptable : AdoptReadableFields(selected)
  BY <1>1, <1>5, AdoptionSimulates DEF Change!Next
<1>6. CASE \E file \in PlainFiles : WritePlain(file)
  BY <1>1, <1>6, WritePlainSimulates DEF Change!Next
<1>7. CASE WriteRouting
  BY <1>1, <1>7, WriteRoutingSimulates DEF Change!Next
<1>8. CASE WriteCalcInfo
  <2>1. Change!Write("profile")
    BY <1>8, CalcInfoSimulates DEF WriteCalcInfo, Pass, At, vaultVars
  <2> QED BY <1>1, <2>1 DEF Change!Next
<1>9. CASE WriteServices
  BY <1>1, <1>9, WriteServicesSimulates DEF Change!Next
<1>10. CASE Commit
  BY <1>1, <1>10, CommitSimulates DEF Change!Next
<1>11. CASE BridgeFails
  <2>1. CASE card' = card
    BY <1>2, <1>11, <2>1 DEF BridgeFails, vaultVars
  <2>2. CASE At("calc") /\ card' = [card EXCEPT !.calc[TargetFile] = Blank]
    <3>1. Change!Write("profile")
      BY <1>11, <2>2, CalcInfoSimulates DEF BridgeFails, At, vaultVars
    <3> QED BY <1>1, <3>1 DEF Change!Next
  <2> QED BY <1>11, <2>1, <2>2 DEF BridgeFails
<1>12. CASE StartWrite \/ Check \/ Preflight \/ UNCHANGED vars
  BY <1>2, <1>12 DEF StartWrite, Check, Preflight, vars, vaultVars
<1> QED BY <1>3, <1>4, <1>5, <1>6, <1>7, <1>8, <1>9, <1>10, <1>11, <1>12 DEF Next, BridgeStep

(* The bridge, cut off anywhere and repeated, and what the vault makes of  *)
(* its success keep what a prepared change promises, for all fields, keys, *)
(* lists and cards: the card changes in the parts of the draft only, and   *)
(* the profile takes over only contents that its card has.                 *)
THEOREM WriteIsCardChange == Spec => ImplementsCardChanges
<1>1. Init => Change!Init /\ DraftNamesDifferences
  BY DEF Init, Change!Init, Wanted, EmptyTable, Change!EmptyTable, DraftNamesDifferences
<1> QED BY <1>1, CardInvariant, DifferencesInductive, ChangeSimulates, PTL
        DEF Spec, ImplementsCardChanges, Change!Spec, Change!cardChangeVars
=============================================================================

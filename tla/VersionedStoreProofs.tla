------------------------ MODULE VersionedStoreProofs ------------------------
(***************************************************************************)
(* The vault's tables implement the store of versions: every section of    *)
(* every call is a step of the store or leaves its history alone.          *)
(***************************************************************************)
EXTENDS ProfileVaultProofs

(* The versions of a profile, row by row.                                  *)
LEMMA VersionRows ==
  TypeOK => /\ DOMAIN Versions = DOMAIN profiles
            /\ \A i \in DOMAIN profiles : \A n :
                 /\ n \in DOMAIN Versions[i] <=> <<i, n>> \in DOMAIN revisions
                 /\ n \in DOMAIN Versions[i] => Versions[i][n] = revisions[<<i, n>>]
<1> SUFFICES ASSUME TypeOK
             PROVE  /\ DOMAIN Versions = DOMAIN profiles
                    /\ \A i \in DOMAIN profiles : \A n :
                         /\ n \in DOMAIN Versions[i] <=> <<i, n>> \in DOMAIN revisions
                         /\ n \in DOMAIN Versions[i] => Versions[i][n] = revisions[<<i, n>>]
  OBVIOUS
<1>1. \A i, n : n \in RevisionsOf(i) <=> <<i, n>> \in DOMAIN revisions
  BY RevisionsOfKeys DEF TypeOK
<1> QED BY <1>1 DEF Versions

(* A profile whose history rows a step leaves alone keeps its versions.    *)
LEMMA VersionsKept ==
  ASSUME TypeOK, TypeOK', NEW i \in DOMAIN profiles, i \in DOMAIN profiles',
         \A n : <<i, n>> \in DOMAIN revisions' <=> <<i, n>> \in DOMAIN revisions,
         \A n : <<i, n>> \in DOMAIN revisions => revisions'[<<i, n>>] = revisions[<<i, n>>]
  PROVE  Versions'[i] = Versions[i]
<1>1. \A n : n \in RevisionsOf(i) <=> <<i, n>> \in DOMAIN revisions
  BY RevisionsOfKeys DEF TypeOK
<1>2. \A n : n \in RevisionsOf(i)' <=> <<i, n>> \in DOMAIN revisions'
  <2>1. \A k \in DOMAIN revisions' : k = <<k[1], k[2]>>
    BY DEF TypeOK, IsTable
  <2> QED BY <2>1 DEF RevisionsOf
<1>3. RevisionsOf(i)' = RevisionsOf(i)
  BY <1>1, <1>2
<1>4. \A n \in RevisionsOf(i) : revisions'[<<i, n>>] = revisions[<<i, n>>]
  BY <1>1
<1>5. Versions[i] = [n \in RevisionsOf(i) |-> revisions[<<i, n>>]]
  BY DEF Versions
<1>6. Versions'[i] = [n \in RevisionsOf(i)' |-> revisions'[<<i, n>>]]
  BY DEF Versions
<1> QED BY <1>3, <1>4, <1>5, <1>6

(* The newest version is the active one.                                   *)
LEMMA NewestIsActive ==
  ASSUME IInv, NEW i \in DOMAIN profiles
  PROVE  Store!Newest(Versions[i]) = profiles[i].revision
<1>1. HasHistory(i) /\ profiles[i].revision \in Nat
  BY HistoryByKeys DEF IInv, TypeOK, IsTable, ProfileRow, Revisions
<1>2. PICK first \in 1..profiles[i].revision :
        \A n : <<i, n>> \in DOMAIN revisions <=> n \in first..profiles[i].revision
  BY <1>1 DEF HasHistory
<1>3. \A n : n \in DOMAIN Versions[i] <=> n \in first..profiles[i].revision
  BY <1>2, VersionRows DEF IInv
<1>4. /\ profiles[i].revision \in DOMAIN Versions[i]
      /\ \A m \in DOMAIN Versions[i] : m <= profiles[i].revision
  BY <1>1, <1>3
<1>5. \A n \in DOMAIN Versions[i] :
        (\A m \in DOMAIN Versions[i] : m <= n) => n = profiles[i].revision
  BY <1>1, <1>3, <1>4
<1> HIDE DEF Versions
<1> QED BY <1>4, <1>5 DEF Store!Newest

(* The next state's versions of a profile, row by row.                     *)
LEMMA NextVersionRows ==
  ASSUME TypeOK'
  PROVE  /\ DOMAIN Versions' = DOMAIN profiles'
         /\ \A i \in DOMAIN profiles' : \A n :
              /\ n \in DOMAIN Versions'[i] <=> <<i, n>> \in DOMAIN revisions'
              /\ n \in DOMAIN Versions'[i] => Versions'[i][n] = revisions'[<<i, n>>]
<1>1. TypeOK' =>
        (/\ DOMAIN Versions = DOMAIN profiles
         /\ \A i \in DOMAIN profiles : \A n :
              /\ n \in DOMAIN Versions[i] <=> <<i, n>> \in DOMAIN revisions
              /\ n \in DOMAIN Versions[i] => Versions[i][n] = revisions[<<i, n>>])'
  BY VersionRows, PTL
<1> QED BY <1>1

-----------------------------------------------------------------------------
(* What the steps of the vault do to the versions                          *)

(* The histories of an opened database have no gap.                        *)
LEMMA InitSimulates == Init => Store!Init
<1> SUFFICES ASSUME Init, NEW i \in DOMAIN profiles
             PROVE  \E first \in DOMAIN Versions[i] :
                      DOMAIN Versions[i] = first..Store!Newest(Versions[i])
  BY InitInv, VersionRows DEF IInv, Store!Init
<1>1. IInv
  BY InitInv
<1>2. HasHistory(i) /\ profiles[i].revision \in Nat
  BY <1>1, HistoryByKeys DEF IInv, TypeOK, IsTable, ProfileRow, Revisions
<1>3. PICK first \in 1..profiles[i].revision :
        \A n : <<i, n>> \in DOMAIN revisions <=> n \in first..profiles[i].revision
  BY <1>2 DEF HasHistory
<1>4. DOMAIN Versions[i] = RevisionsOf(i)
  BY DEF Versions
<1>5. \A n : n \in RevisionsOf(i) <=> n \in first..profiles[i].revision
  BY <1>1, <1>3, RevisionsOfKeys DEF IInv, TypeOK
<1>6. DOMAIN Versions[i] = first..profiles[i].revision /\ first \in DOMAIN Versions[i]
  <2>1. RevisionsOf(i) = first..profiles[i].revision
    BY <1>5
  <2>2. first \in first..profiles[i].revision
    BY <1>2, <1>3
  <2> QED BY <1>4, <2>1, <2>2
<1>7. Store!Newest(Versions[i]) = profiles[i].revision
  BY <1>1, NewestIsActive
<1> QED BY <1>6, <1>7

(* An import or the entry of one profile creates histories.                *)
LEMMA EntrySimulates ==
  ASSUME IInv, TypeOK', NEW ids \in SUBSET ProfileIds, Entered(ids)
  PROVE  Store!Create
<1>1. TypeOK /\ \A k \in DOMAIN revisions : k[1] \in DOMAIN profiles
  BY DEF IInv, NoOrphanRows
<1>2. \A i, n : <<i, n>> \in DOMAIN revisions'
                  <=> <<i, n>> \in DOMAIN revisions \/ (i \in ids /\ n = 1)
  BY DEF Entered
<1>3. ASSUME NEW i \in DOMAIN profiles
      PROVE  Versions'[i] = Versions[i]
  <2>1. \A n : <<i, n>> \in DOMAIN revisions' <=> <<i, n>> \in DOMAIN revisions
    BY <1>2 DEF Entered
  <2> QED BY <1>1, <2>1, VersionsKept DEF Entered
<1>4. ASSUME NEW i \in ids
      PROVE  DOMAIN Versions'[i] = {1}
  <2>1. \A n : <<i, n>> \notin DOMAIN revisions
    BY <1>1 DEF Entered
  <2>2. \A n : n \in DOMAIN Versions'[i] <=> n = 1
    BY <1>2, <2>1, NextVersionRows DEF Entered
  <2> QED BY <2>2
<1>5. /\ DOMAIN Versions = DOMAIN profiles
      /\ DOMAIN Versions' = DOMAIN profiles \cup ids
      /\ ids \cap DOMAIN profiles = {}
  BY <1>1, VersionRows, NextVersionRows DEF Entered
<1> QED BY <1>3, <1>4, <1>5 DEF Store!Create

(* An adoption or a commit revises one profile.                            *)
LEMMA ActivateSimulates ==
  ASSUME IInv, TypeOK', NEW id \in DOMAIN profiles, NEW record, NEW note,
         Activate(id, record, note)
  PROVE  Store!Revise(id)
<1> DEFINE next == profiles[id].revision + 1
           row == RevisionRow(record, note)
<1>1. /\ DOMAIN profiles' = DOMAIN profiles
      /\ revisions' = Put(revisions, <<id, next>>, row)
  BY ActivateHistory DEF Activate, WithRevision
<1>2. TypeOK
  BY DEF IInv
<1>3. <<id, next>> \notin DOMAIN revisions
  <2>1. HasHistory(id) /\ profiles[id].revision \in Nat
    BY HistoryByKeys DEF IInv, TypeOK, IsTable, ProfileRow, Revisions
  <2> QED BY <2>1 DEF HasHistory
<1>4. Store!Newest(Versions[id]) + 1 = next
  BY NewestIsActive
<1> HIDE DEF next, row
<1>5. /\ DOMAIN revisions' = DOMAIN revisions \cup {<<id, next>>}
      /\ \A k \in DOMAIN revisions : revisions'[k] = revisions[k]
  BY <1>1, <1>3 DEF Put
<1>6. ASSUME NEW i \in DOMAIN profiles \ {id}
      PROVE  Versions'[i] = Versions[i]
  <2>1. \A n : <<i, n>> \in DOMAIN revisions' <=> <<i, n>> \in DOMAIN revisions
    BY <1>5
  <2> QED BY <1>1, <1>2, <1>5, <2>1, VersionsKept
<1>7. id \in DOMAIN profiles'
  BY <1>1
<1>8. /\ DOMAIN Versions'[id] = DOMAIN Versions[id] \cup {next}
      /\ \A n \in DOMAIN Versions[id] : Versions'[id][n] = Versions[id][n]
  <2>1. \A n : <<id, n>> \in DOMAIN revisions'
                 <=> <<id, n>> \in DOMAIN revisions \/ n = next
    BY <1>5
  <2>2. \A n : n \in DOMAIN Versions[id] <=> <<id, n>> \in DOMAIN revisions
    BY <1>2, VersionRows
  <2>3. \A n : n \in DOMAIN Versions'[id] <=> <<id, n>> \in DOMAIN revisions'
    BY <1>7, NextVersionRows
  <2>4. \A n \in DOMAIN Versions[id] : Versions[id][n] = revisions[<<id, n>>]
    BY <1>2, VersionRows
  <2>5. \A n \in DOMAIN Versions'[id] : Versions'[id][n] = revisions'[<<id, n>>]
    BY <1>7, NextVersionRows
  <2>6. DOMAIN Versions'[id] = DOMAIN Versions[id] \cup {next}
    BY <2>1, <2>2, <2>3
  <2>7. ASSUME NEW n \in DOMAIN Versions[id]
        PROVE  Versions'[id][n] = Versions[id][n]
    BY <1>5, <2>2, <2>4, <2>5, <2>6
  <2> QED BY <2>6, <2>7
<1>9. DOMAIN Versions' = DOMAIN Versions /\ DOMAIN Versions = DOMAIN profiles
  BY <1>1, <1>2, VersionRows, NextVersionRows
<1> QED BY <1>4, <1>6, <1>8, <1>9 DEF Store!Revise

(* The second section of a deletion erases one profile.                    *)
LEMMA DeletionSimulates ==
  ASSUME IInv, TypeOK', NEW c \in Callers, FinishDelete(c)
  PROVE  \E id \in DOMAIN profiles : Store!Erase(id)
<1> DEFINE id == call[c].id
           left == {k \in DOMAIN revisions : k[1] # id}
<1>1. /\ id \in DOMAIN profiles
      /\ profiles' = Restrict(profiles, DOMAIN profiles \ {id})
      /\ revisions' = Restrict(revisions, left)
  BY DEF FinishDelete, Drop, RevisionsWithout
<1>2. TypeOK
  BY DEF IInv
<1> HIDE DEF id
<1>3. /\ DOMAIN profiles' = DOMAIN profiles \ {id}
      /\ DOMAIN revisions' = left
      /\ \A k \in left : revisions'[k] = revisions[k]
  BY <1>1 DEF Restrict
<1>4. ASSUME NEW i \in DOMAIN profiles \ {id}
      PROVE  Versions'[i] = Versions[i]
  <2>1. \A n : <<i, n>> \in DOMAIN revisions' <=> <<i, n>> \in DOMAIN revisions
    BY <1>3
  <2>2. \A n : <<i, n>> \in DOMAIN revisions => revisions'[<<i, n>>] = revisions[<<i, n>>]
    BY <1>3
  <2> QED BY <1>2, <1>3, <2>1, <2>2, VersionsKept
<1>5. /\ DOMAIN Versions' = DOMAIN Versions \ {id}
      /\ DOMAIN Versions = DOMAIN profiles
  BY <1>2, <1>3, VersionRows, NextVersionRows
<1>6. Versions' = [i \in DOMAIN Versions' |-> Versions'[i]]
  BY DEF Versions
<1>7. Versions' = [i \in DOMAIN Versions \ {id} |-> Versions[i]]
  <2> HIDE DEF Versions
  <2> QED BY <1>4, <1>5, <1>6
<1>8. Store!Erase(id)
  BY <1>7 DEF Store!Erase, Store!Drop, Store!Restrict
<1> QED BY <1>1, <1>8

(* A step that leaves the history rows and the set of profiles alone.      *)
LEMMA QuietSimulates ==
  ASSUME DOMAIN profiles' = DOMAIN profiles, revisions' = revisions
  PROVE  Versions' = Versions
BY DEF Versions, RevisionsOf

(* Every section of every call, and every restart, is a step of the store  *)
(* or none.                                                                *)
LEMMA NextSimulates == IInv /\ [Next]_vars => [Store!Next]_Versions
<1> SUFFICES ASSUME IInv, [Next]_vars PROVE [Store!Next]_Versions
  OBVIOUS
<1>a. TypeOK /\ TypeOK' /\ DOMAIN Versions = DOMAIN profiles
  BY NextType, VersionRows DEF IInv
<1>1. ASSUME NEW n \in 1..MaxImport, NEW rows \in [1..n -> Record],
             ImportCsv(rows)
      PROVE  Store!Next
  BY <1>a, <1>1, ImportEnters, EntrySimulates DEF Store!Next
<1>2. ASSUME NEW record \in Record, NEW verified \in BOOLEAN,
             AddProfile(record, verified)
      PROVE  Store!Next
  BY <1>a, <1>2, AddEnters, EntrySimulates DEF Store!Next
<1>3. ASSUME NEW id \in ProfileIds, NEW iccid \in Iccids, NEW imsi \in Imsis,
             AdoptCardImsi(id, iccid, imsi)
      PROVE  Store!Next
  BY <1>a, <1>3, ActivateSimulates DEF AdoptCardImsi, Store!Next
<1>4. ASSUME NEW id \in ProfileIds, NEW iccid \in Iccids, NEW info \in Infos,
             AdoptReadableFields(id, iccid, info)
      PROVE  Store!Next
  BY <1>a, <1>4, ActivateSimulates DEF AdoptReadableFields, Store!Next
<1>5. ASSUME NEW id \in ProfileIds, NEW expected \in Revisions,
             CommitChange(id, expected)
      PROVE  Store!Next
  BY <1>a, <1>5, ActivateSimulates DEF CommitChange, Store!Next
<1>6. ASSUME NEW c \in Callers, FinishDelete(c)
      PROVE  Store!Next
  BY <1>a, <1>6, DeletionSimulates DEF Store!Next
<1>7. ASSUME DOMAIN profiles' = DOMAIN profiles, revisions' = revisions
      PROVE  Versions' = Versions
  BY <1>7, QuietSimulates
<1>8. ASSUME NEW id \in ProfileIds, MarkCardVerified(id)
      PROVE  Versions' = Versions
  BY <1>7, <1>8 DEF MarkCardVerified
<1>9. CASE Restart
  BY <1>7, <1>9, BackfilledNothing DEF Restart
<1>10. CASE UNCHANGED <<profiles, revisions>>
  BY <1>7, <1>10
<1>11. CASE SuciKeyCall
  BY <1>10, <1>11 DEF SuciKeyCall, ImportSuciKey, SetSuciKeyActive, DeleteSuciKey
<1> QED
  BY <1>1, <1>2, <1>3, <1>4, <1>5, <1>6, <1>8, <1>9, <1>10, <1>11
  DEF Next, AtomicCall, TwoSectionCall, vars, DiscardChange, SetInventory,
      BeginPrepare, StoreDraft, BeginDelete, FailSecondSection

(* The tables of the vault are a store of versions, for every number of    *)
(* callers, profiles and revisions: imports and single entries create      *)
(* histories, adoptions and commits add the next version, a confirmed      *)
(* deletion erases one whole history, and nothing else touches any.        *)
THEOREM VaultIsVersionedStore == Spec => ImplementsVersionedStore
<1> QED BY InitSimulates, NextSimulates, InvariantHolds, PTL
        DEF Spec, ImplementsVersionedStore, Store!Spec
=============================================================================

------------------------- MODULE ProfileVaultProofs -------------------------
(***************************************************************************)
(* The vault keeps its invariants for every number of callers, profiles,   *)
(* revisions and values.                                                   *)
(***************************************************************************)
EXTENDS ProfileVault, TablesLemmas

-----------------------------------------------------------------------------
(* Type correctness                                                        *)

(* A new active version of a profile is a typed row, and so is its history *)
(* row.                                                                    *)
LEMMA ActivateType ==
  ASSUME TypeOK, NEW id \in DOMAIN profiles, NEW record \in Record,
         NEW note \in SUBSET Fields, Activate(id, record, note)
  PROVE  /\ IsTable(profiles', ProfileIds, ProfileRow)
         /\ IsTable(revisions', ProfileIds \X Revisions, HistoryRow)
<1> DEFINE next == profiles[id].revision + 1
           row == [record |-> record, revision |-> next, verified |-> TRUE]
<1>1. /\ next \in Revisions
      /\ profiles' = Put(profiles, id, row)
      /\ revisions' = Put(revisions, <<id, next>>, RevisionRow(record, note))
  BY DEF Activate, WithRevision
<1>2. row \in ProfileRow /\ RevisionRow(record, note) \in HistoryRow
  BY <1>1 DEF ProfileRow, HistoryRow, RevisionRow
<1>3. id \in ProfileIds /\ <<id, next>> \in ProfileIds \X Revisions
  BY <1>1 DEF TypeOK, IsTable
<1> HIDE DEF next, row
<1> QED BY <1>1, <1>2, <1>3, PutType DEF TypeOK

(* A row an earlier release wrote is a history row.                        *)
LEMMA EarlierRowType == \A record \in Record : RevisionRow(record, Earlier) \in HistoryRow
<1> DEFINE Notes == (SUBSET Fields) \cup {Earlier}
<1>1. Earlier \in Notes
  OBVIOUS
<1>2. HistoryRow = [record : Record, note : Notes]
  BY DEF HistoryRow
<1> HIDE DEF Notes
<1> QED BY <1>1, <1>2 DEF RevisionRow

(* The restart's backfill adds only typed rows.                            *)
LEMMA BackfilledType ==
  ASSUME NEW table, IsTable(table, ProfileIds, ProfileRow),
         NEW revs, IsTable(revs, ProfileIds \X Revisions, HistoryRow)
  PROVE  IsTable(Backfilled(table, revs), ProfileIds \X Revisions, HistoryRow)
<1> DEFINE keys == {<<i, table[i].revision>> : i \in DOMAIN table}
           rows == [k \in keys |-> RevisionRow(table[k[1]].record, Earlier)]
<1>1. keys \subseteq ProfileIds \X Revisions
  BY DEF ProfileRow, IsTable
<1>2. rows \in [keys -> HistoryRow]
  <2>1. \A k \in keys : table[k[1]].record \in Record
    BY DEF ProfileRow, IsTable
  <2> QED BY <2>1, EarlierRowType
<1>3. Backfilled(table, revs) = PutAll(rows, revs)
  BY DEF Backfilled, PutMissing
<1>4. IsTable(rows, ProfileIds \X Revisions, HistoryRow)
  BY <1>1, <1>2 DEF IsTable
<1> HIDE DEF rows, keys
<1> QED BY <1>3, <1>4, PutAllType

(* The profiles of an older release are typed.                             *)
LEMMA InitProfiles == Init => IsTable(profiles, ProfileIds, ProfileRow)
<1> SUFFICES ASSUME Init PROVE IsTable(profiles, ProfileIds, ProfileRow)
  OBVIOUS
<1>1. PICK ids \in SUBSET LegacyIds :
        \E old \in [ids -> [record : Record, revision : Revisions]] :
          \E interrupted \in BOOLEAN :
            profiles = [i \in ids |-> MigratedRow(old[i], interrupted)]
  BY DEF Init
<1>2. PICK old \in [ids -> [record : Record, revision : Revisions]],
           interrupted \in BOOLEAN :
        profiles = [i \in ids |-> MigratedRow(old[i], interrupted)]
  BY <1>1
<1>3. ids \subseteq ProfileIds
  BY BoundsAssumption DEF ProfileIds
<1>4. \A i \in ids : MigratedRow(old[i], interrupted) \in ProfileRow
  BY DEF MigratedRow, ProfileRow
<1> QED BY <1>2, <1>3, <1>4 DEF IsTable

(* The history of an opened database: each profile has its active version  *)
(* and, of the earlier ones, those since the first that was recorded, all  *)
(* with the note of an earlier release.                                    *)
LEMMA InitHistory ==
  ASSUME Init
  PROVE  /\ IsTable(revisions, ProfileIds \X Revisions, HistoryRow)
         /\ \A k \in DOMAIN revisions : revisions[k].note = Earlier
         /\ \A i \in DOMAIN profiles :
              revisions[<<i, profiles[i].revision>>].record = profiles[i].record
         /\ \E first \in [DOMAIN profiles -> Revisions] : \A i, n :
              <<i, n>> \in DOMAIN revisions <=>
                /\ i \in DOMAIN profiles
                /\ \/ n = profiles[i].revision
                   \/ n \in Revisions /\ first[i] <= n /\ n < profiles[i].revision
<1>1. PICK first \in [DOMAIN profiles -> Revisions] :
        \E past \in [EarlierVersions(profiles, first) -> Record] :
          revisions = Backfilled(profiles,
            [k \in DOMAIN past |-> RevisionRow(past[k], Earlier)])
  BY DEF Init
<1>2. PICK past \in [EarlierVersions(profiles, first) -> Record] :
        revisions = Backfilled(profiles,
          [k \in DOMAIN past |-> RevisionRow(past[k], Earlier)])
  BY <1>1
<1> DEFINE keys == {<<i, profiles[i].revision>> : i \in DOMAIN profiles}
           active == [k \in keys |-> RevisionRow(profiles[k[1]].record, Earlier)]
           old == EarlierVersions(profiles, first)
           rows == [k \in old |-> RevisionRow(past[k], Earlier)]
<1>3. revisions = Backfilled(profiles, rows) /\ revisions = PutAll(active, rows)
  BY <1>2 DEF Backfilled, PutMissing
<1>4. IsTable(profiles, ProfileIds, ProfileRow)
  BY InitProfiles
<1>5. old \subseteq ProfileIds \X Revisions
  BY <1>4 DEF EarlierVersions, IsTable
<1>6. rows \in [old -> HistoryRow]
  BY EarlierRowType
<1>7. IsTable(rows, ProfileIds \X Revisions, HistoryRow)
  BY <1>5, <1>6 DEF IsTable
<1>8. /\ \A k \in keys : active[k].note = Earlier
      /\ \A k \in old : rows[k].note = Earlier
      /\ \A i \in DOMAIN profiles :
           active[<<i, profiles[i].revision>>].record = profiles[i].record
  BY DEF RevisionRow
<1>9. /\ DOMAIN active = keys /\ DOMAIN rows = old
      /\ \A i, n : <<i, n>> \in keys <=> i \in DOMAIN profiles /\ n = profiles[i].revision
      /\ \A i, n : <<i, n>> \in old <=> /\ i \in DOMAIN profiles /\ n \in Revisions
                                       /\ first[i] <= n /\ n < profiles[i].revision
  BY DEF EarlierVersions
<1>10. \A i \in DOMAIN profiles : profiles[i].revision \in Int
  BY <1>4 DEF IsTable, ProfileRow, Revisions
<1>11. \A i \in DOMAIN profiles : <<i, profiles[i].revision>> \in keys \ old
  BY <1>9, <1>10
<1> HIDE DEF active, rows, old, keys
<1>12. /\ DOMAIN revisions = keys \cup old
       /\ \A k \in old : revisions[k] = rows[k]
       /\ \A k \in keys \ old : revisions[k] = active[k]
  BY <1>3, <1>9 DEF PutAll
<1>13. IsTable(revisions, ProfileIds \X Revisions, HistoryRow)
  BY <1>3, <1>4, <1>7, BackfilledType
<1>14. \A k \in DOMAIN revisions : revisions[k].note = Earlier
  BY <1>8, <1>12
<1>15. \A i \in DOMAIN profiles :
         revisions[<<i, profiles[i].revision>>].record = profiles[i].record
  BY <1>8, <1>11, <1>12
<1>16. \A i, n : <<i, n>> \in DOMAIN revisions <=>
         /\ i \in DOMAIN profiles
         /\ \/ n = profiles[i].revision
            \/ n \in Revisions /\ first[i] <= n /\ n < profiles[i].revision
  BY <1>9, <1>12
<1> QED BY <1>13, <1>14, <1>15, <1>16

(* The tables an opened database starts with are typed.                    *)
LEMMA InitType == Init => TypeOK
<1> SUFFICES ASSUME Init PROVE TypeOK
  OBVIOUS
<1>1. \A K, R : IsTable(EmptyTable, K, R)
  BY DEF EmptyTable, IsTable
<1> QED BY <1>1, InitProfiles, InitHistory DEF Init, TypeOK

(* Every section of every call leaves typed tables behind.                 *)
LEMMA NextType == TypeOK /\ [Next]_vars => TypeOK'
<1> SUFFICES ASSUME TypeOK, [Next]_vars PROVE TypeOK'
  OBVIOUS
<1>1. ASSUME NEW n \in 1..MaxImport, NEW rows \in [1..n -> Record],
             ImportCsv(rows)
      PROVE  TypeOK'
  <2>1. PICK first \in ProfileIds :
          /\ first + Len(rows) - 1 \in ProfileIds
          /\ profiles' = PutAll(profiles,
               [i \in first..(first + Len(rows) - 1) |->
                  NewProfile(rows[i - first + 1], FALSE)])
          /\ revisions' = PutAll(revisions,
               [k \in (first..(first + Len(rows) - 1)) \X {1} |->
                  RevisionRow(rows[k[1] - first + 1], {})])
    BY <1>1 DEF ImportCsv
  <2> DEFINE ids == first..(first + Len(rows) - 1)
             new == [i \in ids |-> NewProfile(rows[i - first + 1], FALSE)]
             old == [k \in ids \X {1} |-> RevisionRow(rows[k[1] - first + 1], {})]
  <2>2. n \in Nat /\ Len(rows) = n
    BY BoundsAssumption
  <2>3. ids \subseteq ProfileIds /\ \A i \in ids : rows[i - first + 1] \in Record
    BY <2>1, <2>2, BoundsAssumption DEF ProfileIds
  <2>4. 1 \in Revisions
    BY BoundsAssumption DEF Revisions
  <2>5. IsTable(new, ProfileIds, ProfileRow)
    BY <2>3, <2>4 DEF NewProfile, IsTable, ProfileRow
  <2>6. IsTable(old, ProfileIds \X Revisions, HistoryRow)
    BY <2>3, <2>4 DEF RevisionRow, IsTable, HistoryRow
  <2>7. profiles' = PutAll(profiles, new) /\ revisions' = PutAll(revisions, old)
    BY <2>1
  <2> HIDE DEF ids, new, old
  <2>8. IsTable(profiles', ProfileIds, ProfileRow)
    BY <2>5, <2>7, PutAllType DEF TypeOK
  <2>9. IsTable(revisions', ProfileIds \X Revisions, HistoryRow)
    BY <2>6, <2>7, PutAllType DEF TypeOK
  <2> QED BY <1>1, <2>8, <2>9 DEF ImportCsv, TypeOK
<1>2. ASSUME NEW record \in Record, NEW verified \in BOOLEAN,
             AddProfile(record, verified)
      PROVE  TypeOK'
  <2>1. PICK n \in ProfileIds :
          /\ profiles' = Put(profiles, n, NewProfile(record, verified))
          /\ revisions' = Put(revisions, <<n, 1>>, RevisionRow(record, {}))
    BY <1>2 DEF AddProfile, WithRevision
  <2>2. 1 \in Revisions
    BY BoundsAssumption DEF Revisions
  <2>3. NewProfile(record, verified) \in ProfileRow
    BY <2>2 DEF NewProfile, ProfileRow
  <2>4. RevisionRow(record, {}) \in HistoryRow
    BY DEF RevisionRow, HistoryRow
  <2>5. IsTable(profiles', ProfileIds, ProfileRow)
    BY <2>1, <2>3, PutType DEF TypeOK
  <2>6. IsTable(revisions', ProfileIds \X Revisions, HistoryRow)
    BY <2>1, <2>2, <2>4, PutType DEF TypeOK
  <2> QED BY <1>2, <2>5, <2>6 DEF AddProfile, TypeOK
<1>3. ASSUME NEW id \in ProfileIds, MarkCardVerified(id)
      PROVE  TypeOK'
  BY <1>3 DEF MarkCardVerified, TypeOK, IsTable, ProfileRow
<1>4. ASSUME NEW id \in ProfileIds, NEW iccid \in Iccids, NEW imsi \in Imsis,
             AdoptCardImsi(id, iccid, imsi)
      PROVE  TypeOK'
  <2> DEFINE record == [profiles[id].record EXCEPT !.imsi = imsi]
  <2>1. record \in Record /\ id \in DOMAIN profiles /\ {"imsi"} \in SUBSET Fields
    BY <1>4 DEF AdoptCardImsi, TypeOK, IsTable, ProfileRow, Record, Fields
  <2>2. Activate(id, record, {"imsi"})
    BY <1>4 DEF AdoptCardImsi
  <2> HIDE DEF record
  <2> QED BY <1>4, <2>1, <2>2, ActivateType DEF AdoptCardImsi, TypeOK
<1>5. ASSUME NEW id \in ProfileIds, NEW iccid \in Iccids, NEW info \in Infos,
             AdoptReadableFields(id, iccid, info)
      PROVE  TypeOK'
  <2> DEFINE record == [profiles[id].record EXCEPT !.info = info]
  <2>1. record \in Record /\ id \in DOMAIN profiles /\ {"info"} \in SUBSET Fields
    BY <1>5 DEF AdoptReadableFields, TypeOK, IsTable, ProfileRow, Record, Fields
  <2>2. Activate(id, record, {"info"})
    BY <1>5 DEF AdoptReadableFields
  <2> HIDE DEF record
  <2> QED BY <1>5, <2>1, <2>2, ActivateType DEF AdoptReadableFields, TypeOK
<1>6. ASSUME NEW id \in ProfileIds, DiscardChange(id)
      PROVE  TypeOK'
  BY <1>6, RestrictType DEF DiscardChange, DraftsWithout, Drop, TypeOK
<1>7. ASSUME NEW id \in ProfileIds, NEW expected \in Revisions,
             CommitChange(id, expected)
      PROVE  TypeOK'
  <2>1. /\ id \in DOMAIN profiles
        /\ drafts[id].record \in Record
        /\ drafts[id].changed \in SUBSET Fields
    BY <1>7 DEF CommitChange, TypeOK, IsTable, DraftRow
  <2>2. Activate(id, drafts[id].record, drafts[id].changed)
    BY <1>7 DEF CommitChange
  <2>3. IsTable(drafts', ProfileIds, DraftRow)
    BY <1>7, RestrictType DEF CommitChange, DraftsWithout, Drop, TypeOK
  <2> QED BY <1>7, <2>1, <2>2, <2>3, ActivateType DEF CommitChange, TypeOK
<1>8. ASSUME NEW id \in ProfileIds, NEW status \in Statuses,
             SetInventory(id, status)
      PROVE  TypeOK'
  BY <1>8, PutType DEF SetInventory, TypeOK
<1>9. CASE Restart
  BY <1>9, BackfilledType DEF Restart, TypeOK
<1>10. ASSUME NEW c \in Callers, NEW id \in ProfileIds, NEW imsi \in Imsis,
              NEW info \in Infos, NEW keys \in KeySets,
              BeginPrepare(c, id, imsi, info, keys)
       PROVE  TypeOK'
  <2> DEFINE current == profiles[id].record
             updated == [current EXCEPT !.imsi = imsi, !.info = info, !.keys = keys]
             Local(changed) == [op |-> "prepare", id |-> id, record |-> updated,
                                changed |-> changed]
  <2>1. updated \in Record
    BY <1>10 DEF BeginPrepare, TypeOK, IsTable, ProfileRow, Record
  <2>0. PICK restated \in SUBSET OtherForms :
          call' = [call EXCEPT ![c] = Local(ChangedFields(current, updated) \cup restated)]
    BY <1>10 DEF BeginPrepare
  <2> DEFINE changed == ChangedFields(current, updated) \cup restated
             local == Local(changed)
  <2>2. changed \in SUBSET Fields
    BY FormsAssumption DEF ChangedFields, Fields
  <2>3. call' = [call EXCEPT ![c] = local]
    BY <2>0
  <2> HIDE DEF updated, changed
  <2>4. local \in Preparing
    BY <2>1, <2>2 DEF Preparing
  <2> HIDE DEF local
  <2>5. call' \in [Callers -> {Idle} \cup Preparing \cup Deleting]
    BY <2>3, <2>4 DEF TypeOK
  <2> QED BY <1>10, <2>5 DEF BeginPrepare, TypeOK
<1>11. ASSUME NEW c \in Callers, StoreDraft(c)
       PROVE  TypeOK'
  <2> DEFINE id == call[c].id
             row == [record |-> call[c].record, changed |-> call[c].changed,
                     base |-> profiles[id].revision]
  <2>1. call[c] \in Preparing
    BY <1>11 DEF StoreDraft, TypeOK, Idle, Deleting
  <2>2. id \in DOMAIN profiles /\ drafts' = Put(drafts, id, row)
    BY <1>11 DEF StoreDraft
  <2>3. id \in ProfileIds /\ row \in DraftRow
    BY <2>1, <2>2 DEF TypeOK, IsTable, ProfileRow, DraftRow, Preparing
  <2> HIDE DEF id, row
  <2>4. IsTable(drafts', ProfileIds, DraftRow)
    BY <2>2, <2>3, PutType DEF TypeOK
  <2> QED BY <1>11, <2>4 DEF StoreDraft, TypeOK
<1>12. ASSUME NEW c \in Callers, NEW id \in ProfileIds, NEW iccid \in Iccids,
              BeginDelete(c, id, iccid)
       PROVE  TypeOK'
  BY <1>12 DEF BeginDelete, TypeOK, Deleting
<1>13. ASSUME NEW c \in Callers, FinishDelete(c)
       PROVE  TypeOK'
  BY <1>13, RestrictType DEF FinishDelete, DraftsWithout, RevisionsWithout, Drop, TypeOK
<1>14. ASSUME NEW c \in Callers, FailSecondSection(c)
       PROVE  TypeOK'
  BY <1>14 DEF FailSecondSection, TypeOK
<1>15. ASSUME NEW key \in SuciKeys, ImportSuciKey(key)
       PROVE  TypeOK'
  <2>1. PICK n \in SuciKeyIds :
          suciKeys' = Put(suciKeys, n, [key |-> key, active |-> TRUE])
    BY <1>15 DEF ImportSuciKey
  <2>2. IsTable(suciKeys', SuciKeyIds, SuciKeyRow)
    BY <2>1, PutType DEF TypeOK, SuciKeyRow
  <2> QED BY <1>15, <2>2 DEF ImportSuciKey, TypeOK
<1>16. ASSUME NEW id \in SuciKeyIds, NEW active \in BOOLEAN,
              SetSuciKeyActive(id, active)
       PROVE  TypeOK'
  BY <1>16 DEF SetSuciKeyActive, TypeOK, IsTable, SuciKeyRow
<1>17. ASSUME NEW id \in SuciKeyIds, DeleteSuciKey(id)
       PROVE  TypeOK'
  BY <1>17, RestrictType DEF DeleteSuciKey, Drop, TypeOK
<1>18. CASE UNCHANGED vars
  BY <1>18 DEF vars, TypeOK
<1> QED
  BY <1>1, <1>2, <1>3, <1>4, <1>5, <1>6, <1>7, <1>8, <1>9, <1>10, <1>11, <1>12,
     <1>13, <1>14, <1>15, <1>16, <1>17, <1>18
  DEF Next, AtomicCall, TwoSectionCall, SuciKeyCall

(* Every reachable vault is typed: ids, revision numbers, drafts and what  *)
(* the callers hold between their sections stay in their sets.             *)
THEOREM TypeCorrect == Spec => []TypeOK
<1> QED BY InitType, NextType, PTL DEF Spec

-----------------------------------------------------------------------------
(* The inductive invariant                                                 *)

(* None of the three is inductive alone: that the history of a new profile *)
(* starts empty follows from NoOrphanRows, that a commit extends the       *)
(* history at its end from HistoryEndsInActive, and that an adoption       *)
(* leaves no draft on an older base from DraftBaseIsActive.                *)
IInv == TypeOK /\ NoOrphanRows /\ HistoryEndsInActive /\ DraftBaseIsActive

(* The revisions of a profile are the second halves of its keys.           *)
LEMMA RevisionsOfKeys ==
  ASSUME IsTable(revisions, ProfileIds \X Revisions, HistoryRow)
  PROVE  \A i, n : n \in RevisionsOf(i) <=> <<i, n>> \in DOMAIN revisions
<1>1. \A k \in DOMAIN revisions : k = <<k[1], k[2]>>
  BY DEF IsTable
<1> QED BY <1>1 DEF RevisionsOf

(* What the history of one profile has to look like, key by key.           *)
HasHistory(i) ==
  /\ \E first \in 1..profiles[i].revision :
       \A n : <<i, n>> \in DOMAIN revisions <=> n \in first..profiles[i].revision
  /\ revisions[<<i, profiles[i].revision>>].record = profiles[i].record

(* The invariant on the history is that of its profiles.                   *)
LEMMA HistoryByKeys ==
  TypeOK => (HistoryEndsInActive <=> \A i \in DOMAIN profiles : HasHistory(i))
<1> SUFFICES ASSUME TypeOK
             PROVE  HistoryEndsInActive <=> \A i \in DOMAIN profiles : HasHistory(i)
  OBVIOUS
<1>1. \A i, n : n \in RevisionsOf(i) <=> <<i, n>> \in DOMAIN revisions
  BY RevisionsOfKeys DEF TypeOK
<1>2. \A i, S : RevisionsOf(i) = S <=> \A n : <<i, n>> \in DOMAIN revisions <=> n \in S
  BY <1>1
<1> QED BY <1>2 DEF HistoryEndsInActive, HasHistory

(* A profile whose rows a step leaves alone keeps its history.             *)
LEMMA HistoryKept ==
  ASSUME TypeOK, HistoryEndsInActive, NEW i \in DOMAIN profiles,
         profiles'[i].revision = profiles[i].revision,
         profiles'[i].record = profiles[i].record,
         \A n : <<i, n>> \in DOMAIN revisions' <=> <<i, n>> \in DOMAIN revisions,
         \A n : <<i, n>> \in DOMAIN revisions => revisions'[<<i, n>>] = revisions[<<i, n>>]
  PROVE  HasHistory(i)'
<1>1. HasHistory(i)
  BY HistoryByKeys DEF TypeOK
<1>2. profiles[i].revision \in Nat
  BY DEF TypeOK, IsTable, ProfileRow, Revisions
<1>3. <<i, profiles[i].revision>> \in DOMAIN revisions
  BY <1>1, <1>2 DEF HasHistory
<1> QED BY <1>1, <1>3 DEF HasHistory

(* A new active version keeps every profile, and the history of each ends  *)
(* in its active version again.                                            *)
LEMMA ActivateHistory ==
  ASSUME IInv, TypeOK', NEW id \in DOMAIN profiles, NEW record, NEW note,
         Activate(id, record, note)
  PROVE  /\ DOMAIN profiles' = DOMAIN profiles
         /\ \A k \in DOMAIN revisions' : k[1] \in DOMAIN profiles'
         /\ HistoryEndsInActive'
         /\ \A i \in DOMAIN profiles \ {id} : profiles'[i] = profiles[i]
<1> DEFINE active == profiles[id].revision
           next == active + 1
           row == [record |-> record, revision |-> next, verified |-> TRUE]
           old == RevisionRow(record, note)
<1>1. /\ profiles' = Put(profiles, id, row)
      /\ revisions' = Put(revisions, <<id, next>>, old)
  BY DEF Activate, WithRevision
<1>2. row.revision = next /\ row.record = record /\ old.record = record
  BY DEF RevisionRow
<1>3. active \in Nat /\ active >= 1 /\ next \in Nat
  BY DEF IInv, TypeOK, IsTable, ProfileRow, Revisions
<1> HIDE DEF row, old
<1>4. /\ DOMAIN profiles' = DOMAIN profiles \cup {id}
      /\ profiles'[id] = row
      /\ \A i \in DOMAIN profiles : i # id => profiles'[i] = profiles[i]
  <2> HIDE DEF next
  <2>1. profiles' = Put(profiles, id, row)
    BY <1>1
  <2> QED BY <2>1 DEF Put
<1>5. DOMAIN profiles' = DOMAIN profiles
  BY <1>4
<1> HIDE DEF next
<1>6. /\ DOMAIN revisions' = DOMAIN revisions \cup {<<id, next>>}
      /\ revisions'[<<id, next>>] = old
      /\ \A k \in DOMAIN revisions : k # <<id, next>> => revisions'[k] = revisions[k]
  <2>1. revisions' = Put(revisions, <<id, next>>, old)
    BY <1>1
  <2> QED BY <2>1 DEF Put
<1>7. \A k \in DOMAIN revisions' : k[1] \in DOMAIN profiles'
  BY <1>5, <1>6 DEF IInv, NoOrphanRows
<1>8. HasHistory(id)
  BY HistoryByKeys DEF IInv, TypeOK
<1>9. HasHistory(id)'
  <2>1. PICK first \in 1..active :
          \A n : <<id, n>> \in DOMAIN revisions <=> n \in first..active
    BY <1>8 DEF HasHistory
  <2>2. first \in 1..next /\ \A n : n \in first..active \/ n = next <=> n \in first..next
    BY <1>3 DEF next
  <2>3. \A n : <<id, n>> \in DOMAIN revisions' <=> n \in first..next
    BY <1>6, <2>1, <2>2
  <2>4. profiles'[id].revision = next /\ profiles'[id].record = record
    BY <1>2, <1>4
  <2>5. revisions'[<<id, next>>].record = record
    BY <1>2, <1>6
  <2> QED BY <2>2, <2>3, <2>4, <2>5 DEF HasHistory
<1>10. ASSUME NEW i \in DOMAIN profiles, i # id
       PROVE  HasHistory(i)'
  <2>1. \A n : <<i, n>> # <<id, next>>
    BY <1>10
  <2>2. \A n : <<i, n>> \in DOMAIN revisions' <=> <<i, n>> \in DOMAIN revisions
    BY <1>6, <2>1
  <2>3. \A n : <<i, n>> \in DOMAIN revisions => revisions'[<<i, n>>] = revisions[<<i, n>>]
    BY <1>6, <2>1
  <2>4. profiles'[i] = profiles[i]
    BY <1>4, <1>10
  <2> QED BY <2>2, <2>3, <2>4, HistoryKept DEF IInv
<1>11. (\A i \in DOMAIN profiles : HasHistory(i))'
  BY <1>5, <1>9, <1>10
<1>12. HistoryEndsInActive'
  <2>1. TypeOK' =>
          (HistoryEndsInActive' <=> (\A i \in DOMAIN profiles : HasHistory(i))')
    BY HistoryByKeys, PTL
  <2> QED BY <1>11, <2>1
<1> QED BY <1>4, <1>5, <1>7, <1>12

(* The tables an opened database starts with: every profile has its active *)
(* version in the history and nothing else is there.                       *)
LEMMA InitInv == Init => IInv
<1> SUFFICES ASSUME Init PROVE IInv
  OBVIOUS
<1>1. TypeOK
  BY InitType
<1>2. PICK first \in [DOMAIN profiles -> Revisions] : \A i, n :
        <<i, n>> \in DOMAIN revisions <=>
          /\ i \in DOMAIN profiles
          /\ \/ n = profiles[i].revision
             \/ n \in Revisions /\ first[i] <= n /\ n < profiles[i].revision
  BY InitHistory
<1>3. \A k \in DOMAIN revisions : k[1] \in DOMAIN profiles
  BY <1>1, <1>2 DEF TypeOK, IsTable
<1>4. ASSUME NEW i \in DOMAIN profiles
      PROVE  HasHistory(i)
  <2> DEFINE active == profiles[i].revision
             start == IF first[i] <= active THEN first[i] ELSE active
  <2>1. /\ active \in Nat /\ active >= 1 /\ active <= MaxRevision
        /\ first[i] \in Nat /\ first[i] >= 1 /\ MaxRevision \in Nat
    BY <1>1, BoundsAssumption DEF TypeOK, IsTable, ProfileRow, Revisions
  <2>2. start \in 1..active
    BY <2>1
  <2>3. \A n : n = active \/ (n \in Revisions /\ first[i] <= n /\ n < active)
                 <=> n \in start..active
    BY <2>1 DEF Revisions
  <2>4. \A n : <<i, n>> \in DOMAIN revisions <=> n \in start..active
    BY <1>2, <2>3
  <2>5. revisions[<<i, active>>].record = profiles[i].record
    BY InitHistory
  <2> HIDE DEF start
  <2> QED BY <2>2, <2>4, <2>5 DEF HasHistory
<1>5. HistoryEndsInActive
  BY <1>1, <1>4, HistoryByKeys
<1>6. DOMAIN drafts = {} /\ DOMAIN inventory = {}
  BY DEF Init, EmptyTable
<1>7. NoOrphanRows
  BY <1>3, <1>6 DEF NoOrphanRows
<1>8. DraftBaseIsActive
  BY <1>6 DEF DraftBaseIsActive
<1> QED BY <1>1, <1>5, <1>7, <1>8 DEF IInv

(* New profiles with their first versions, from a file or one by one.      *)
Entered(ids) ==
  /\ ids \cap DOMAIN profiles = {}
  /\ DOMAIN profiles' = DOMAIN profiles \cup ids
  /\ \A i \in DOMAIN profiles : profiles'[i] = profiles[i]
  /\ DOMAIN revisions' = DOMAIN revisions \cup (ids \X {1})
  /\ \A k \in DOMAIN revisions : revisions'[k] = revisions[k]
  /\ \A i \in ids : /\ profiles'[i].revision = 1
                     /\ revisions'[<<i, 1>>].record = profiles'[i].record

(* The ids of an imported file are free, and so are their history rows.    *)
LEMMA ImportEnters ==
  ASSUME IInv, NEW n \in 1..MaxImport, NEW rows \in [1..n -> Record],
         ImportCsv(rows)
  PROVE  \E ids \in SUBSET ProfileIds : Entered(ids)
<1>1. PICK first \in ProfileIds :
        /\ IsNextId(first)
        /\ first + Len(rows) - 1 \in ProfileIds
        /\ profiles' = PutAll(profiles,
             [i \in first..(first + Len(rows) - 1) |->
                NewProfile(rows[i - first + 1], FALSE)])
        /\ revisions' = PutAll(revisions,
             [k \in (first..(first + Len(rows) - 1)) \X {1} |->
                RevisionRow(rows[k[1] - first + 1], {})])
  BY DEF ImportCsv
<1> DEFINE ids == first..(first + Len(rows) - 1)
           new == [i \in ids |-> NewProfile(rows[i - first + 1], FALSE)]
           old == [k \in ids \X {1} |-> RevisionRow(rows[k[1] - first + 1], {})]
<1>2. ids \in SUBSET ProfileIds /\ ids \cap DOMAIN profiles = {}
  <2>1. n \in Nat /\ Len(rows) = n
    BY BoundsAssumption
  <2>2. DOMAIN profiles \subseteq ProfileIds
    BY DEF IInv, TypeOK, IsTable
  <2> QED BY <1>1, <2>1, <2>2, BoundsAssumption DEF ProfileIds, IsNextId, IsNextRow
<1>3. /\ DOMAIN new = ids /\ DOMAIN old = ids \X {1}
      /\ \A i \in ids : /\ new[i].revision = 1
                        /\ old[<<i, 1>>].record = new[i].record
  BY DEF NewProfile, RevisionRow
<1>4. profiles' = PutAll(profiles, new) /\ revisions' = PutAll(revisions, old)
  BY <1>1
<1>5. \A k \in DOMAIN revisions : k \notin ids \X {1}
  BY <1>2 DEF IInv, NoOrphanRows
<1> HIDE DEF ids, new, old
<1>6. /\ DOMAIN profiles' = DOMAIN profiles \cup ids
      /\ \A i \in ids : profiles'[i] = new[i]
      /\ \A i \in DOMAIN profiles : profiles'[i] = profiles[i]
  BY <1>2, <1>3, <1>4 DEF PutAll
<1>7. /\ DOMAIN revisions' = DOMAIN revisions \cup (ids \X {1})
      /\ \A i \in ids : revisions'[<<i, 1>>] = old[<<i, 1>>]
      /\ \A k \in DOMAIN revisions : revisions'[k] = revisions[k]
  BY <1>3, <1>4, <1>5 DEF PutAll
<1>8. \A i \in ids : /\ profiles'[i].revision = 1
                     /\ revisions'[<<i, 1>>].record = profiles'[i].record
  BY <1>3, <1>6, <1>7
<1> QED BY <1>2, <1>6, <1>7, <1>8 DEF Entered

(* So is the id of a profile that is entered alone.                        *)
LEMMA AddEnters ==
  ASSUME IInv, NEW record \in Record, NEW verified \in BOOLEAN,
         AddProfile(record, verified)
  PROVE  \E ids \in SUBSET ProfileIds : Entered(ids)
<1>1. PICK n \in ProfileIds :
        /\ IsNextId(n)
        /\ profiles' = Put(profiles, n, NewProfile(record, verified))
        /\ revisions' = Put(revisions, <<n, 1>>, RevisionRow(record, {}))
  BY DEF AddProfile, WithRevision
<1>2. n \notin DOMAIN profiles
  BY <1>1 DEF IsNextId, IsNextRow, ProfileIds
<1>3. <<n, 1>> \notin DOMAIN revisions
  BY <1>2 DEF IInv, NoOrphanRows
<1>4. /\ NewProfile(record, verified).revision = 1
      /\ NewProfile(record, verified).record = record
      /\ RevisionRow(record, {}).record = record
  BY DEF NewProfile, RevisionRow
<1>5. /\ DOMAIN profiles' = DOMAIN profiles \cup {n}
      /\ profiles'[n] = NewProfile(record, verified)
      /\ \A i \in DOMAIN profiles : profiles'[i] = profiles[i]
  BY <1>1, <1>2 DEF Put
<1>6. /\ DOMAIN revisions' = DOMAIN revisions \cup {<<n, 1>>}
      /\ revisions'[<<n, 1>>] = RevisionRow(record, {})
      /\ \A k \in DOMAIN revisions : revisions'[k] = revisions[k]
  BY <1>1, <1>3 DEF Put
<1> DEFINE ids == {n}
<1>7. ids \in SUBSET ProfileIds /\ ids \cap DOMAIN profiles = {}
  BY <1>2
<1>8. DOMAIN profiles' = DOMAIN profiles \cup ids
  BY <1>5
<1>9. DOMAIN revisions' = DOMAIN revisions \cup (ids \X {1})
  <2>1. {<<n, 1>>} = ids \X {1}
    OBVIOUS
  <2> QED BY <1>6, <2>1
<1>10. \A i \in ids : /\ profiles'[i].revision = 1
                      /\ revisions'[<<i, 1>>].record = profiles'[i].record
  BY <1>4, <1>5, <1>6
<1> HIDE DEF ids
<1> QED BY <1>5, <1>6, <1>7, <1>8, <1>9, <1>10 DEF Entered

(* Entered profiles start a history of their own.                          *)
LEMMA EntryInv ==
  ASSUME IInv, TypeOK', NEW ids \in SUBSET ProfileIds, Entered(ids),
         UNCHANGED <<drafts, inventory>>
  PROVE  IInv'
<1> USE DEF Entered
<1>1. \A i, n : <<i, n>> \in DOMAIN revisions'
                  <=> <<i, n>> \in DOMAIN revisions \/ (i \in ids /\ n = 1)
  OBVIOUS
<1>2. \A i, n : <<i, n>> \in DOMAIN revisions => i \in DOMAIN profiles
  BY DEF IInv, NoOrphanRows
<1>3. ASSUME NEW i \in DOMAIN profiles
      PROVE  HasHistory(i)'
  <2>1. i \notin ids
    OBVIOUS
  <2>2. \A n : <<i, n>> \in DOMAIN revisions' <=> <<i, n>> \in DOMAIN revisions
    BY <1>1, <2>1
  <2> QED BY <2>2, HistoryKept DEF IInv
<1>4. ASSUME NEW i \in ids
      PROVE  HasHistory(i)'
  <2>1. i \notin DOMAIN profiles
    OBVIOUS
  <2>2. \A n : <<i, n>> \in DOMAIN revisions' <=> n = 1
    BY <1>1, <1>2, <2>1
  <2>3. \A n : n \in 1..1 <=> n = 1
    OBVIOUS
  <2> QED BY <2>2, <2>3 DEF HasHistory
<1>5. HistoryEndsInActive'
  <2>1. TypeOK' =>
          (HistoryEndsInActive' <=> (\A i \in DOMAIN profiles : HasHistory(i))')
    BY HistoryByKeys, PTL
  <2> QED BY <1>3, <1>4, <2>1
<1>6. NoOrphanRows'
  BY DEF IInv, NoOrphanRows
<1>7. DraftBaseIsActive'
  BY DEF IInv, DraftBaseIsActive
<1> QED BY <1>5, <1>6, <1>7 DEF IInv

(* A step that leaves the history, and what it is the history of, as they  *)
(* are: it only has to keep the drafts and the inventory with the profiles.*)
LEMMA QuietInv ==
  ASSUME IInv, TypeOK',
         DOMAIN profiles' = DOMAIN profiles,
         \A i \in DOMAIN profiles : /\ profiles'[i].revision = profiles[i].revision
                                    /\ profiles'[i].record = profiles[i].record,
         revisions' = revisions,
         DOMAIN inventory' \subseteq DOMAIN profiles,
         \A i \in DOMAIN drafts' :
           i \in DOMAIN profiles /\ drafts'[i].base = profiles[i].revision
  PROVE  IInv'
<1>1. \A i \in DOMAIN profiles : HasHistory(i)'
  BY HistoryKept DEF IInv
<1>2. HistoryEndsInActive'
  <2>1. TypeOK' =>
          (HistoryEndsInActive' <=> (\A i \in DOMAIN profiles : HasHistory(i))')
    BY HistoryByKeys, PTL
  <2> QED BY <1>1, <2>1
<1>3. NoOrphanRows'
  BY DEF IInv, NoOrphanRows
<1>4. DraftBaseIsActive'
  BY DEF IInv, DraftBaseIsActive
<1> QED BY <1>2, <1>3, <1>4 DEF IInv

(* The restart's backfill finds every active version in the history.       *)
LEMMA BackfilledNothing == IInv => Backfilled(profiles, revisions) = revisions
<1> SUFFICES ASSUME IInv PROVE Backfilled(profiles, revisions) = revisions
  OBVIOUS
<1> DEFINE keys == {<<i, profiles[i].revision>> : i \in DOMAIN profiles}
           rows == [k \in keys |-> RevisionRow(profiles[k[1]].record, Earlier)]
<1>1. \A i \in DOMAIN profiles : <<i, profiles[i].revision>> \in DOMAIN revisions
  <2> TAKE i \in DOMAIN profiles
  <2>1. HasHistory(i) /\ profiles[i].revision \in Nat
    BY HistoryByKeys DEF IInv, TypeOK, IsTable, ProfileRow, Revisions
  <2> QED BY <2>1 DEF HasHistory
<1>2. DOMAIN rows \subseteq DOMAIN revisions
  BY <1>1
<1>3. Backfilled(profiles, revisions) = PutMissing(revisions, rows)
  BY DEF Backfilled
<1>4. IsTable(revisions, ProfileIds \X Revisions, HistoryRow)
  BY DEF IInv, TypeOK
<1> HIDE DEF rows
<1> QED BY <1>2, <1>3, <1>4, PutMissingNothing

(* Every section of every call keeps the invariant.                        *)
LEMMA NextInv == IInv /\ [Next]_vars => IInv'
<1> SUFFICES ASSUME IInv, [Next]_vars PROVE IInv'
  OBVIOUS
<1> TypeOK /\ TypeOK'
  BY NextType DEF IInv
<1>1. ASSUME NEW n \in 1..MaxImport, NEW rows \in [1..n -> Record],
             ImportCsv(rows)
      PROVE  IInv'
  BY <1>1, ImportEnters, EntryInv DEF ImportCsv
<1>2. ASSUME NEW record \in Record, NEW verified \in BOOLEAN,
             AddProfile(record, verified)
      PROVE  IInv'
  BY <1>2, AddEnters, EntryInv DEF AddProfile
<1>3. ASSUME NEW id \in ProfileIds, MarkCardVerified(id)
      PROVE  IInv'
  <2>1. /\ DOMAIN profiles' = DOMAIN profiles
        /\ \A i \in DOMAIN profiles : /\ profiles'[i].revision = profiles[i].revision
                                      /\ profiles'[i].record = profiles[i].record
    BY <1>3 DEF MarkCardVerified, TypeOK, IsTable, ProfileRow
  <2> QED BY <1>3, <2>1, QuietInv
          DEF MarkCardVerified, IInv, NoOrphanRows, DraftBaseIsActive
<1>4. ASSUME NEW id \in ProfileIds, NEW record, NEW note, Activate(id, record, note),
             id \in DOMAIN profiles, UNCHANGED inventory,
             \A i \in DOMAIN drafts' : i \in DOMAIN drafts \ {id} /\ drafts'[i] = drafts[i]
      PROVE  IInv'
  <2>1. /\ DOMAIN profiles' = DOMAIN profiles
        /\ \A k \in DOMAIN revisions' : k[1] \in DOMAIN profiles'
        /\ HistoryEndsInActive'
        /\ \A i \in DOMAIN profiles \ {id} : profiles'[i] = profiles[i]
    BY <1>4, ActivateHistory
  <2>2. NoOrphanRows'
    BY <1>4, <2>1 DEF IInv, NoOrphanRows
  <2>3. DraftBaseIsActive'
    BY <1>4, <2>1 DEF IInv, DraftBaseIsActive
  <2> QED BY <2>1, <2>2, <2>3 DEF IInv
<1>5. ASSUME NEW id \in ProfileIds, NEW iccid \in Iccids, NEW imsi \in Imsis,
             AdoptCardImsi(id, iccid, imsi)
      PROVE  IInv'
  BY <1>4, <1>5 DEF AdoptCardImsi, NoPendingChange
<1>6. ASSUME NEW id \in ProfileIds, NEW iccid \in Iccids, NEW info \in Infos,
             AdoptReadableFields(id, iccid, info)
      PROVE  IInv'
  BY <1>4, <1>6 DEF AdoptReadableFields, NoPendingChange
<1>7. ASSUME NEW id \in ProfileIds, DiscardChange(id)
      PROVE  IInv'
  <2>1. \A i \in DOMAIN drafts' : i \in DOMAIN drafts /\ drafts'[i] = drafts[i]
    BY <1>7 DEF DiscardChange, DraftsWithout, Drop, Restrict
  <2> QED BY <1>7, <2>1, QuietInv
          DEF DiscardChange, IInv, NoOrphanRows, DraftBaseIsActive
<1>8. ASSUME NEW id \in ProfileIds, NEW expected \in Revisions,
             CommitChange(id, expected)
      PROVE  IInv'
  <2>1. \A i \in DOMAIN drafts' : i \in DOMAIN drafts \ {id} /\ drafts'[i] = drafts[i]
    BY <1>8 DEF CommitChange, DraftsWithout, Drop, Restrict
  <2> QED BY <1>4, <1>8, <2>1 DEF CommitChange
<1>9. ASSUME NEW id \in ProfileIds, NEW status \in Statuses,
             SetInventory(id, status)
      PROVE  IInv'
  <2>1. DOMAIN inventory' = DOMAIN inventory \cup {id}
    BY <1>9 DEF SetInventory, Put
  <2> QED BY <1>9, <2>1, QuietInv
          DEF SetInventory, IInv, NoOrphanRows, DraftBaseIsActive
<1>10. CASE Restart
  <2>1. revisions' = revisions
    BY <1>10, BackfilledNothing DEF Restart
  <2> QED BY <1>10, <2>1, QuietInv
          DEF Restart, IInv, NoOrphanRows, DraftBaseIsActive
<1>11. ASSUME NEW c \in Callers, StoreDraft(c)
       PROVE  IInv'
  <2>1. /\ call[c].id \in DOMAIN profiles
        /\ DOMAIN drafts' = DOMAIN drafts \cup {call[c].id}
        /\ drafts'[call[c].id].base = profiles[call[c].id].revision
        /\ \A i \in DOMAIN drafts : i # call[c].id => drafts'[i] = drafts[i]
    BY <1>11 DEF StoreDraft, Put
  <2> QED BY <1>11, <2>1, QuietInv
          DEF StoreDraft, IInv, NoOrphanRows, DraftBaseIsActive
<1>12. ASSUME NEW c \in Callers, FinishDelete(c)
       PROVE  IInv'
  <2> DEFINE id == call[c].id
             left == {k \in DOMAIN revisions : k[1] # id}
  <2>1. /\ profiles' = Restrict(profiles, DOMAIN profiles \ {id})
        /\ drafts' = Restrict(drafts, DOMAIN drafts \ {id})
        /\ inventory' = Restrict(inventory, DOMAIN inventory \ {id})
        /\ revisions' = Restrict(revisions, left)
    BY <1>12 DEF FinishDelete, Drop, DraftsWithout, RevisionsWithout
  <2> HIDE DEF id
  <2>2. /\ DOMAIN profiles' = DOMAIN profiles \ {id}
        /\ \A i \in DOMAIN profiles \ {id} : profiles'[i] = profiles[i]
    BY <2>1 DEF Restrict
  <2>3. /\ DOMAIN drafts' = DOMAIN drafts \ {id}
        /\ \A i \in DOMAIN drafts \ {id} : drafts'[i] = drafts[i]
    BY <2>1 DEF Restrict
  <2>4. DOMAIN inventory' = DOMAIN inventory \ {id}
    BY <2>1 DEF Restrict
  <2>5. /\ DOMAIN revisions' = left
        /\ \A k \in left : revisions'[k] = revisions[k]
    BY <2>1 DEF Restrict
  <2>6. NoOrphanRows'
    BY <2>2, <2>3, <2>4, <2>5 DEF IInv, NoOrphanRows
  <2>7. DraftBaseIsActive'
    BY <2>2, <2>3 DEF IInv, DraftBaseIsActive
  <2>8. ASSUME NEW i \in DOMAIN profiles'
        PROVE  HasHistory(i)'
    <3>1. i \in DOMAIN profiles /\ i # id /\ profiles'[i] = profiles[i]
      BY <2>2
    <3>2. \A n : <<i, n>> \in DOMAIN revisions' <=> <<i, n>> \in DOMAIN revisions
      BY <2>5, <3>1
    <3>3. \A n : <<i, n>> \in DOMAIN revisions => revisions'[<<i, n>>] = revisions[<<i, n>>]
      BY <2>5, <3>1
    <3> QED BY <3>1, <3>2, <3>3, HistoryKept DEF IInv
  <2>9. HistoryEndsInActive'
    <3>1. TypeOK' =>
            (HistoryEndsInActive' <=> (\A i \in DOMAIN profiles : HasHistory(i))')
      BY HistoryByKeys, PTL
    <3> QED BY <2>8, <3>1
  <2> QED BY <2>6, <2>7, <2>9 DEF IInv
<1>13. CASE UNCHANGED <<profiles, revisions, drafts, inventory>>
  BY <1>13, QuietInv DEF IInv, NoOrphanRows, DraftBaseIsActive
<1>14. ASSUME NEW c \in Callers, TwoSectionCall(c)
       PROVE  IInv'
  BY <1>11, <1>12, <1>13, <1>14
  DEF TwoSectionCall, BeginPrepare, BeginDelete, FailSecondSection
<1>15. CASE SuciKeyCall
  BY <1>13, <1>15 DEF SuciKeyCall, ImportSuciKey, SetSuciKeyActive, DeleteSuciKey
<1> QED
  BY <1>1, <1>2, <1>3, <1>5, <1>6, <1>7, <1>8, <1>9, <1>10, <1>13, <1>14, <1>15
  DEF Next, AtomicCall, vars

(* IInv holds in every reachable state of the vault.                       *)
THEOREM InvariantHolds == Spec => []IInv
<1> QED BY InitInv, NextInv, PTL DEF Spec

(* With two-section calls of any number of threads and restarts anywhere,  *)
(* no row outlives its profile: the next holder of an id inherits nothing. *)
THEOREM NoOrphans == Spec => []NoOrphanRows
<1>1. IInv => NoOrphanRows
  BY DEF IInv
<1> QED BY <1>1, InvariantHolds, PTL

(* The history of every profile is gapless and ends with its active        *)
(* version.                                                                *)
THEOREM HistoryComplete == Spec => []HistoryEndsInActive
<1>1. IInv => HistoryEndsInActive
  BY DEF IInv
<1> QED BY <1>1, InvariantHolds, PTL

(* Every stored draft is based on the active revision of its profile, so   *)
(* the conflict check of a commit fails only for a draft that was replaced *)
(* or discarded meanwhile.                                                 *)
THEOREM DraftsCommittable == Spec => []DraftBaseIsActive
<1>1. IInv => DraftBaseIsActive
  BY DEF IInv
<1> QED BY <1>1, InvariantHolds, PTL

-----------------------------------------------------------------------------
(* The notes of the history                                                *)

(* With requests that do not overlap, what a thread and a draft hold as    *)
(* the list of changes is one against the active record and misses none.   *)
ListsAreCurrent ==
  /\ \A c \in Callers : call[c].op = "prepare" =>
       /\ call[c].id \in DOMAIN profiles
       /\ ChangedFields(profiles[call[c].id].record, call[c].record)
            \subseteq call[c].changed
  /\ \A id \in DOMAIN drafts :
       ChangedFields(profiles[id].record, drafts[id].record) \subseteq drafts[id].changed

NotesAreComplete ==
  \A k \in DOMAIN revisions :
    <<k[1], k[2] - 1>> \in DOMAIN revisions /\ revisions[k].note # Earlier =>
      ChangedFields(revisions[<<k[1], k[2] - 1>>].record, revisions[k].record)
        \subseteq revisions[k].note

NotesInv == ListsAreCurrent /\ NotesAreComplete

(* A new version that is filed with its changes against the active one     *)
(* keeps the notes complete.                                               *)
LEMMA ActivateNotes ==
  ASSUME IInv, NotesAreComplete, NEW id \in DOMAIN profiles, NEW record, NEW note,
         ChangedFields(profiles[id].record, record) \subseteq note,
         Activate(id, record, note)
  PROVE  /\ NotesAreComplete'
         /\ DOMAIN profiles' = DOMAIN profiles
         /\ \A i \in DOMAIN profiles \ {id} : profiles'[i] = profiles[i]
<1> DEFINE active == profiles[id].revision
           next == active + 1
           row == RevisionRow(record, note)
<1>1. /\ DOMAIN profiles' = DOMAIN profiles
      /\ \A i \in DOMAIN profiles \ {id} : profiles'[i] = profiles[i]
      /\ revisions' = Put(revisions, <<id, next>>, row)
  BY DEF Activate, WithRevision, Put
<1>2. HasHistory(id) /\ active \in Nat /\ id \in ProfileIds
  BY HistoryByKeys DEF IInv, TypeOK, IsTable, ProfileRow, Revisions
<1>3. /\ <<id, active>> \in DOMAIN revisions
      /\ revisions[<<id, active>>].record = profiles[id].record
      /\ <<id, next>> \notin DOMAIN revisions
      /\ <<id, next + 1>> \notin DOMAIN revisions
  BY <1>2 DEF HasHistory
<1>4. next - 1 = active /\ <<id, active>> # <<id, next>>
  BY <1>2
<1>5. /\ row.record = record
      /\ ChangedFields(revisions[<<id, active>>].record, record) \subseteq row.note
  BY <1>3 DEF RevisionRow
<1> HIDE DEF row
<1>6. /\ DOMAIN revisions' = DOMAIN revisions \cup {<<id, next>>}
      /\ revisions'[<<id, next>>] = row
      /\ \A k \in DOMAIN revisions : revisions'[k] = revisions[k]
  <2> HIDE DEF next
  <2> QED BY <1>1, <1>3 DEF Put
<1>7. ASSUME NEW k \in DOMAIN revisions', <<k[1], k[2] - 1>> \in DOMAIN revisions',
             revisions'[k].note # Earlier
      PROVE  ChangedFields(revisions'[<<k[1], k[2] - 1>>].record, revisions'[k].record)
               \subseteq revisions'[k].note
  <2>1. CASE k = <<id, next>>
    <3>1. <<k[1], k[2] - 1>> = <<id, active>>
      BY <1>4, <2>1
    <3>2. revisions'[<<id, active>>] = revisions[<<id, active>>]
      BY <1>3, <1>6
    <3>3. revisions'[k] = row
      BY <1>6, <2>1
    <3> QED BY <1>5, <3>1, <3>2, <3>3
  <2>2. CASE k \in DOMAIN revisions
    <3>1. k = <<k[1], k[2]>> /\ k[2] \in Nat
      BY <2>2 DEF IInv, TypeOK, IsTable, Revisions
    <3>2. <<k[1], k[2] - 1>> # <<id, next>>
      BY <1>2, <1>3, <2>2, <3>1
    <3>3. <<k[1], k[2] - 1>> \in DOMAIN revisions
      BY <1>6, <1>7, <3>2
    <3>4. revisions'[<<k[1], k[2] - 1>>] = revisions[<<k[1], k[2] - 1>>]
      BY <1>6, <3>3
    <3>5. revisions'[k] = revisions[k]
      BY <1>6, <2>2
    <3> QED BY <1>7, <2>2, <3>3, <3>4, <3>5 DEF NotesAreComplete
  <2> QED BY <1>6, <2>1, <2>2
<1> QED BY <1>1, <1>7 DEF NotesAreComplete

(* The rows an opened database starts with are an earlier release's.       *)
LEMMA InitNotes == Init => NotesInv
<1> SUFFICES ASSUME Init PROVE NotesInv
  OBVIOUS
<1>1. ListsAreCurrent
  BY DEF Init, ListsAreCurrent, EmptyTable, Idle
<1>2. \A k \in DOMAIN revisions : revisions[k].note = Earlier
  BY InitHistory
<1> QED BY <1>1, <1>2 DEF NotesInv, NotesAreComplete

(* One caller's sections keep the lists and the notes complete.            *)
LEMMA NextNotes ==
  ASSUME NEW caller, Callers = {caller}, IInv, IInv', NotesInv, [Next]_vars
  PROVE  NotesInv'
<1>a. TypeOK /\ TypeOK'
  BY DEF IInv
<1>b. ASSUME SomeCallerIdle, UNCHANGED call, NEW c \in Callers
      PROVE  call'[c].op # "prepare"
  BY <1>b DEF SomeCallerIdle, Idle
<1>1. ASSUME NEW ids \in SUBSET ProfileIds, Entered(ids), SomeCallerIdle,
             UNCHANGED <<drafts, call>>
      PROVE  NotesInv'
  <2>1. ListsAreCurrent'
    BY <1>1, <1>b DEF NotesInv, ListsAreCurrent, Entered, IInv, NoOrphanRows
  <2>2. ASSUME NEW k \in DOMAIN revisions', <<k[1], k[2] - 1>> \in DOMAIN revisions'
        PROVE  /\ k \in DOMAIN revisions
               /\ <<k[1], k[2] - 1>> \in DOMAIN revisions
    <3>1. k[2] \in Nat /\ k[2] - 1 >= 1 /\ k = <<k[1], k[2]>>
      BY <1>a, <2>2 DEF TypeOK, IsTable, Revisions
    <3>2. \A j \in DOMAIN revisions' : j \in DOMAIN revisions \/ (j[1] \in ids /\ j[2] = 1)
      BY <1>1 DEF Entered
    <3>3. k \in DOMAIN revisions
      BY <3>1, <3>2
    <3>4. k[1] \notin ids
      BY <1>1, <3>3 DEF Entered, IInv, NoOrphanRows
    <3> QED BY <2>2, <3>2, <3>3, <3>4
  <2>3. \A k \in DOMAIN revisions : revisions'[k] = revisions[k]
    BY <1>1 DEF Entered
  <2>4. NotesAreComplete'
    BY <2>2, <2>3 DEF NotesInv, NotesAreComplete
  <2> QED BY <2>1, <2>4 DEF NotesInv
<1>2. ASSUME NEW id \in DOMAIN profiles, NEW record, NEW note, SomeCallerIdle,
             UNCHANGED call, Activate(id, record, note),
             ChangedFields(profiles[id].record, record) \subseteq note,
             \A i \in DOMAIN drafts' : i \in DOMAIN drafts \ {id} /\ drafts'[i] = drafts[i]
      PROVE  NotesInv'
  <2>1. /\ NotesAreComplete'
        /\ \A i \in DOMAIN profiles \ {id} : profiles'[i] = profiles[i]
    BY <1>2, ActivateNotes DEF NotesInv
  <2>2. ListsAreCurrent'
    BY <1>2, <1>b, <2>1 DEF NotesInv, ListsAreCurrent, IInv, NoOrphanRows
  <2> QED BY <2>1, <2>2 DEF NotesInv
<1>3. ASSUME NEW id \in ProfileIds, NEW iccid \in Iccids, NEW imsi \in Imsis,
             AdoptCardImsi(id, iccid, imsi)
      PROVE  NotesInv'
  <2> DEFINE old == profiles[id].record
             record == [old EXCEPT !.imsi = imsi]
  <2>1. id \in DOMAIN profiles /\ old \in Record
    BY <1>3, <1>a DEF AdoptCardImsi, TypeOK, IsTable, ProfileRow
  <2>2. ChangedFields(old, record) \subseteq {"imsi"}
    BY <2>1 DEF ChangedFields, Fields, Record
  <2>3. Activate(id, record, {"imsi"})
    BY <1>3 DEF AdoptCardImsi
  <2> HIDE DEF record
  <2> QED BY <1>2, <1>3, <2>1, <2>2, <2>3 DEF AdoptCardImsi, NoPendingChange
<1>4. ASSUME NEW id \in ProfileIds, NEW iccid \in Iccids, NEW info \in Infos,
             AdoptReadableFields(id, iccid, info)
      PROVE  NotesInv'
  <2> DEFINE old == profiles[id].record
             record == [old EXCEPT !.info = info]
  <2>1. id \in DOMAIN profiles /\ old \in Record
    BY <1>4, <1>a DEF AdoptReadableFields, TypeOK, IsTable, ProfileRow
  <2>2. ChangedFields(old, record) \subseteq {"info"}
    BY <2>1 DEF ChangedFields, Fields, Record
  <2>3. Activate(id, record, {"info"})
    BY <1>4 DEF AdoptReadableFields
  <2> HIDE DEF record
  <2> QED BY <1>2, <1>4, <2>1, <2>2, <2>3 DEF AdoptReadableFields, NoPendingChange
<1>5. ASSUME NEW id \in ProfileIds, NEW expected \in Revisions,
             CommitChange(id, expected)
      PROVE  NotesInv'
  <2>1. ChangedFields(profiles[id].record, drafts[id].record) \subseteq drafts[id].changed
    BY <1>5 DEF CommitChange, NotesInv, ListsAreCurrent
  <2>2. \A i \in DOMAIN drafts' : i \in DOMAIN drafts \ {id} /\ drafts'[i] = drafts[i]
    BY <1>5 DEF CommitChange, DraftsWithout, Drop, Restrict
  <2> QED BY <1>2, <1>5, <2>1, <2>2 DEF CommitChange
<1>6. ASSUME UNCHANGED revisions
      PROVE  NotesAreComplete'
  BY <1>6 DEF NotesInv, NotesAreComplete
<1>7. ASSUME NEW id \in ProfileIds, MarkCardVerified(id)
      PROVE  NotesInv'
  <2>1. \A i \in DOMAIN profiles :
          i \in DOMAIN profiles' /\ profiles'[i].record = profiles[i].record
    BY <1>7, <1>a DEF MarkCardVerified, TypeOK, IsTable, ProfileRow
  <2>2. ListsAreCurrent'
    BY <1>7, <1>b, <2>1
    DEF MarkCardVerified, NotesInv, ListsAreCurrent, IInv, NoOrphanRows
  <2> QED BY <1>6, <1>7, <2>2 DEF MarkCardVerified, NotesInv
<1>8. ASSUME NEW id \in ProfileIds, DiscardChange(id)
      PROVE  NotesInv'
  <2>1. \A i \in DOMAIN drafts' : i \in DOMAIN drafts /\ drafts'[i] = drafts[i]
    BY <1>8 DEF DiscardChange, DraftsWithout, Drop, Restrict
  <2>2. ListsAreCurrent'
    BY <1>8, <2>1 DEF DiscardChange, NotesInv, ListsAreCurrent
  <2> QED BY <1>6, <1>8, <2>2 DEF DiscardChange, NotesInv
<1>9. CASE Restart
  <2>1. revisions' = revisions
    BY <1>9, BackfilledNothing DEF Restart
  <2>2. ListsAreCurrent'
    BY <1>9 DEF Restart, NotesInv, ListsAreCurrent, Idle
  <2> QED BY <1>6, <2>1, <2>2 DEF NotesInv
<1>10. ASSUME NEW c \in Callers, NEW id \in ProfileIds, NEW imsi \in Imsis,
              NEW info \in Infos, NEW keys \in KeySets,
              BeginPrepare(c, id, imsi, info, keys)
       PROVE  NotesInv'
  <2> DEFINE current == profiles[id].record
             updated == [current EXCEPT !.imsi = imsi, !.info = info, !.keys = keys]
  <2>0. PICK restated \in SUBSET OtherForms :
          call' = [call EXCEPT ![c] =
            [op |-> "prepare", id |-> id, record |-> updated,
             changed |-> ChangedFields(current, updated) \cup restated]]
    BY <1>10 DEF BeginPrepare
  <2> DEFINE local == [op |-> "prepare", id |-> id, record |-> updated,
                       changed |-> ChangedFields(current, updated) \cup restated]
  <2>1. id \in DOMAIN profiles /\ call' = [call EXCEPT ![c] = local]
        /\ UNCHANGED <<profiles, drafts, revisions>>
    BY <1>10, <2>0 DEF BeginPrepare
  <2> HIDE DEF updated
  <2>2. local.id = id /\ local.record = updated
        /\ ChangedFields(profiles[id].record, updated) \subseteq local.changed
    OBVIOUS
  <2> HIDE DEF local
  <2>3. call'[c] = local /\ \A d \in Callers : d = c
    BY <1>a, <2>1 DEF TypeOK
  <2>4. ListsAreCurrent'
    BY <2>1, <2>2, <2>3 DEF NotesInv, ListsAreCurrent
  <2> QED BY <1>6, <2>1, <2>4 DEF NotesInv
<1>11. ASSUME NEW c \in Callers, StoreDraft(c)
       PROVE  NotesInv'
  <2> DEFINE id == call[c].id
             row == [record |-> call[c].record, changed |-> call[c].changed,
                     base |-> profiles[id].revision]
  <2>1. /\ id \in DOMAIN profiles
        /\ drafts' = Put(drafts, id, row)
        /\ call' = [call EXCEPT ![c] = Idle]
        /\ UNCHANGED <<profiles, revisions>>
    BY <1>11 DEF StoreDraft
  <2>2. ChangedFields(profiles[id].record, row.record) \subseteq row.changed
    BY <1>11 DEF StoreDraft, NotesInv, ListsAreCurrent
  <2> HIDE DEF id, row
  <2>3. /\ DOMAIN drafts' = DOMAIN drafts \cup {id}
        /\ drafts'[id] = row
        /\ \A i \in DOMAIN drafts \ {id} : drafts'[i] = drafts[i]
    BY <2>1 DEF Put
  <2>4. \A d \in Callers : call'[d].op # "prepare"
    BY <1>a, <2>1 DEF TypeOK, Idle
  <2>5. ListsAreCurrent'
    BY <2>1, <2>2, <2>3, <2>4 DEF NotesInv, ListsAreCurrent
  <2> QED BY <1>6, <2>1, <2>5 DEF NotesInv
<1>12. ASSUME NEW c \in Callers, FinishDelete(c)
       PROVE  NotesInv'
  <2> DEFINE id == call[c].id
             left == {k \in DOMAIN revisions : k[1] # id}
  <2>1. /\ profiles' = Restrict(profiles, DOMAIN profiles \ {id})
        /\ drafts' = Restrict(drafts, DOMAIN drafts \ {id})
        /\ revisions' = Restrict(revisions, left)
        /\ call' = [call EXCEPT ![c] = Idle]
    BY <1>12 DEF FinishDelete, Drop, DraftsWithout, RevisionsWithout
  <2> HIDE DEF id
  <2>2. /\ DOMAIN drafts' = DOMAIN drafts \ {id}
        /\ \A i \in DOMAIN drafts \ {id} : drafts'[i] = drafts[i]
        /\ \A i \in DOMAIN profiles \ {id} : profiles'[i] = profiles[i]
        /\ DOMAIN revisions' = left
        /\ \A k \in left : revisions'[k] = revisions[k]
    BY <2>1 DEF Restrict
  <2>3. \A d \in Callers : call'[d].op # "prepare"
    BY <1>a, <2>1 DEF TypeOK, Idle
  <2>4. ListsAreCurrent'
    BY <2>2, <2>3 DEF NotesInv, ListsAreCurrent, IInv, NoOrphanRows
  <2>5. NotesAreComplete'
    BY <2>2 DEF NotesInv, NotesAreComplete
  <2> QED BY <2>4, <2>5 DEF NotesInv
<1>13. ASSUME NEW c \in Callers, NEW local, local.op # "prepare",
              call' = [call EXCEPT ![c] = local], UNCHANGED <<profiles, drafts, revisions>>
       PROVE  NotesInv'
  <2>1. \A d \in Callers : call'[d].op # "prepare"
    BY <1>a, <1>13 DEF TypeOK
  <2>2. ListsAreCurrent'
    BY <1>13, <2>1 DEF NotesInv, ListsAreCurrent
  <2> QED BY <1>6, <1>13, <2>2 DEF NotesInv
<1>14. CASE UNCHANGED <<profiles, drafts, revisions, call>>
  BY <1>14 DEF NotesInv, ListsAreCurrent, NotesAreComplete
<1>15. CASE SuciKeyCall
  BY <1>14, <1>15 DEF SuciKeyCall, ImportSuciKey, SetSuciKeyActive, DeleteSuciKey
<1>16. ASSUME NEW n \in 1..MaxImport, NEW rows \in [1..n -> Record], ImportCsv(rows)
       PROVE  NotesInv'
  BY <1>1, <1>16, ImportEnters DEF ImportCsv
<1>17. ASSUME NEW record \in Record, NEW verified \in BOOLEAN,
              AddProfile(record, verified)
       PROVE  NotesInv'
  BY <1>1, <1>17, AddEnters DEF AddProfile
<1>18. ASSUME NEW c \in Callers, TwoSectionCall(c)
       PROVE  NotesInv'
  BY <1>10, <1>11, <1>12, <1>13, <1>18
  DEF TwoSectionCall, BeginDelete, FailSecondSection, Idle
<1> QED
  BY <1>3, <1>4, <1>5, <1>7, <1>8, <1>9, <1>14, <1>15, <1>16, <1>17, <1>18
  DEF Next, AtomicCall, vars, SetInventory

(* While requests do not overlap, the changes that drafts and versions are *)
(* filed with include all those against the version before.                *)
LEMMA NotesStayComplete ==
  ASSUME NEW caller, Callers = {caller}
  PROVE  Spec => []NotesInv
<1>1. IInv /\ IInv' /\ NotesInv /\ [Next]_vars => NotesInv'
  BY NextNotes
<1> QED BY <1>1, InitNotes, InvariantHolds, PTL DEF Spec

(* While requests do not overlap, the note of every version that this      *)
(* program makes names every field in which it differs from the one before.*)
THEOREM NotesComplete ==
  ASSUME NEW caller, Callers = {caller}
  PROVE  Spec => []NotesNameEveryChange
<1>1. NotesInv => NotesNameEveryChange
  BY DEF NotesInv, NotesAreComplete, ChangedFields, NotesNameEveryChange
<1> QED BY <1>1, NotesStayComplete, PTL

-----------------------------------------------------------------------------
(* ICCIDs and deletions                                                    *)

(* With requests that do not overlap, the ICCID that a thread keeps for    *)
(* its second section, and that of a draft, is the stored profile's.       *)
IccidsAreCurrent ==
  /\ \A c \in Callers : call[c].op = "prepare" =>
       /\ call[c].id \in DOMAIN profiles
       /\ call[c].record.iccid = profiles[call[c].id].record.iccid
  /\ \A c \in Callers : call[c].op = "delete" =>
       /\ call[c].id \in DOMAIN profiles
       /\ call[c].iccid = profiles[call[c].id].record.iccid
  /\ \A id \in DOMAIN drafts : drafts[id].record.iccid = profiles[id].record.iccid

(* What IccidImmutable and DeletionConfirmed say of a step                 *)
IccidsStay ==
  \A id \in DOMAIN profiles \cap DOMAIN profiles' :
    profiles'[id].record.iccid = profiles[id].record.iccid

RemovalsConfirmed ==
  \A id \in DOMAIN profiles \ DOMAIN profiles' :
    \E c \in Callers : /\ call[c].op = "delete"
                       /\ call[c].id = id
                       /\ call[c].iccid = profiles[id].record.iccid

(* At the end of a call no ICCID is kept, and the drafts that are left are *)
(* still those of their profiles.                                          *)
LEMMA EndOfCall ==
  ASSUME IccidsAreCurrent, IccidsStay,
         DOMAIN drafts \subseteq DOMAIN profiles,
         \A c \in Callers : call'[c] = Idle,
         \A i \in DOMAIN drafts' :
           i \in DOMAIN drafts \cap DOMAIN profiles' /\ drafts'[i] = drafts[i]
  PROVE  IccidsAreCurrent'
BY DEF IccidsAreCurrent, IccidsStay, Idle

(* One caller's sections keep the ICCIDs current, change none, and remove  *)
(* a profile only when its ICCID was given.                                *)
LEMMA NextIccids ==
  ASSUME NEW caller, Callers = {caller}, IInv, IccidsAreCurrent, [Next]_vars
  PROVE  IccidsAreCurrent' /\ IccidsStay /\ RemovalsConfirmed
<1> DEFINE Goal == IccidsAreCurrent' /\ IccidsStay /\ RemovalsConfirmed
<1>a. /\ TypeOK
      /\ DOMAIN drafts \subseteq DOMAIN profiles
  BY DEF IInv, NoOrphanRows
<1>b. SomeCallerIdle /\ UNCHANGED call => \A c \in Callers : call'[c] = Idle
  BY DEF SomeCallerIdle
<1>1. ASSUME NEW ids \in SUBSET ProfileIds, Entered(ids), SomeCallerIdle,
             UNCHANGED <<drafts, call>>
      PROVE  Goal
  <2>1. IccidsStay /\ RemovalsConfirmed
    BY <1>1 DEF Entered, IccidsStay, RemovalsConfirmed
  <2>2. \A i \in DOMAIN drafts' :
          i \in DOMAIN drafts \cap DOMAIN profiles' /\ drafts'[i] = drafts[i]
    BY <1>1, <1>a DEF Entered
  <2> QED BY <1>1, <1>a, <1>b, <2>1, <2>2, EndOfCall
<1>2. ASSUME SomeCallerIdle, UNCHANGED call, DOMAIN profiles' = DOMAIN profiles,
             \A i \in DOMAIN profiles :
               profiles'[i].record.iccid = profiles[i].record.iccid,
             \A i \in DOMAIN drafts' : i \in DOMAIN drafts /\ drafts'[i] = drafts[i]
      PROVE  Goal
  <2>1. IccidsStay /\ RemovalsConfirmed
    BY <1>2 DEF IccidsStay, RemovalsConfirmed
  <2> QED BY <1>2, <1>a, <1>b, <2>1, EndOfCall
<1>3. ASSUME NEW id \in DOMAIN profiles, NEW record, NEW note, SomeCallerIdle,
             UNCHANGED call, Activate(id, record, note),
             record.iccid = profiles[id].record.iccid,
             \A i \in DOMAIN drafts' : i \in DOMAIN drafts /\ drafts'[i] = drafts[i]
      PROVE  Goal
  <2>1. /\ DOMAIN profiles' = DOMAIN profiles
        /\ \A i \in DOMAIN profiles :
             profiles'[i].record.iccid = profiles[i].record.iccid
    BY <1>3 DEF Activate, Put
  <2> QED BY <1>2, <1>3, <2>1
<1>4. ASSUME NEW id \in ProfileIds, NEW iccid \in Iccids, NEW imsi \in Imsis,
             AdoptCardImsi(id, iccid, imsi)
      PROVE  Goal
  <2> DEFINE record == [profiles[id].record EXCEPT !.imsi = imsi]
  <2>1. id \in DOMAIN profiles /\ profiles[id].record \in Record
    BY <1>4, <1>a DEF AdoptCardImsi, TypeOK, IsTable, ProfileRow
  <2>2. record.iccid = profiles[id].record.iccid
    BY <2>1 DEF Record
  <2>3. Activate(id, record, {"imsi"})
    BY <1>4 DEF AdoptCardImsi
  <2> HIDE DEF record
  <2> QED BY <1>3, <1>4, <2>1, <2>2, <2>3 DEF AdoptCardImsi
<1>5. ASSUME NEW id \in ProfileIds, NEW iccid \in Iccids, NEW info \in Infos,
             AdoptReadableFields(id, iccid, info)
      PROVE  Goal
  <2> DEFINE record == [profiles[id].record EXCEPT !.info = info]
  <2>1. id \in DOMAIN profiles /\ profiles[id].record \in Record
    BY <1>5, <1>a DEF AdoptReadableFields, TypeOK, IsTable, ProfileRow
  <2>2. record.iccid = profiles[id].record.iccid
    BY <2>1 DEF Record
  <2>3. Activate(id, record, {"info"})
    BY <1>5 DEF AdoptReadableFields
  <2> HIDE DEF record
  <2> QED BY <1>3, <1>5, <2>1, <2>2, <2>3 DEF AdoptReadableFields
<1>6. ASSUME NEW id \in ProfileIds, NEW expected \in Revisions,
             CommitChange(id, expected)
      PROVE  Goal
  <2>1. /\ id \in DOMAIN profiles
        /\ drafts[id].record.iccid = profiles[id].record.iccid
        /\ Activate(id, drafts[id].record, drafts[id].changed)
    BY <1>6 DEF CommitChange, IccidsAreCurrent
  <2>2. \A i \in DOMAIN drafts' : i \in DOMAIN drafts /\ drafts'[i] = drafts[i]
    BY <1>6 DEF CommitChange, DraftsWithout, Drop, Restrict
  <2> QED BY <1>3, <1>6, <2>1, <2>2 DEF CommitChange
<1>7. ASSUME NEW id \in ProfileIds, MarkCardVerified(id)
      PROVE  Goal
  <2>1. /\ DOMAIN profiles' = DOMAIN profiles
        /\ \A i \in DOMAIN profiles :
             profiles'[i].record.iccid = profiles[i].record.iccid
    BY <1>7, <1>a DEF MarkCardVerified, TypeOK, IsTable, ProfileRow
  <2> QED BY <1>2, <1>7, <2>1 DEF MarkCardVerified
<1>8. ASSUME NEW id \in ProfileIds, DiscardChange(id)
      PROVE  Goal
  <2>1. \A i \in DOMAIN drafts' : i \in DOMAIN drafts /\ drafts'[i] = drafts[i]
    BY <1>8 DEF DiscardChange, DraftsWithout, Drop, Restrict
  <2> QED BY <1>2, <1>8, <2>1 DEF DiscardChange
<1>9. CASE Restart
  <2>1. IccidsStay /\ RemovalsConfirmed
    BY <1>9 DEF Restart, IccidsStay, RemovalsConfirmed
  <2> QED BY <1>9, <1>a, <2>1, EndOfCall DEF Restart
<1>10. ASSUME UNCHANGED profiles
       PROVE  IccidsStay /\ RemovalsConfirmed
  BY <1>10 DEF IccidsStay, RemovalsConfirmed
<1>11. ASSUME NEW c \in Callers, NEW local, call' = [call EXCEPT ![c] = local],
              UNCHANGED <<profiles, drafts>>
       PROVE  call'[c] = local /\ \A d \in Callers : d = c
  BY <1>a, <1>11 DEF TypeOK
<1>12. ASSUME NEW c \in Callers, NEW id \in ProfileIds, NEW imsi \in Imsis,
              NEW info \in Infos, NEW keys \in KeySets,
              BeginPrepare(c, id, imsi, info, keys)
       PROVE  Goal
  <2> DEFINE current == profiles[id].record
             updated == [current EXCEPT !.imsi = imsi, !.info = info, !.keys = keys]
  <2>0. PICK restated \in SUBSET OtherForms :
          call' = [call EXCEPT ![c] =
            [op |-> "prepare", id |-> id, record |-> updated,
             changed |-> ChangedFields(current, updated) \cup restated]]
    BY <1>12 DEF BeginPrepare
  <2> DEFINE local == [op |-> "prepare", id |-> id, record |-> updated,
                       changed |-> ChangedFields(current, updated) \cup restated]
  <2>1. id \in DOMAIN profiles /\ call' = [call EXCEPT ![c] = local]
        /\ UNCHANGED <<profiles, drafts>>
    BY <1>12, <2>0 DEF BeginPrepare
  <2>2. current \in Record
    BY <1>a, <2>1 DEF TypeOK, IsTable, ProfileRow
  <2>3. updated.iccid = current.iccid
    BY <2>2 DEF Record
  <2> HIDE DEF updated
  <2>4. local.op = "prepare" /\ local.id = id /\ local.record = updated
    OBVIOUS
  <2> HIDE DEF local
  <2>5. call'[c] = local /\ \A d \in Callers : d = c
    BY <1>11, <2>1
  <2>6. IccidsAreCurrent'
    BY <2>1, <2>3, <2>4, <2>5 DEF IccidsAreCurrent
  <2> QED BY <1>10, <2>1, <2>6
<1>13. ASSUME NEW c \in Callers, NEW id \in ProfileIds, NEW iccid \in Iccids,
              BeginDelete(c, id, iccid)
       PROVE  Goal
  <2> DEFINE local == [op |-> "delete", id |-> id, iccid |-> iccid]
  <2>1. /\ id \in DOMAIN profiles /\ call' = [call EXCEPT ![c] = local]
        /\ UNCHANGED <<profiles, drafts>>
        /\ iccid = profiles[id].record.iccid
    BY <1>13 DEF BeginDelete, IsIccidOf
  <2>2. local.op = "delete" /\ local.id = id /\ local.iccid = iccid
    OBVIOUS
  <2> HIDE DEF local
  <2>3. call'[c] = local /\ \A d \in Callers : d = c
    BY <1>11, <2>1
  <2>4. IccidsAreCurrent'
    BY <2>1, <2>2, <2>3 DEF IccidsAreCurrent
  <2> QED BY <1>10, <2>1, <2>4
<1>14. ASSUME NEW c \in Callers, StoreDraft(c)
       PROVE  Goal
  <2> DEFINE id == call[c].id
             row == [record |-> call[c].record, changed |-> call[c].changed,
                     base |-> profiles[id].revision]
  <2>1. /\ id \in DOMAIN profiles
        /\ drafts' = Put(drafts, id, row)
        /\ call' = [call EXCEPT ![c] = Idle]
        /\ UNCHANGED profiles
    BY <1>14 DEF StoreDraft
  <2>2. row.record.iccid = profiles[id].record.iccid
    BY <1>14 DEF StoreDraft, IccidsAreCurrent
  <2> HIDE DEF id, row
  <2>3. /\ DOMAIN drafts' = DOMAIN drafts \cup {id}
        /\ drafts'[id] = row
        /\ \A i \in DOMAIN drafts \ {id} : drafts'[i] = drafts[i]
    BY <2>1 DEF Put
  <2>4. \A d \in Callers : call'[d].op \notin {"prepare", "delete"}
    BY <1>a, <2>1 DEF TypeOK, Idle
  <2>5. IccidsAreCurrent'
    BY <2>1, <2>2, <2>3, <2>4 DEF IccidsAreCurrent
  <2> QED BY <1>10, <2>1, <2>5
<1>15. ASSUME NEW c \in Callers, FinishDelete(c)
       PROVE  Goal
  <2> DEFINE id == call[c].id
  <2>1. /\ profiles' = Restrict(profiles, DOMAIN profiles \ {id})
        /\ drafts' = Restrict(drafts, DOMAIN drafts \ {id})
        /\ call' = [call EXCEPT ![c] = Idle]
        /\ call[c].op = "delete"
    BY <1>15 DEF FinishDelete, Drop, DraftsWithout
  <2>2. call[c].iccid = profiles[id].record.iccid
    BY <2>1 DEF IccidsAreCurrent
  <2>3. /\ DOMAIN profiles' = DOMAIN profiles \ {id}
        /\ \A i \in DOMAIN profiles \ {id} : profiles'[i] = profiles[i]
        /\ DOMAIN drafts' = DOMAIN drafts \ {id}
        /\ \A i \in DOMAIN drafts \ {id} : drafts'[i] = drafts[i]
    BY <2>1 DEF Restrict
  <2>4. IccidsStay
    BY <2>3 DEF IccidsStay
  <2>5. RemovalsConfirmed
    BY <2>1, <2>2, <2>3 DEF RemovalsConfirmed
  <2>6. \A d \in Callers : call'[d] = Idle
    BY <1>a, <2>1 DEF TypeOK
  <2> QED BY <1>a, <2>3, <2>4, <2>5, <2>6, EndOfCall
<1>16. ASSUME NEW c \in Callers, FailSecondSection(c)
       PROVE  Goal
  <2>1. call' = [call EXCEPT ![c] = Idle] /\ UNCHANGED <<profiles, drafts>>
    BY <1>16 DEF FailSecondSection
  <2>2. \A d \in Callers : call'[d] = Idle
    BY <1>11, <2>1
  <2> QED BY <1>10, <1>a, <2>1, <2>2, EndOfCall
<1>17. ASSUME UNCHANGED <<profiles, drafts, call>>
       PROVE  Goal
  BY <1>10, <1>17 DEF IccidsAreCurrent
<1>18. CASE SuciKeyCall
  BY <1>17, <1>18 DEF SuciKeyCall, ImportSuciKey, SetSuciKeyActive, DeleteSuciKey
<1>19. ASSUME NEW n \in 1..MaxImport, NEW rows \in [1..n -> Record], ImportCsv(rows)
       PROVE  Goal
  BY <1>1, <1>19, ImportEnters DEF ImportCsv
<1>20. ASSUME NEW record \in Record, NEW verified \in BOOLEAN,
              AddProfile(record, verified)
       PROVE  Goal
  BY <1>1, <1>20, AddEnters DEF AddProfile
<1>21. ASSUME NEW c \in Callers, TwoSectionCall(c)
       PROVE  Goal
  BY <1>12, <1>13, <1>14, <1>15, <1>16, <1>21 DEF TwoSectionCall
<1>22. ASSUME NEW id \in ProfileIds, NEW status \in Statuses, SetInventory(id, status)
       PROVE  Goal
  BY <1>17, <1>22 DEF SetInventory
<1>23. CASE AtomicCall
  BY <1>4, <1>5, <1>6, <1>7, <1>8, <1>18, <1>19, <1>20, <1>22, <1>23 DEF AtomicCall
<1> QED BY <1>9, <1>17, <1>21, <1>23 DEF Next, vars

LEMMA InitIccids == Init => IccidsAreCurrent
BY DEF Init, IccidsAreCurrent, EmptyTable, Idle

(* While requests do not overlap, the ICCIDs that threads and drafts hold  *)
(* are those of the stored profiles.                                       *)
LEMMA IccidsStayCurrent ==
  ASSUME NEW caller, Callers = {caller}
  PROVE  Spec => []IccidsAreCurrent
<1>1. IInv /\ IccidsAreCurrent /\ [Next]_vars => IccidsAreCurrent'
  BY NextIccids
<1> QED BY <1>1, InitIccids, InvariantHolds, PTL DEF Spec

(* While requests do not overlap, no call changes the ICCID of a stored    *)
(* profile, a commit of a draft that was left under a reused id included.  *)
THEOREM IccidsNeverChange ==
  ASSUME NEW caller, Callers = {caller}
  PROVE  Spec => IccidImmutable
<1>1. IInv /\ IccidsAreCurrent /\ [Next]_vars =>
        [\A id \in DOMAIN profiles \cap DOMAIN profiles' :
           profiles'[id].record.iccid = profiles[id].record.iccid]_vars
  BY NextIccids DEF IccidsStay
<1> QED
  BY <1>1, IccidsStayCurrent, InvariantHolds, PTL DEF Spec, IccidImmutable

(* While requests do not overlap, only the profile goes whose ICCID was    *)
(* typed, although the row is deleted by its id in a later section.        *)
THEOREM DeletionsConfirmed ==
  ASSUME NEW caller, Callers = {caller}
  PROVE  Spec => DeletionConfirmed
<1>1. IInv /\ IccidsAreCurrent /\ [Next]_vars =>
        [\A id \in DOMAIN profiles \ DOMAIN profiles' :
           \E c \in Callers : /\ call[c].op = "delete"
                              /\ call[c].id = id
                              /\ call[c].iccid = profiles[id].record.iccid]_vars
  BY NextIccids DEF RemovalsConfirmed
<1> QED
  BY <1>1, IccidsStayCurrent, InvariantHolds, PTL DEF Spec, DeletionConfirmed

-----------------------------------------------------------------------------
(* Home-network keys                                                       *)

(* Only a deletion takes a key out of the table.                           *)
LEMMA KeyRemoval ==
  ASSUME [Next]_vars, NEW i \in DOMAIN suciKeys, i \notin DOMAIN suciKeys'
  PROVE  DeleteSuciKey(i)
<1>1. suciKeys' # suciKeys
  OBVIOUS
<1>2. SuciKeyCall
  BY <1>1
  DEF Next, AtomicCall, TwoSectionCall, vars, ImportCsv, AddProfile, MarkCardVerified,
      AdoptCardImsi, AdoptReadableFields, DiscardChange, CommitChange, SetInventory,
      Restart, BeginPrepare, StoreDraft, BeginDelete, FinishDelete, FailSecondSection
<1>3. ASSUME NEW key \in SuciKeys, ImportSuciKey(key)
      PROVE  FALSE
  BY <1>3 DEF ImportSuciKey, Put
<1>4. ASSUME NEW id \in SuciKeyIds, NEW active \in BOOLEAN, SetSuciKeyActive(id, active)
      PROVE  FALSE
  BY <1>4 DEF SetSuciKeyActive
<1>5. ASSUME NEW id \in SuciKeyIds, DeleteSuciKey(id)
      PROVE  id = i
  BY <1>5 DEF DeleteSuciKey, Drop, Restrict
<1> QED BY <1>2, <1>3, <1>4, <1>5 DEF SuciKeyCall

(* Where a search finds every key that a record uses, no used key is       *)
(* deleted, by any number of threads: that later entries of a list and     *)
(* numbers kept as strings are missed is the only gap, and the active      *)
(* records need no search, being the last versions of the history.         *)
THEOREM UsedKeysStay ==
  ASSUME \A info \in Infos : UsedKeys[info] \subseteq {PreferredKey[info]}
  PROVE  Spec => UsedKeyStays
<1>1. IInv /\ [Next]_vars =>
        [\A i \in DOMAIN suciKeys \ DOMAIN suciKeys' :
           LET key == suciKeys[i].key
           IN  /\ \A id \in DOMAIN profiles : key \notin UsedKeys[profiles[id].record.info]
               /\ \A k \in DOMAIN revisions : key \notin UsedKeys[revisions[k].record.info]
               /\ \A id \in DOMAIN drafts :
                    key \notin UsedKeys[drafts[id].record.info]]_vars
  <2> SUFFICES ASSUME IInv, [Next]_vars,
                      NEW i \in DOMAIN suciKeys, i \notin DOMAIN suciKeys'
               PROVE  /\ \A id \in DOMAIN profiles :
                           suciKeys[i].key \notin UsedKeys[profiles[id].record.info]
                      /\ \A k \in DOMAIN revisions :
                           suciKeys[i].key \notin UsedKeys[revisions[k].record.info]
                      /\ \A id \in DOMAIN drafts :
                           suciKeys[i].key \notin UsedKeys[drafts[id].record.info]
    OBVIOUS
  <2>1. ~SuciKeyInUse(suciKeys[i].key)
    BY KeyRemoval DEF DeleteSuciKey
  <2>2. ASSUME NEW k \in DOMAIN revisions
        PROVE  suciKeys[i].key \notin UsedKeys[revisions[k].record.info]
    <3>1. revisions[k].record.info \in Infos
      BY DEF IInv, TypeOK, IsTable, HistoryRow, Record
    <3> QED BY <2>1, <3>1 DEF SuciKeyInUse
  <2>3. ASSUME NEW id \in DOMAIN drafts
        PROVE  suciKeys[i].key \notin UsedKeys[drafts[id].record.info]
    <3>1. drafts[id].record.info \in Infos
      BY DEF IInv, TypeOK, IsTable, DraftRow, Record
    <3> QED BY <2>1, <3>1 DEF SuciKeyInUse
  <2>4. ASSUME NEW id \in DOMAIN profiles
        PROVE  suciKeys[i].key \notin UsedKeys[profiles[id].record.info]
    <3>1. HasHistory(id) /\ profiles[id].revision \in Nat
      BY HistoryByKeys DEF IInv, TypeOK, IsTable, ProfileRow, Revisions
    <3>2. <<id, profiles[id].revision>> \in DOMAIN revisions
      BY <3>1 DEF HasHistory
    <3>3. revisions[<<id, profiles[id].revision>>].record = profiles[id].record
      BY <3>1 DEF HasHistory
    <3> QED BY <2>2, <3>2, <3>3
  <2> QED BY <2>2, <2>3, <2>4
<1> QED BY <1>1, InvariantHolds, PTL DEF Spec, UsedKeyStays
=============================================================================

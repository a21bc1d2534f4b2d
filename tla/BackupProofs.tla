---------------------------- MODULE BackupProofs ----------------------------
(***************************************************************************)
(* Theorems about Backup, for any number of threads, profiles and archive  *)
(* names: the types, one holder of the lock, the key in memory and in the  *)
(* file, and the rows that can be read with it.                            *)
(***************************************************************************)
EXTENDS Backup, TablesLemmas, TLAPS

(* A vault that could not be opened is not in use.                         *)
UnopenedIsIdle == key = NoKey => \A c \in Callers : work[c] = Idle

(* The key in memory differs from that of the file only after a restore    *)
(* that was not completed, and between the truncation of the file and its end.   *)
KeyFits ==
  torn \/ key = keyFile \/ \E c \in Callers : Doing(c, "truncated")

LEMMA RowTablesAre ==
  ASSUME NEW table
  PROVE  table \in RowTables <=> IsTable(table, Slots, Keys)
  BY DEF RowTables, IsTable

(* What a thread keeps from one step to the next, by what it is doing      *)
LEMMA WorkFields ==
  ASSUME BackupTypeOK, NEW c \in Callers
  PROVE  /\ work[c].op \in {"deleting", "marking", "preparing", "writing"}
              => work[c] \in ProfileRead /\ work[c].id \in Ids
         /\ work[c].op = "storing"
              => /\ work[c] \in RowEncrypted
                 /\ work[c].slot \in Slots
                 /\ work[c].key \in Keys
         /\ work[c].op \in {"backup", "snapshot"}
              => work[c] \in BackupBegun
         /\ work[c].op \in {"confirmed", "audit", "database", "truncated"}
              => work[c] \in RestoreBegun /\ work[c].archive \in Archives
         /\ work[c].op = "idle" <=> work[c] = Idle
  BY DEF BackupTypeOK, Idle, ProfileRead, RowEncrypted, BackupBegun, RestoreBegun

(* The next thing a thread does, when it is one of those above             *)
LEMMA DoTyped ==
  ASSUME BackupTypeOK, NEW c \in Callers, NEW record, Do(c, record),
         record \in {Idle} \cup ProfileRead \cup RowEncrypted
                      \cup BackupBegun \cup RestoreBegun
  PROVE  /\ work' \in [Callers -> {Idle} \cup ProfileRead \cup RowEncrypted
                                    \cup BackupBegun \cup RestoreBegun]
         /\ work'[c] = record
         /\ \A d \in Callers : d # c => work'[d] = work[d]
  BY DEF BackupTypeOK, Do

LEMMA ArchiveFields ==
  ASSUME NEW a \in Archives
  PROVE  /\ a.rows \in RowTables
         /\ a.key \in Keys
         /\ a.hasVault \in BOOLEAN
         /\ a.foreign \in BOOLEAN
  BY DEF Archives

LEMMA CommitTyped ==
  ASSUME BackupTypeOK, NEW table, Commit(table), table \in RowTables,
         foreign' \in BOOLEAN,
         work' \in [Callers -> {Idle} \cup ProfileRead \cup RowEncrypted
                                 \cup BackupBegun \cup RestoreBegun]
  PROVE  BackupTypeOK'
  BY DEF BackupTypeOK, Commit

LEMMA UnchangedTyped ==
  ASSUME BackupTypeOK,
         UnchangedVault \/ (AbandonTransaction /\ UNCHANGED foreign),
         work' \in [Callers -> {Idle} \cup ProfileRead \cup RowEncrypted
                                 \cup BackupBegun \cup RestoreBegun]
  PROVE  BackupTypeOK'
  BY DEF BackupTypeOK, UnchangedVault, vaultVars, AbandonTransaction

-----------------------------------------------------------------------------
LEMMA BackupInitTyped == BackupInit => BackupTypeOK
<1>. SUFFICES ASSUME BackupInit PROVE BackupTypeOK
  OBVIOUS
<1>1. EmptyTable \in RowTables
  BY RowTablesAre DEF EmptyTable, IsTable
<1>2. AuditArchive \in Archives
  BY <1>1 DEF AuditArchive, Archives, Keys
<1>3. ASSUME NEW S \in SUBSET Slots
      PROVE  OtherArchive(S) \in Archives
  <2>1. [s \in S |-> OtherKey] \in RowTables
    BY RowTablesAre DEF IsTable, Keys
  <2>. QED  BY <2>1 DEF OtherArchive, Archives, Keys
<1>4. IsTable(archives, Names, Archives)
  <2>1. PICK name \in Names, id \in Ids :
          \E S \in {{<<"profile", id>>}, {<<"profile", id>>, <<"draft", id>>}} :
            archives \in {[n \in {name} |-> OtherArchive(S)],
                          [n \in {name} |-> AuditArchive]}
    BY DEF BackupInit
  <2>2. PICK S \in {{<<"profile", id>>}, {<<"profile", id>>, <<"draft", id>>}} :
          archives \in {[n \in {name} |-> OtherArchive(S)],
                        [n \in {name} |-> AuditArchive]}
    BY <2>1
  <2>3. S \subseteq Slots
    BY <2>2, BackupAssumption DEF Slots
  <2>4. OtherArchive(S) \in Archives
    BY <2>3, <1>3
  <2>. QED  BY <2>2, <2>4, <1>2 DEF IsTable
<1>. QED  BY <1>1, <1>4 DEF BackupInit, BackupTypeOK, Keys

(* Every step keeps the types. *)
LEMMA BackupTypeStep ==
  BackupTypeOK /\ UnopenedIsIdle /\ [BackupNext]_backupVars => BackupTypeOK'
<1>. SUFFICES ASSUME BackupTypeOK, UnopenedIsIdle, [BackupNext]_backupVars
              PROVE  BackupTypeOK'
  OBVIOUS
<1>. DEFINE Works == {Idle} \cup ProfileRead \cup RowEncrypted
                       \cup BackupBegun \cup RestoreBegun
<1>a. IsTable(rows, Slots, Keys)
  BY RowTablesAre DEF BackupTypeOK
<1>b. ASSUME NEW c \in Callers, ~Doing(c, "idle") \/ key # NoKey
      PROVE  key \in Keys
  BY <1>b, WorkFields DEF BackupTypeOK, UnopenedIsIdle, Doing
<1>c. ASSUME NEW c \in Callers, NEW id \in Ids
      PROVE  /\ <<"profile", id>> \in Slots
             /\ <<"draft", id>> \in Slots
  BY BackupAssumption DEF Slots
<1>1. ASSUME NEW c \in Callers, NEW id \in Ids, AddProfile(c, id)
      PROVE  BackupTypeOK'
  <2>1. key \in Keys
    BY <1>1, <1>b DEF AddProfile, Ready
  <2>2. Put(rows, <<"profile", id>>, key) \in RowTables
    BY <2>1, <1>a, <1>c, PutType, RowTablesAre
  <2>. QED  BY <1>1, <2>2, CommitTyped DEF AddProfile, BackupTypeOK
<1>2. ASSUME NEW c \in Callers, NEW id \in Ids,
             NEW op \in {"deleting", "marking", "preparing"}, ReadProfile(c, id, op)
      PROVE  BackupTypeOK'
  <2>1. [op |-> op, id |-> id] \in ProfileRead
    BY DEF ProfileRead
  <2>. QED  BY <1>2, <2>1, DoTyped, UnchangedTyped DEF ReadProfile
<1>3. ASSUME NEW c \in Callers, NEW id \in Ids, ReadDraft(c, id)
      PROVE  BackupTypeOK'
  <2>1. [op |-> "writing", id |-> id] \in ProfileRead
    BY DEF ProfileRead
  <2>. QED  BY <1>3, <2>1, DoTyped, UnchangedTyped DEF ReadDraft
<1>4. ASSUME NEW c \in Callers, NEW id \in Ids, EncryptInventory(c, id)
      PROVE  BackupTypeOK'
  <2>1. key \in Keys
    BY <1>4, <1>b DEF EncryptInventory, Ready
  <2>2. [op |-> "storing", slot |-> <<"inventory", id>>, key |-> key] \in RowEncrypted
    BY <1>4, <2>1 DEF EncryptInventory, RowEncrypted, Slots
  <2>. QED  BY <1>4, <2>2, DoTyped, UnchangedTyped DEF EncryptInventory
<1>5. ASSUME NEW c \in Callers, NEW id \in Ids, DiscardDraft(c, id)
      PROVE  BackupTypeOK'
  <2>1. Drop(rows, <<"draft", id>>) \in RowTables
    BY <1>a, RestrictType, RowTablesAre DEF Drop
  <2>. QED  BY <1>5, <2>1, CommitTyped DEF DiscardDraft, BackupTypeOK
<1>6. ASSUME NEW c \in Callers, SnapshotAudit(c)
      PROVE  BackupTypeOK'
  <2>1. [op |-> "backup"] \in BackupBegun
    BY DEF BackupBegun
  <2>. QED  BY <1>6, <2>1, DoTyped, UnchangedTyped DEF SnapshotAudit
<1>7. ASSUME NEW c \in Callers, NEW name \in Names, ReadArchive(c, name)
      PROVE  BackupTypeOK'
  <2>1. [op |-> "confirmed", archive |-> archives[name]] \in RestoreBegun
    BY <1>7 DEF ReadArchive, RestoreBegun, BackupTypeOK, IsTable
  <2>. QED  BY <1>7, <2>1, DoTyped, UnchangedTyped DEF ReadArchive
<1>8. ASSUME NEW c \in Callers, EncryptDraft(c)
      PROVE  BackupTypeOK'
  <2>1. key \in Keys /\ work[c].id \in Ids
    BY <1>8, <1>b, WorkFields DEF EncryptDraft, Doing
  <2>2. [op |-> "storing", slot |-> <<"draft", work[c].id>>, key |-> key]
          \in RowEncrypted
    BY <2>1, <1>c DEF RowEncrypted
  <2>. QED  BY <1>8, <2>2, DoTyped, UnchangedTyped DEF EncryptDraft
<1>9. ASSUME NEW c \in Callers, StoreRow(c)
      PROVE  BackupTypeOK'
  <2>1. work' \in [Callers -> Works]
    BY <1>9, DoTyped DEF StoreRow, Done
  <2>2. Put(rows, work[c].slot, work[c].key) \in RowTables
    BY <1>9, <1>a, WorkFields, PutType, RowTablesAre DEF StoreRow, Doing
  <2>3. CASE Exists(work[c].slot[2])
    <3>1. foreign' \in BOOLEAN
      BY <1>9, <2>3 DEF StoreRow, BackupTypeOK
    <3>. QED  BY <1>9, <2>1, <2>2, <2>3, <3>1, CommitTyped DEF StoreRow
  <2>4. CASE ~Exists(work[c].slot[2])
    BY <1>9, <2>1, <2>4, UnchangedTyped DEF StoreRow
  <2>. QED  BY <2>3, <2>4
<1>10. ASSUME NEW c \in Callers, FinishWrite(c)
       PROVE  BackupTypeOK'
  <2>. DEFINE draft == <<"draft", work[c].id>>
              profile == <<"profile", work[c].id>>
              moved == Put(rows, profile, rows[draft])
  <2>1. work' \in [Callers -> Works]
    BY <1>10, DoTyped DEF FinishWrite, Done
  <2>2. ASSUME {draft, profile} \subseteq DOMAIN rows
        PROVE  Drop(moved, draft) \in RowTables
    <3>1. work[c].id \in Ids
      BY <1>10, WorkFields DEF FinishWrite, Doing
    <3>2. profile \in Slots
      BY <3>1, <1>c
    <3>3. rows[draft] \in Keys
      BY <2>2, <1>a DEF IsTable
    <3>4. IsTable(moved, Slots, Keys)
      BY <3>2, <3>3, <1>a, PutType
    <3>5. IsTable(Restrict(moved, DOMAIN moved \ {draft}), Slots, Keys)
      BY <3>4, RestrictType
    <3>. QED  BY <3>5, RowTablesAre DEF Drop
  <2>3. \/ UnchangedVault
        \/ /\ {draft, profile} \subseteq DOMAIN rows
           /\ Commit(Drop(moved, draft))
           /\ foreign' \in BOOLEAN
    BY <1>10 DEF FinishWrite, BackupTypeOK
  <2>. QED  BY <2>1, <2>2, <2>3, CommitTyped, UnchangedTyped
<1>11. ASSUME NEW c \in Callers, FinishDelete(c)
       PROVE  BackupTypeOK'
  <2>1. work' \in [Callers -> Works]
    BY <1>11, DoTyped DEF FinishDelete, Done
  <2>2. Restrict(rows, DOMAIN rows \ RowsOf(work[c].id)) \in RowTables
    BY <1>a, RestrictType, RowTablesAre
  <2>3. foreign' \in BOOLEAN
    BY <1>11 DEF FinishDelete, BackupTypeOK
  <2>. QED
    BY <1>11, <2>1, <2>2, <2>3, CommitTyped, UnchangedTyped DEF FinishDelete
<1>12. ASSUME NEW c \in Callers, FinishComparison(c)
       PROVE  BackupTypeOK'
  <2>1. work' \in [Callers -> Works]
    BY <1>12, DoTyped DEF FinishComparison, Done
  <2>2. rows \in RowTables
    BY DEF BackupTypeOK
  <2>3. foreign' \in BOOLEAN
    BY <1>12 DEF FinishComparison, BackupTypeOK
  <2>. QED
    BY <1>12, <2>1, <2>2, <2>3, CommitTyped, UnchangedTyped DEF FinishComparison
<1>13. ASSUME NEW c \in Callers, TakeLockForSnapshot(c)
       PROVE  BackupTypeOK'
  <2>1. [work[c] EXCEPT !.op = "snapshot"] \in BackupBegun
    BY <1>13, WorkFields DEF TakeLockForSnapshot, Doing, BackupBegun
  <2>. QED  BY <1>13, <2>1, DoTyped, UnchangedTyped DEF TakeLockForSnapshot
<1>14. ASSUME NEW c \in Callers, NEW name \in Names, StoreArchive(c, name)
       PROVE  BackupTypeOK'
  <2>1. work' \in [Callers -> Works]
    BY <1>14, DoTyped DEF StoreArchive, Done
  <2>2. key \in Keys
    BY <1>14, <1>b DEF StoreArchive, Doing
  <2>3. [rows |-> rows, key |-> key, hasVault |-> TRUE,
         foreign |-> torn \/ foreign] \in Archives
    BY <2>2 DEF Archives, BackupTypeOK
  <2>4. IsTable(archives', Names, Archives)
    BY <1>14, <2>3, PutType DEF StoreArchive, BackupTypeOK
  <2>. QED  BY <1>14, <2>1, <2>4 DEF StoreArchive, vaultVars, BackupTypeOK
<1>15. ASSUME NEW c \in Callers, FailBackup(c)
       PROVE  BackupTypeOK'
  BY <1>15, DoTyped, UnchangedTyped DEF FailBackup, Done
<1>16. ASSUME NEW c \in Callers, RestoreAudit(c)
       PROVE  BackupTypeOK'
  <2>1. [work[c] EXCEPT !.op = "audit"] \in RestoreBegun
    BY <1>16, WorkFields DEF RestoreAudit, Doing, RestoreBegun
  <2>2. work' \in [Callers -> Works]
    BY <1>16, <2>1, DoTyped DEF RestoreAudit, Done
  <2>. QED  BY <1>16, <2>2, UnchangedTyped DEF RestoreAudit
<1>17. ASSUME NEW c \in Callers, RestoreDatabase(c)
       PROVE  BackupTypeOK'
  <2>1. /\ work[c].archive \in Archives
        /\ [work[c] EXCEPT !.op = "database"] \in RestoreBegun
    BY <1>17, WorkFields DEF RestoreDatabase, Doing, RestoreBegun
  <2>2. work' \in [Callers -> Works]
    BY <1>17, <2>1, DoTyped DEF RestoreDatabase
  <2>. QED
    BY <1>17, <2>1, <2>2, ArchiveFields
       DEF RestoreDatabase, RestoredRows, BackupTypeOK
<1>18. ASSUME NEW c \in Callers, FailCopy(c)
       PROVE  BackupTypeOK'
  BY <1>18, DoTyped, UnchangedTyped DEF FailCopy, Done
<1>19. ASSUME NEW c \in Callers, TruncateKeyFile(c)
       PROVE  BackupTypeOK'
  <2>1. [work[c] EXCEPT !.op = "truncated"] \in RestoreBegun
    BY <1>19, WorkFields DEF TruncateKeyFile, Doing, RestoreBegun
  <2>2. work' \in [Callers -> Works]
    BY <1>19, <2>1, DoTyped DEF TruncateKeyFile
  <2>. QED  BY <1>19, <2>2 DEF TruncateKeyFile, BackupTypeOK
<1>20. ASSUME NEW c \in Callers, RestoreKey(c)
       PROVE  BackupTypeOK'
  <2>1. work[c].archive \in Archives
    BY <1>20, WorkFields DEF RestoreKey, Doing
  <2>2. work' \in [Callers -> Works]
    BY <1>20, DoTyped DEF RestoreKey, Done
  <2>. QED
    BY <1>20, <2>1, <2>2, ArchiveFields DEF RestoreKey, RestoredKey, BackupTypeOK
<1>20a. ASSUME NEW c \in Callers, FailKey(c)
        PROVE  BackupTypeOK'
  <2>1. work' \in [Callers -> Works]
    BY <1>20a, DoTyped DEF FailKey, Done
  <2>2. keyFile' \in Keys \cup {NoKey}
    BY <1>20a, WorkFields, ArchiveFields DEF FailKey, Doing, BackupTypeOK
  <2>. QED  BY <1>20a, <2>1, <2>2 DEF FailKey, BackupTypeOK
<1>21. CASE RestartVault
  BY <1>21 DEF RestartVault, BackupTypeOK
<1>22. CASE UNCHANGED backupVars
  BY <1>22 DEF backupVars, BackupTypeOK
<1>. QED
  BY <1>1, <1>2, <1>3, <1>4, <1>5, <1>6, <1>7, <1>8, <1>9, <1>10, <1>11, <1>12,
     <1>13, <1>14, <1>15, <1>16, <1>17, <1>18, <1>19, <1>20, <1>20a, <1>21, <1>22
     DEF BackupNext, Resume

-----------------------------------------------------------------------------
(* The steps that leave the key, its file and the history of torn restores *)
(* alone, and what they do to the threads: one thread moves, it takes the  *)
(* lock only when that is free, and a key file is not left truncated.      *)
OrdinaryStep ==
  /\ UNCHANGED <<key, keyFile, torn>>
  /\ \E c \in Callers :
       /\ key # NoKey \/ ~Doing(c, "idle")
       /\ ~Doing(c, "truncated") \/ UNCHANGED work
       /\ \A d \in Callers : d # c => work'[d] = work[d]
       /\ HoldsLock(c)' => HoldsLock(c) \/ LockFree

LEMMA Steps ==
  ASSUME BackupTypeOK, [BackupNext]_backupVars
  PROVE  \/ OrdinaryStep
         \/ \E c \in Callers : TruncateKeyFile(c) \/ RestoreKey(c) \/ FailKey(c)
         \/ RestartVault
         \/ UNCHANGED backupVars
<1>1. ASSUME NEW c \in Callers, NEW record, Do(c, record)
      PROVE  /\ work'[c] = record
             /\ \A d \in Callers : d # c => work'[d] = work[d]
  BY <1>1 DEF BackupTypeOK, Do
<1>2. ASSUME NEW c \in Callers, UNCHANGED work
      PROVE  /\ \A d \in Callers : d # c => work'[d] = work[d]
             /\ HoldsLock(c)' => HoldsLock(c)
  BY <1>2 DEF HoldsLock, HalfRestored, Doing
<1>3. ASSUME NEW c \in Callers, NEW id \in Ids,
             \/ AddProfile(c, id) \/ DiscardDraft(c, id)
      PROVE  OrdinaryStep
  BY <1>3, <1>2 DEF AddProfile, DiscardDraft, Ready, Commit, OrdinaryStep
<1>4. ASSUME NEW c \in Callers, NEW id \in Ids,
             \/ \E op \in {"deleting", "marking", "preparing"} : ReadProfile(c, id, op)
             \/ ReadDraft(c, id)
             \/ EncryptInventory(c, id)
      PROVE  OrdinaryStep
  <2>1. /\ Ready(c) /\ UnchangedVault
        /\ \E record : /\ Do(c, record)
                        /\ record.op \in {"deleting", "marking", "preparing",
                                          "writing", "storing"}
    BY <1>4 DEF ReadProfile, ReadDraft, EncryptInventory
  <2>. QED
    BY <2>1, <1>1
       DEF Ready, Doing, UnchangedVault, vaultVars, HoldsLock, HalfRestored, OrdinaryStep
<1>5. ASSUME NEW c \in Callers,
             SnapshotAudit(c) \/ \E name \in Names : ReadArchive(c, name)
      PROVE  OrdinaryStep
  <2>1. /\ Ready(c) /\ UnchangedVault
        /\ \E record : Do(c, record) /\ record.op \in {"backup", "confirmed"}
    <3>1. CASE SnapshotAudit(c)
      BY <3>1 DEF SnapshotAudit
    <3>2. CASE \E name \in Names : ReadArchive(c, name)
      BY <3>2 DEF ReadArchive
    <3>. QED  BY <1>5, <3>1, <3>2
  <2>. QED
    BY <2>1, <1>1
       DEF Ready, Doing, UnchangedVault, vaultVars, HoldsLock, HalfRestored, OrdinaryStep
<1>6. ASSUME NEW c \in Callers, EncryptDraft(c)
      PROVE  OrdinaryStep
  BY <1>6, <1>1
     DEF EncryptDraft, Doing, UnchangedVault, vaultVars, HoldsLock, HalfRestored, OrdinaryStep
<1>7. ASSUME NEW c \in Callers,
             \/ StoreRow(c) \/ FinishWrite(c) \/ FinishDelete(c)
             \/ FinishComparison(c) \/ FailBackup(c) \/ FailCopy(c)
             \/ \E name \in Names : StoreArchive(c, name)
      PROVE  OrdinaryStep
  <2>1. UNCHANGED <<key, keyFile, torn>>
    BY <1>7 DEF StoreRow, FinishWrite, FinishDelete, FinishComparison, FailBackup,
                FailCopy, StoreArchive, UnchangedVault, vaultVars, Commit,
                AbandonTransaction
  <2>2. /\ Done(c)
        /\ work[c].op \in {"storing", "writing", "deleting", "marking",
                           "snapshot", "confirmed", "audit"}
    BY <1>7 DEF StoreRow, FinishWrite, FinishDelete, FinishComparison, FailBackup,
                FailCopy, StoreArchive, Doing
  <2>3. /\ work'[c] = Idle
        /\ \A d \in Callers : d # c => work'[d] = work[d]
    BY <2>2, <1>1 DEF Done
  <2>. QED
    BY <2>1, <2>2, <2>3 DEF Doing, Idle, HoldsLock, HalfRestored, OrdinaryStep
<1>8. ASSUME NEW c \in Callers, TakeLockForSnapshot(c)
      PROVE  OrdinaryStep
  <2>1. \A d \in Callers : d # c => work'[d] = work[d]
    BY <1>8, <1>1 DEF TakeLockForSnapshot
  <2>2. UNCHANGED <<key, keyFile, torn>>
    BY <1>8 DEF TakeLockForSnapshot, UnchangedVault, vaultVars
  <2>. QED
    BY <1>8, <2>1, <2>2 DEF TakeLockForSnapshot, Doing, OrdinaryStep
<1>9. ASSUME NEW c \in Callers, RestoreAudit(c)
      PROVE  OrdinaryStep
  <2>1. [work[c] EXCEPT !.op = "audit"].op = "audit"
    BY <1>9, WorkFields DEF RestoreAudit, Doing, RestoreBegun
  <2>2. work'[c].op \in {"audit", "idle"}
    <3>1. CASE Do(c, [work[c] EXCEPT !.op = "audit"])
      BY <3>1, <2>1, <1>1
    <3>2. CASE Done(c)
      BY <3>2, <1>1 DEF Done, Idle
    <3>. QED  BY <1>9, <3>1, <3>2 DEF RestoreAudit
  <2>3. \A d \in Callers : d # c => work'[d] = work[d]
    BY <1>9, <1>1 DEF RestoreAudit, Done
  <2>4. UNCHANGED <<key, keyFile, torn>>
    BY <1>9 DEF RestoreAudit, UnchangedVault, vaultVars
  <2>. QED
    BY <1>9, <2>2, <2>3, <2>4 DEF RestoreAudit, Doing, HoldsLock, HalfRestored, OrdinaryStep
<1>10. ASSUME NEW c \in Callers, RestoreDatabase(c)
       PROVE  OrdinaryStep
  BY <1>10, <1>1 DEF RestoreDatabase, Doing, OrdinaryStep
<1>. QED
  BY <1>3, <1>4, <1>5, <1>6, <1>7, <1>8, <1>9, <1>10 DEF BackupNext, Resume

(* Where the steps that write the key file leave their thread              *)
LEMMA KeyFileSteps ==
  ASSUME BackupTypeOK, NEW c \in Callers
  PROVE  /\ TruncateKeyFile(c)
              => /\ Doing(c, "database") /\ Doing(c, "truncated")'
                 /\ \A d \in Callers : d # c => work'[d] = work[d]
         /\ RestoreKey(c)
              => /\ Doing(c, "truncated") /\ work'[c] = Idle
                 /\ key' \in Keys /\ key' = keyFile'
                 /\ \A d \in Callers : d # c => work'[d] = work[d]
         /\ FailKey(c)
              => /\ HalfRestored(c) /\ work'[c] = Idle
                 /\ \A d \in Callers : d # c => work'[d] = work[d]
<1>1. ASSUME TruncateKeyFile(c)
      PROVE  /\ Doing(c, "database") /\ Doing(c, "truncated")'
             /\ \A d \in Callers : d # c => work'[d] = work[d]
  <2>1. [work[c] EXCEPT !.op = "truncated"].op = "truncated"
    BY <1>1, WorkFields DEF TruncateKeyFile, Doing, RestoreBegun
  <2>. QED  BY <1>1, <2>1 DEF TruncateKeyFile, Do, Doing, BackupTypeOK
<1>2. ASSUME RestoreKey(c)
      PROVE  /\ Doing(c, "truncated") /\ work'[c] = Idle
             /\ key' \in Keys /\ key' = keyFile'
             /\ \A d \in Callers : d # c => work'[d] = work[d]
  <2>1. work[c].archive.key \in Keys
    BY <1>2, WorkFields, ArchiveFields DEF RestoreKey, Doing
  <2>. QED
    BY <1>2, <2>1 DEF RestoreKey, RestoredKey, Done, Do, Doing, BackupTypeOK
<1>3. ASSUME FailKey(c)
      PROVE  /\ HalfRestored(c) /\ work'[c] = Idle
             /\ \A d \in Callers : d # c => work'[d] = work[d]
  BY <1>3 DEF FailKey, HalfRestored, Done, Do, Doing, BackupTypeOK
<1>. QED  BY <1>1, <1>2, <1>3

BackupInv == BackupTypeOK /\ UnopenedIsIdle /\ OneLockHolder /\ KeyFits

LEMMA BackupInvInit == BackupInit => BackupInv
<1>. SUFFICES ASSUME BackupInit PROVE BackupInv
  OBVIOUS
<1>1. \A c \in Callers : ~HoldsLock(c)
  BY DEF BackupInit, HoldsLock, HalfRestored, Doing, Idle
<1>. QED
  BY <1>1, BackupInitTyped
     DEF BackupInv, BackupInit, UnopenedIsIdle, OneLockHolder, KeyFits

LEMMA UnopenedStep ==
  BackupInv /\ [BackupNext]_backupVars => UnopenedIsIdle'
<1>. SUFFICES ASSUME BackupInv, [BackupNext]_backupVars PROVE UnopenedIsIdle'
  OBVIOUS
<1>1. CASE OrdinaryStep
  BY <1>1 DEF OrdinaryStep, BackupInv, UnopenedIsIdle, Doing, Idle
<1>2. ASSUME NEW c \in Callers, TruncateKeyFile(c)
      PROVE  UnopenedIsIdle'
  BY <1>2 DEF TruncateKeyFile, Doing, Idle, BackupInv, UnopenedIsIdle
<1>3. ASSUME NEW c \in Callers, RestoreKey(c)
      PROVE  UnopenedIsIdle'
  BY <1>3, KeyFileSteps, BackupAssumption DEF BackupInv, UnopenedIsIdle, Keys
<1>3a. ASSUME NEW c \in Callers, FailKey(c)
       PROVE  UnopenedIsIdle'
  BY <1>3a, KeyFileSteps DEF FailKey, BackupInv, UnopenedIsIdle
<1>4. CASE RestartVault
  BY <1>4 DEF RestartVault, UnopenedIsIdle
<1>5. CASE UNCHANGED backupVars
  BY <1>5 DEF backupVars, BackupInv, UnopenedIsIdle
<1>. QED  BY <1>1, <1>2, <1>3, <1>3a, <1>4, <1>5, Steps DEF BackupInv

LEMMA OneLockHolderStep ==
  BackupInv /\ [BackupNext]_backupVars => OneLockHolder'
<1>. SUFFICES ASSUME BackupInv, [BackupNext]_backupVars,
                     NEW c \in Callers, NEW d \in Callers,
                     HoldsLock(c)', HoldsLock(d)', c # d
              PROVE  FALSE
  BY DEF OneLockHolder
<1>a. ~(HoldsLock(c) /\ HoldsLock(d))
  BY DEF BackupInv, OneLockHolder
<1>. USE DEF HoldsLock, HalfRestored, Doing
<1>1. CASE OrdinaryStep
  BY <1>1, <1>a DEF OrdinaryStep, LockFree
<1>2. ASSUME NEW e \in Callers, TruncateKeyFile(e) \/ RestoreKey(e) \/ FailKey(e)
      PROVE  FALSE
  BY <1>2, <1>a, KeyFileSteps DEF BackupInv, Idle
<1>3. CASE RestartVault
  BY <1>3 DEF RestartVault, Idle
<1>4. CASE UNCHANGED backupVars
  BY <1>4, <1>a DEF backupVars
<1>. QED  BY <1>1, <1>2, <1>3, <1>4, Steps DEF BackupInv

LEMMA KeyFitsStep ==
  BackupInv /\ [BackupNext]_backupVars => KeyFits'
<1>. SUFFICES ASSUME BackupInv, [BackupNext]_backupVars PROVE KeyFits'
  OBVIOUS
<1>1. CASE OrdinaryStep
  BY <1>1 DEF OrdinaryStep, BackupInv, KeyFits, Doing
<1>2. ASSUME NEW c \in Callers, TruncateKeyFile(c)
      PROVE  KeyFits'
  BY <1>2, KeyFileSteps DEF BackupInv, KeyFits
<1>3. ASSUME NEW c \in Callers, RestoreKey(c)
      PROVE  KeyFits'
  BY <1>3, KeyFileSteps DEF BackupInv, KeyFits
<1>3a. ASSUME NEW c \in Callers, FailKey(c)
       PROVE  KeyFits'
  BY <1>3a DEF FailKey, KeyFits
<1>4. CASE RestartVault
  BY <1>4 DEF RestartVault, KeyFits
<1>5. CASE UNCHANGED backupVars
  BY <1>5 DEF backupVars, BackupInv, KeyFits, Doing
<1>. QED  BY <1>1, <1>2, <1>3, <1>3a, <1>4, <1>5, Steps DEF BackupInv

(* The invariants of any number of threads *)
THEOREM BackupInvariant == BackupSpec => []BackupInv
<1>1. BackupInv /\ [BackupNext]_backupVars => BackupInv'
  BY BackupTypeStep, UnopenedStep, OneLockHolderStep, KeyFitsStep DEF BackupInv
<1>. QED  BY <1>1, BackupInvInit, PTL DEF BackupSpec

(* Rows, archives and what the threads carry are well formed.              *)
THEOREM BackupTypeCorrect == BackupSpec => []BackupTypeOK
<1>1. BackupInv => BackupTypeOK
  BY DEF BackupInv
<1>. QED  BY <1>1, BackupInvariant, PTL

(* Snapshots and restores never copy at the same time.                     *)
THEOREM OneCopyAtATime == BackupSpec => []OneLockHolder
<1>1. BackupInv => OneLockHolder
  BY DEF BackupInv
<1>. QED  BY <1>1, BackupInvariant, PTL

-----------------------------------------------------------------------------
(* The rows that can be read                                               *)
UnderKey == \A slot \in DOMAIN rows : rows[slot] = key

(* An archive opens with its own key.                                      *)
Sound(a) == a.foreign \/ \A slot \in DOMAIN a.rows : a.rows[slot] = a.key

(* What a restore goes on with                                             *)
SoundWork(c) ==
  /\ Doing(c, "confirmed") \/ Doing(c, "audit") \/ HalfRestored(c)
       => Sound(work[c].archive)
  /\ HalfRestored(c) => rows = work[c].archive.rows

ReadableInv ==
  /\ torn \/ foreign \/ UnderKey \/ \E c \in Callers : HalfRestored(c)
  /\ \A name \in DOMAIN archives : Sound(archives[name])
  /\ \A c \in Callers : SoundWork(c)

LEMMA ReadableInit == BackupInit => ReadableInv
<1>. SUFFICES ASSUME BackupInit PROVE ReadableInv
  OBVIOUS
<1>1. Sound(AuditArchive)
  BY DEF AuditArchive, Sound, EmptyTable
<1>2. ASSUME NEW S
      PROVE  Sound(OtherArchive(S))
  BY DEF OtherArchive, Sound
<1>3. \A name \in DOMAIN archives : Sound(archives[name])
  <2>1. PICK n \in Names, S \in SUBSET Slots :
          archives \in {[m \in {n} |-> OtherArchive(S)],
                       [m \in {n} |-> AuditArchive]}
    BY BackupAssumption DEF BackupInit, Slots
  <2>. QED  BY <2>1, <1>1, <1>2
<1>4. \A c \in Callers : SoundWork(c)
  BY DEF BackupInit, Idle, SoundWork, Doing, HalfRestored
<1>5. UnderKey
  BY DEF BackupInit, EmptyTable, UnderKey
<1>. QED  BY <1>3, <1>4, <1>5 DEF ReadableInv

(* A section that commits while nobody copies: it keeps rows of the key in *)
(* memory, or says that it may not.                                        *)
LEMMA ReadableCommit ==
  ASSUME BackupTypeOK, ReadableInv, NEW c \in Callers, NEW table, Commit(table),
         LockFree, Done(c) \/ UNCHANGED work,
         foreign => foreign',
         foreign' \/ (UnderKey => \A slot \in DOMAIN table : table[slot] = key)
  PROVE  ReadableInv'
<1>1. \A d \in Callers : work'[d] = work[d] \/ work'[d] = Idle
  BY DEF BackupTypeOK, Done, Do
<1>2. \A d \in Callers : ~HalfRestored(d) /\ ~HalfRestored(d)'
  BY <1>1 DEF LockFree, HoldsLock, HalfRestored, Idle
<1>3. torn \/ foreign \/ UnderKey
  BY <1>2 DEF ReadableInv
<1>4. torn' \/ foreign' \/ UnderKey'
  BY <1>3 DEF Commit, UnderKey
<1>5. \A d \in Callers : SoundWork(d)'
  BY <1>1, <1>2 DEF ReadableInv, SoundWork, Doing, Idle
<1>6. \A name \in DOMAIN archives' : Sound(archives'[name])
  BY DEF ReadableInv, Commit
<1>. QED  BY <1>4, <1>5, <1>6 DEF ReadableInv

(* A step that leaves rows and key alone, of a thread that is not between  *)
(* the replacement of the database and that of the key                     *)
LEMMA ReadableRead ==
  ASSUME BackupTypeOK, ReadableInv, NEW c \in Callers, NEW w, Do(c, w),
         UNCHANGED <<rows, key, torn, foreign, archives>>,
         ~HalfRestored(c), w.op \notin {"database", "truncated"},
         w.op \in {"confirmed", "audit"} => Sound(w.archive)
  PROVE  ReadableInv'
<1>1. /\ work'[c] = w
      /\ \A d \in Callers : d # c => work'[d] = work[d]
  BY DEF BackupTypeOK, Do
<1>2. \A d \in Callers : HalfRestored(d)' <=> HalfRestored(d)
  BY <1>1 DEF HalfRestored
<1>3. \A d \in Callers : SoundWork(d)'
  BY <1>1, <1>2 DEF ReadableInv, SoundWork, Doing
<1>. QED  BY <1>2, <1>3 DEF ReadableInv, UnderKey

(* A restore that is under way goes on with its archive.                   *)
LEMMA NextStage ==
  ASSUME BackupTypeOK, NEW c \in Callers, NEW stage,
         Doing(c, "confirmed") \/ Doing(c, "audit") \/ HalfRestored(c),
         Do(c, [work[c] EXCEPT !.op = stage])
  PROVE  /\ work'[c].op = stage /\ work'[c].archive = work[c].archive
         /\ [work[c] EXCEPT !.op = stage].op = stage
         /\ [work[c] EXCEPT !.op = stage].archive = work[c].archive
         /\ \A d \in Callers : d # c => work'[d] = work[d]
<1>1. work[c] \in RestoreBegun
  BY WorkFields DEF Doing, HalfRestored
<1>. QED  BY <1>1 DEF RestoreBegun, Do, BackupTypeOK

LEMMA ReadableStep ==
  BackupInv /\ ReadableInv /\ [BackupNext]_backupVars => ReadableInv'
<1>. SUFFICES ASSUME BackupInv, ReadableInv, [BackupNext]_backupVars
              PROVE  ReadableInv'
  OBVIOUS
<1>. USE DEF HalfRestored, Doing
<1>a. BackupTypeOK
  BY DEF BackupInv
<1>b. UnchangedVault => UNCHANGED <<rows, key, torn, foreign, archives>>
  BY DEF UnchangedVault, vaultVars
<1>c. AbandonTransaction => UNCHANGED <<rows, key, torn, archives>>
  BY DEF AbandonTransaction
<1>1. ASSUME NEW c \in Callers, NEW id \in Ids, AddProfile(c, id)
      PROVE  ReadableInv'
  BY <1>1, <1>a, ReadableCommit DEF AddProfile, Put, UnderKey
<1>2. ASSUME NEW c \in Callers, NEW id \in Ids,
             NEW op \in {"deleting", "marking", "preparing"}, ReadProfile(c, id, op)
      PROVE  ReadableInv'
  BY <1>2, <1>a, <1>b, ReadableRead DEF ReadProfile, Ready
<1>3. ASSUME NEW c \in Callers, NEW id \in Ids, ReadDraft(c, id)
      PROVE  ReadableInv'
  BY <1>3, <1>a, <1>b, ReadableRead DEF ReadDraft, Ready
<1>4. ASSUME NEW c \in Callers, NEW id \in Ids, EncryptInventory(c, id)
      PROVE  ReadableInv'
  BY <1>4, <1>a, <1>b, ReadableRead DEF EncryptInventory, Ready
<1>5. ASSUME NEW c \in Callers, NEW id \in Ids, DiscardDraft(c, id)
      PROVE  ReadableInv'
  <2>1. UnderKey => \A slot \in DOMAIN Drop(rows, <<"draft", id>>) :
                      Drop(rows, <<"draft", id>>)[slot] = key
    BY RestrictRows DEF Drop, UnderKey
  <2>. QED  BY <1>5, <1>a, <2>1, ReadableCommit DEF DiscardDraft
<1>6. ASSUME NEW c \in Callers, SnapshotAudit(c)
      PROVE  ReadableInv'
  BY <1>6, <1>a, <1>b, ReadableRead DEF SnapshotAudit, Ready
<1>7. ASSUME NEW c \in Callers, NEW name \in Names, ReadArchive(c, name)
      PROVE  ReadableInv'
  <2>1. Sound(archives[name])
    BY <1>7 DEF ReadArchive, ReadableInv
  <2>. QED  BY <1>7, <2>1, <1>a, <1>b, ReadableRead DEF ReadArchive, Ready
<1>8. ASSUME NEW c \in Callers, EncryptDraft(c)
      PROVE  ReadableInv'
  BY <1>8, <1>a, <1>b, ReadableRead DEF EncryptDraft
<1>9. ASSUME NEW c \in Callers, StoreRow(c)
      PROVE  ReadableInv'
  <2>1. CASE UnchangedVault
    BY <1>9, <2>1, <1>a, <1>b, ReadableRead DEF StoreRow, Done, Idle
  <2>2. CASE /\ Commit(Put(rows, work[c].slot, work[c].key))
             /\ foreign' = (foreign \/ work[c].key # key)
    <3>1. foreign' \/ (UnderKey => \A slot \in DOMAIN Put(rows, work[c].slot, key) :
                                     Put(rows, work[c].slot, key)[slot] = key)
      BY DEF Put, UnderKey
    <3>. QED  BY <1>9, <2>2, <3>1, <1>a, ReadableCommit DEF StoreRow
  <2>. QED  BY <1>9, <2>1, <2>2 DEF StoreRow
<1>10. ASSUME NEW c \in Callers, FinishWrite(c)
       PROVE  ReadableInv'
  <2>. DEFINE draft == <<"draft", work[c].id>>
              profile == <<"profile", work[c].id>>
              moved == Put(rows, profile, rows[draft])
  <2>1. CASE UnchangedVault
    BY <1>10, <2>1, <1>a, <1>b, ReadableRead DEF FinishWrite, Done, Idle
  <2>2. CASE /\ {draft, profile} \subseteq DOMAIN rows
             /\ Commit(Drop(moved, draft))
             /\ UNCHANGED foreign
    <3>1. UnderKey => \A slot \in DOMAIN moved : moved[slot] = key
      BY <2>2 DEF Put, UnderKey
    <3>2. UnderKey => \A slot \in DOMAIN Drop(moved, draft) :
                        Drop(moved, draft)[slot] = key
      BY <3>1, RestrictRows DEF Drop
    <3>. QED  BY <1>10, <2>2, <3>2, <1>a, ReadableCommit DEF FinishWrite
  <2>. QED  BY <1>10, <2>1, <2>2 DEF FinishWrite
<1>11. ASSUME NEW c \in Callers, FinishDelete(c)
       PROVE  ReadableInv'
  <2>. DEFINE kept == Restrict(rows, DOMAIN rows \ RowsOf(work[c].id))
  <2>1. UnderKey => \A slot \in DOMAIN kept : kept[slot] = key
    BY RestrictRows DEF UnderKey
  <2>2. CASE Commit(kept)
    BY <1>11, <2>1, <2>2, <1>a, ReadableCommit DEF FinishDelete
  <2>3. CASE AbandonTransaction
    BY <1>11, <2>3, <1>a, <1>c, ReadableRead DEF FinishDelete, Done, Idle
  <2>. QED  BY <1>11, <2>2, <2>3 DEF FinishDelete
<1>12. ASSUME NEW c \in Callers, FinishComparison(c)
       PROVE  ReadableInv'
  <2>1. CASE UnchangedVault \/ AbandonTransaction
    BY <1>12, <2>1, <1>a, <1>b, <1>c, ReadableRead DEF FinishComparison, Done, Idle
  <2>2. CASE Commit(rows)
    BY <1>12, <2>2, <1>a, ReadableCommit DEF FinishComparison, UnderKey
  <2>. QED  BY <1>12, <2>1, <2>2 DEF FinishComparison
<1>13. ASSUME NEW c \in Callers, TakeLockForSnapshot(c)
       PROVE  ReadableInv'
  <2>1. [work[c] EXCEPT !.op = "snapshot"].op = "snapshot"
    BY <1>13, <1>a, WorkFields DEF TakeLockForSnapshot, BackupBegun
  <2>. QED  BY <1>13, <2>1, <1>a, <1>b, ReadableRead DEF TakeLockForSnapshot
<1>14. ASSUME NEW c \in Callers, NEW name \in Names, StoreArchive(c, name)
       PROVE  ReadableInv'
  <2>. DEFINE made == [rows |-> rows, key |-> key, hasVault |-> TRUE,
                       foreign |-> torn \/ foreign]
  <2>1. \A d \in Callers : ~HalfRestored(d)
    BY <1>14 DEF StoreArchive, BackupInv, OneLockHolder, HoldsLock
  <2>2. torn \/ foreign \/ UnderKey
    BY <2>1 DEF ReadableInv
  <2>3. Sound(made)
    BY <2>2 DEF Sound, UnderKey
  <2>4. archives' = Put(archives, name, made)
    BY <1>14 DEF StoreArchive
  <2>. HIDE DEF made
  <2>5. \A n \in DOMAIN archives' : Sound(archives'[n])
    BY <2>3, <2>4 DEF Put, ReadableInv
  <2>6. \A d \in Callers : work'[d] = work[d] \/ work'[d] = Idle
    BY <1>14, <1>a DEF StoreArchive, BackupTypeOK, Done, Do
  <2>7. \A d \in Callers : SoundWork(d)'
    BY <1>14, <2>6 DEF StoreArchive, vaultVars, ReadableInv, SoundWork, Idle
  <2>. QED
    BY <1>14, <2>2, <2>5, <2>7 DEF StoreArchive, vaultVars, ReadableInv, UnderKey
<1>15. ASSUME NEW c \in Callers, FailBackup(c) \/ FailCopy(c)
       PROVE  ReadableInv'
  BY <1>15, <1>a, <1>b, ReadableRead DEF FailBackup, FailCopy, Done, Idle
<1>16. ASSUME NEW c \in Callers, RestoreAudit(c)
       PROVE  ReadableInv'
  <2>1. Sound(work[c].archive) /\ ~HalfRestored(c)
    BY <1>16 DEF RestoreAudit, ReadableInv, SoundWork
  <2>2. CASE Done(c)
    BY <1>16, <2>1, <2>2, <1>a, <1>b, ReadableRead DEF RestoreAudit, Done, Idle
  <2>3. CASE Do(c, [work[c] EXCEPT !.op = "audit"])
    <3>1. /\ [work[c] EXCEPT !.op = "audit"].op = "audit"
          /\ [work[c] EXCEPT !.op = "audit"].archive = work[c].archive
      BY <1>16, <2>3, <1>a, NextStage DEF RestoreAudit
    <3>. QED
      BY <1>16, <2>1, <2>3, <3>1, <1>a, <1>b, ReadableRead DEF RestoreAudit
  <2>. QED  BY <1>16, <2>2, <2>3 DEF RestoreAudit
<1>17. ASSUME NEW c \in Callers, RestoreDatabase(c)
       PROVE  ReadableInv'
  <2>1. /\ work'[c].op = "database" /\ work'[c].archive = work[c].archive
        /\ \A d \in Callers : d # c => work'[d] = work[d]
    BY <1>17, <1>a, NextStage DEF RestoreDatabase
  <2>2. HalfRestored(c)'
    BY <2>1
  <2>3. \A d \in Callers : ~HalfRestored(d)
    BY <1>17 DEF RestoreDatabase, LockFree, HoldsLock
  <2>4. rows' = work[c].archive.rows
    BY <1>17 DEF RestoreDatabase, RestoredRows
  <2>5. \A d \in Callers : SoundWork(d)'
    BY <1>17, <2>1, <2>3, <2>4 DEF RestoreDatabase, ReadableInv, SoundWork
  <2>. QED  BY <1>17, <2>2, <2>5 DEF RestoreDatabase, ReadableInv
<1>18. ASSUME NEW c \in Callers, TruncateKeyFile(c)
       PROVE  ReadableInv'
  <2>1. /\ work'[c].op = "truncated" /\ work'[c].archive = work[c].archive
        /\ \A d \in Callers : d # c => work'[d] = work[d]
    BY <1>18, <1>a, NextStage DEF TruncateKeyFile
  <2>2. HalfRestored(c)'
    BY <2>1
  <2>3. \A d \in Callers : SoundWork(d)'
    BY <1>18, <2>1 DEF TruncateKeyFile, ReadableInv, SoundWork
  <2>. QED  BY <1>18, <2>2, <2>3 DEF TruncateKeyFile, ReadableInv
<1>19. ASSUME NEW c \in Callers, RestoreKey(c)
       PROVE  ReadableInv'
  <2>1. Sound(work[c].archive) /\ rows = work[c].archive.rows
    BY <1>19 DEF RestoreKey, ReadableInv, SoundWork
  <2>2. /\ rows' = rows /\ key' = work[c].archive.key
        /\ foreign' = work[c].archive.foreign
    BY <1>19 DEF RestoreKey, RestoredKey
  <2>3. foreign' \/ UnderKey'
    BY <2>1, <2>2 DEF Sound, UnderKey
  <2>4. \A d \in Callers : work'[d] = work[d] \/ work'[d] = Idle
    BY <1>19, <1>a, KeyFileSteps
  <2>5. \A d \in Callers : SoundWork(d)'
    BY <2>2, <2>4 DEF ReadableInv, SoundWork, Idle
  <2>. QED  BY <1>19, <2>3, <2>5 DEF RestoreKey, ReadableInv
<1>20. ASSUME NEW c \in Callers, FailKey(c)
       PROVE  ReadableInv'
  <2>1. \A d \in Callers : work'[d] = work[d] \/ work'[d] = Idle
    BY <1>20, <1>a, KeyFileSteps
  <2>2. \A d \in Callers : SoundWork(d)'
    BY <1>20, <2>1 DEF FailKey, ReadableInv, SoundWork, Idle
  <2>. QED  BY <1>20, <2>2 DEF FailKey, ReadableInv
<1>21. CASE RestartVault
  <2>1. \A c \in Callers : SoundWork(c)'
    BY <1>21 DEF RestartVault, SoundWork, Idle
  <2>2. torn' \/ foreign' \/ UnderKey'
    <3>1. CASE \E c \in Callers : HalfRestored(c)
      BY <1>21, <3>1 DEF RestartVault
    <3>2. CASE ~\E c \in Callers : HalfRestored(c)
      <4>1. torn \/ key = keyFile
        BY <3>2 DEF BackupInv, KeyFits
      <4>. QED  BY <1>21, <3>2, <4>1 DEF RestartVault, ReadableInv, UnderKey
    <3>. QED  BY <3>1, <3>2
  <2>. QED  BY <1>21, <2>1, <2>2 DEF RestartVault, ReadableInv
<1>22. CASE UNCHANGED backupVars
  BY <1>22 DEF backupVars, ReadableInv, SoundWork, UnderKey
<1>. QED
  BY <1>1, <1>2, <1>3, <1>4, <1>5, <1>6, <1>7, <1>8, <1>9, <1>10, <1>11, <1>12,
     <1>13, <1>14, <1>15, <1>16, <1>17, <1>18, <1>19, <1>20, <1>21, <1>22
     DEF BackupNext, Resume

(* However backups, restores, restarts and changes overlap, whatever fails *)
(* and whenever the power does: while nobody copies, the key in memory is  *)
(* the one in the file and every row can be decrypted with it, unless a    *)
(* restore was left half done or a row was stored under an earlier key.    *)
THEOREM VaultStaysReadable == BackupSpec => []VaultReadable
<1>1. BackupInv /\ ReadableInv /\ [BackupNext]_backupVars => ReadableInv'
  BY ReadableStep
<1>2. BackupInv /\ ReadableInv => VaultReadable
  BY DEF BackupInv, KeyFits, ReadableInv, VaultReadable, UnderKey, LockFree,
         HoldsLock, HalfRestored, Doing
<1>. QED  BY <1>1, <1>2, ReadableInit, BackupInvariant, PTL DEF BackupSpec
=============================================================================

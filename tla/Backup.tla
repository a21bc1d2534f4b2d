------------------------------- MODULE Backup -------------------------------
(***************************************************************************)
(* app/services/backup.py with the snapshots and restores of audit.py and  *)
(* profiles.py: archives of the audit database, the profile database and   *)
(* the key that opens it, and what restoring one does to a vault that is   *)
(* in use.  Of a row only the key it is encrypted with is kept.  An action *)
(* is one locked section, or one step between two of them; the steps of a  *)
(* restore under the lock of the vault are separate, because the power can *)
(* fail between them, and so can the medium.                               *)
(*                                                                         *)
(* History rows share the ciphertext of their profile and are left out, as *)
(* are the SUCI keys.  An adoption decrypts and encrypts in one section    *)
(* and leaves the keys of the rows as they are.                            *)
(***************************************************************************)
EXTENDS Integers, FiniteSets, Tables

CONSTANTS
  Callers,     \* request threads
  Ids,         \* profile ids
  Kinds,       \* the tables: profile, draft and, if it is used, inventory
  Names,       \* archive names: the second in which an archive was made
  MaxRows,     \* bound of the model: rows the vault has room for
  OwnKey,      \* the key this installation was set up with
  OtherKey,    \* the key of the installation an archive comes from
  NoKey        \* an empty key file; the vault cannot be opened with it

ASSUME BackupAssumption ==
  /\ {"profile", "draft"} \subseteq Kinds
  /\ Kinds \subseteq {"profile", "draft", "inventory"}
  /\ MaxRows \in Nat
  /\ OwnKey # OtherKey
  /\ NoKey \notin {OwnKey, OtherKey}

VARIABLES
  rows,         \* <<table, id>> -> the key the row is encrypted with
  key,          \* self._key; NoKey while the vault could not be opened
  keyFile,      \* profile.key
  transaction,  \* the connection has a transaction open between sections
  archives,     \* name -> archive, on the removable medium
  work,         \* local variables of the threads
  torn,         \* history: a restore replaced the database, failed before
                \* the key was replaced, and none has been completed since
  foreign       \* history: a row may have been stored under another key

backupVars ==
  <<rows, key, keyFile, transaction, archives, work, torn, foreign>>
vaultVars == <<rows, key, keyFile, transaction, torn, foreign>>

Keys == {OwnKey, OtherKey}
Slots == Kinds \X Ids
RowTables == UNION {[S -> Keys] : S \in SUBSET Slots}

(* hasVault: files of the profile database and its key are in the archive; *)
(* foreign: it was made of a vault whose rows may be under another key.    *)
Archives ==
  [rows : RowTables, key : Keys, hasVault : BOOLEAN, foreign : BOOLEAN]

Idle == [op |-> "idle"]

ProfileRead ==
  [op : {"deleting", "marking", "preparing", "writing"}, id : Ids]
RowEncrypted == [op : {"storing"}, slot : Slots, key : Keys]
BackupBegun == [op : {"backup", "snapshot"}]
RestoreBegun ==
  [op : {"confirmed", "audit", "database", "truncated"}, archive : Archives]

Doing(c, op) == work[c].op = op
Do(c, record) == work' = [work EXCEPT ![c] = record]
Done(c) == Do(c, Idle)

(* The database is replaced, and its key is not.                           *)
HalfRestored(c) == work[c].op \in {"database", "truncated"}

(* self._lock of the vault; snapshot and restore hold it for several steps *)
HoldsLock(c) == Doing(c, "snapshot") \/ HalfRestored(c)

(* Mutant: a snapshot does not take the lock.                              *)
LockFreeOfRestore == \A c \in Callers : ~HalfRestored(c)

LockFree == \A c \in Callers : ~HoldsLock(c)

(* Mutant: a key file of any length is accepted.                           *)
Unoccupied(c) == Doing(c, "idle")

(* An idle thread of a vault that could be opened *)
Ready(c) == key # NoKey /\ Doing(c, "idle")

Exists(id) == <<"profile", id>> \in DOMAIN rows
CanDecrypt(slot) == slot \in DOMAIN rows => rows[slot] = key
RowsOf(id) == {slot \in DOMAIN rows : slot[2] = id}

-----------------------------------------------------------------------------
(* What a restore takes from an archive                                    *)

(* Mutant: the copy goes the wrong way.                                    *)
RowsKept(archive) == rows
RestoredRows(archive) == archive.rows

RestoredKey(archive) == archive.key

BackupTypeOK ==
  /\ rows \in RowTables
  /\ key \in Keys \cup {NoKey}
  /\ keyFile \in Keys \cup {NoKey}
  /\ transaction \in BOOLEAN
  /\ IsTable(archives, Names, Archives)
  /\ work \in [Callers -> {Idle} \cup ProfileRead \cup RowEncrypted
                          \cup BackupBegun \cup RestoreBegun]
  /\ {torn, foreign} \subseteq BOOLEAN

(* Archives of another installation, and of a release without a vault      *)
OtherArchive(S) ==
  [rows |-> [s \in S |-> OtherKey], key |-> OtherKey,
   hasVault |-> TRUE, foreign |-> FALSE]
AuditArchive ==
  [rows |-> EmptyTable, key |-> OwnKey, hasVault |-> FALSE, foreign |-> FALSE]

BackupInit ==
  /\ rows = EmptyTable
  /\ key = OwnKey
  /\ keyFile = OwnKey
  /\ transaction = FALSE
  /\ \E name \in Names, id \in Ids :
       \E S \in {{<<"profile", id>>}, {<<"profile", id>>, <<"draft", id>>}} :
         archives \in {[n \in {name} |-> OtherArchive(S)],
                       [n \in {name} |-> AuditArchive]}
  /\ work = [c \in Callers |-> Idle]
  /\ torn = FALSE
  /\ foreign = FALSE

-----------------------------------------------------------------------------
(* Sections of the vault                                                   *)

(* A section that changes the tables ends with a commit.                   *)
Commit(table) ==
  /\ rows' = table
  /\ transaction' = FALSE
  /\ UNCHANGED <<key, keyFile, archives, torn>>

(* A second section finds no row: the UPDATE or DELETE has begun a         *)
(* transaction, and KeyError leaves it open.                               *)
AbandonTransaction ==
  /\ transaction' = TRUE
  /\ UNCHANGED <<rows, key, keyFile, archives, torn>>

UnchangedVault == UNCHANGED <<vaultVars, archives>>

(* import_csv and add_profile look for duplicates: every profile and every *)
(* inventory row is decrypted first.                                       *)
AddProfile(c, id) ==
  /\ Ready(c) /\ LockFree
  /\ ~Exists(id)
  /\ \A slot \in Slots : slot[1] # "draft" => CanDecrypt(slot)
  /\ Commit(Put(rows, <<"profile", id>>, key))
  /\ UNCHANGED <<work, foreign>>

(* The profile is read and decrypted, and the thread goes on without the   *)
(* lock: prepare_change, delete_profile, a comparison.                     *)
ReadProfile(c, id, op) ==
  /\ Ready(c) /\ LockFree
  /\ Exists(id) /\ CanDecrypt(<<"profile", id>>)
  /\ Do(c, [op |-> op, id |-> id])
  /\ UnchangedVault

(* get_change_draft before a write to the card                             *)
ReadDraft(c, id) ==
  /\ Ready(c) /\ LockFree
  /\ <<"draft", id>> \in DOMAIN rows /\ CanDecrypt(<<"draft", id>>)
  /\ Do(c, [op |-> "writing", id |-> id])
  /\ UnchangedVault

(* Encryption outside the lock, with the key of that moment.               *)
EncryptDraft(c) ==
  /\ Doing(c, "preparing")
  /\ Do(c, [op |-> "storing", slot |-> <<"draft", work[c].id>>, key |-> key])
  /\ UnchangedVault

EncryptInventory(c, id) ==
  /\ Ready(c)
  /\ "inventory" \in Kinds
  /\ Do(c, [op |-> "storing", slot |-> <<"inventory", id>>, key |-> key])
  /\ UnchangedVault

(* The second section of prepare_change, or that of set_inventory          *)
StoreRow(c) ==
  /\ Doing(c, "storing") /\ LockFree
  /\ IF Exists(work[c].slot[2])
       THEN /\ Cardinality(DOMAIN rows \cup {work[c].slot}) <= MaxRows
            /\ Commit(Put(rows, work[c].slot, work[c].key))
            /\ foreign' = (foreign \/ work[c].key # key)
       ELSE UnchangedVault
  /\ Done(c)

(* commit_change moves the ciphertext of the draft; the write may also     *)
(* have failed, or the draft be replaced.                                  *)
FinishWrite(c) ==
  /\ Doing(c, "writing") /\ LockFree
  /\ LET draft == <<"draft", work[c].id>>
         profile == <<"profile", work[c].id>>
     IN  \/ UnchangedVault
         \/ /\ {draft, profile} \subseteq DOMAIN rows
            /\ Commit(Drop(Put(rows, profile, rows[draft]), draft))
            /\ UNCHANGED foreign
  /\ Done(c)

DiscardDraft(c, id) ==
  /\ Ready(c) /\ LockFree
  /\ Exists(id)
  /\ Commit(Drop(rows, <<"draft", id>>))
  /\ UNCHANGED <<work, foreign>>

FinishDelete(c) ==
  /\ Doing(c, "deleting") /\ LockFree
  /\ IF Exists(work[c].id)
       THEN Commit(Restrict(rows, DOMAIN rows \ RowsOf(work[c].id)))
       ELSE AbandonTransaction
  /\ Done(c)
  /\ UNCHANGED foreign

(* mark_card_verified after a comparison, which may also differ            *)
FinishComparison(c) ==
  /\ Doing(c, "marking") /\ LockFree
  /\ \/ UnchangedVault
     \/ IF Exists(work[c].id) THEN Commit(rows) ELSE AbandonTransaction
  /\ Done(c)
  /\ UNCHANGED foreign

-----------------------------------------------------------------------------
(* Creating an archive                                                     *)

SnapshotAudit(c) ==
  /\ Ready(c)
  /\ Do(c, [op |-> "backup"])
  /\ UnchangedVault

TakeLockForSnapshot(c) ==
  /\ Doing(c, "backup") /\ LockFree
  /\ Do(c, [work[c] EXCEPT !.op = "snapshot"])
  /\ UnchangedVault

(* backup() of the connection waits, again and again, while the connection *)
(* has a transaction open.  The name is the second the backup began in; an *)
(* archive of the same second is replaced.                                 *)
StoreArchive(c, name) ==
  /\ Doing(c, "snapshot")
  /\ ~transaction
  /\ archives' = Put(archives, name,
       [rows |-> rows, key |-> key, hasVault |-> TRUE,
        foreign |-> torn \/ foreign])
  /\ Done(c)
  /\ UNCHANGED vaultVars

(* The medium is full, removed or refused.                                 *)
FailBackup(c) ==
  /\ Doing(c, "snapshot")
  /\ ~transaction
  /\ Done(c)
  /\ UnchangedVault

-----------------------------------------------------------------------------
(* Restoring one                                                           *)

(* Read, decrypted and compared with its checksums.                        *)
ReadArchive(c, name) ==
  /\ Ready(c)
  /\ name \in DOMAIN archives
  /\ Do(c, [op |-> "confirmed", archive |-> archives[name]])
  /\ UnchangedVault

(* The audit database is replaced, under a lock of its own.                *)
RestoreAudit(c) ==
  /\ Doing(c, "confirmed")
  /\ IF work[c].archive.hasVault
       THEN Do(c, [work[c] EXCEPT !.op = "audit"])
       ELSE Done(c)
  /\ UnchangedVault

RestoreDatabase(c) ==
  /\ Doing(c, "audit") /\ LockFree
  /\ ~transaction
  /\ rows' = RestoredRows(work[c].archive)
  /\ Do(c, [work[c] EXCEPT !.op = "database"])
  /\ UNCHANGED <<key, keyFile, transaction, archives, torn, foreign>>

(* write_bytes truncates the file before it writes.                        *)
TruncateKeyFile(c) ==
  /\ Doing(c, "database")
  /\ keyFile' = NoKey
  /\ Do(c, [work[c] EXCEPT !.op = "truncated"])
  /\ UNCHANGED <<rows, key, transaction, archives, torn, foreign>>

RestoreKey(c) ==
  /\ Doing(c, "truncated")
  /\ keyFile' = work[c].archive.key
  /\ key' = RestoredKey(work[c].archive)
  /\ torn' = FALSE
  /\ foreign' = work[c].archive.foreign
  /\ Done(c)
  /\ UNCHANGED <<rows, transaction, archives>>

(* A database cannot be replaced: the medium is full or fails, or an open  *)
(* transaction makes the destination busy.  The vault is as before.        *)
FailCopy(c) ==
  /\ \/ Doing(c, "confirmed")
     \/ Doing(c, "audit") /\ LockFree
  /\ Done(c)
  /\ UnchangedVault

(* The database is replaced and the key is not: its file cannot be opened, *)
(* nothing can be written to it, or its mode cannot be set.                *)
FailKey(c) ==
  /\ \/ Doing(c, "database") /\ UNCHANGED keyFile
     \/ Doing(c, "truncated") /\ keyFile' \in {keyFile, work[c].archive.key}
  /\ torn' = TRUE
  /\ Done(c)
  /\ UNCHANGED <<rows, key, transaction, archives, foreign>>

-----------------------------------------------------------------------------
(* The service stops, orderly or not, and starts again: the connection and *)
(* the threads are gone, the key is read from its file.                    *)
RestartVault ==
  /\ key' = keyFile
  /\ transaction' = FALSE
  /\ work' = [c \in Callers |-> Idle]
  /\ torn' = (torn \/ \E c \in Callers : HalfRestored(c))
  /\ UNCHANGED <<rows, keyFile, archives, foreign>>

(* The steps of a thread that has begun something                          *)
Resume(c) ==
  \/ EncryptDraft(c) \/ StoreRow(c)
  \/ FinishWrite(c) \/ FinishDelete(c) \/ FinishComparison(c)
  \/ TakeLockForSnapshot(c)
  \/ \E name \in Names : StoreArchive(c, name)
  \/ FailBackup(c)
  \/ RestoreAudit(c) \/ RestoreDatabase(c) \/ FailCopy(c)
  \/ TruncateKeyFile(c) \/ RestoreKey(c) \/ FailKey(c)

BackupNext ==
  \/ \E c \in Callers :
       \/ \E id \in Ids :
            \/ AddProfile(c, id)
            \/ \E op \in {"deleting", "marking", "preparing"} :
                 ReadProfile(c, id, op)
            \/ ReadDraft(c, id)
            \/ EncryptInventory(c, id)
            \/ DiscardDraft(c, id)
       \/ SnapshotAudit(c)
       \/ \E name \in Names : ReadArchive(c, name)
       \/ Resume(c)
  \/ RestartVault

(* A thread that can go on does.                                           *)
BackupSpec ==
  /\ BackupInit /\ [][BackupNext]_backupVars
  /\ \A c \in Callers : WF_backupVars(Resume(c))

-----------------------------------------------------------------------------
(* Whenever no copy is under way, the key in memory is the one the next    *)
(* start reads, and every row can be decrypted with it (profiles.py:389,   *)
(* 486-500): backups, restores, drafts, commits, deletions and restarts of *)
(* several threads leave key, file and rows together.  Two things excuse   *)
(* it: a restore that failed or was cut off after it had replaced the      *)
(* database, until one is completed, and a row that was encrypted before a *)
(* restore and stored after it, in this vault or in the restored one.      *)
VaultReadable ==
  LockFree /\ ~torn =>
    /\ key = keyFile
    /\ foreign \/ \A slot \in DOMAIN rows : rows[slot] = key

(* A thread that holds the lock of the vault gives it back: nothing it     *)
(* waits for while it holds it needs the lock (profiles.py:487-491).       *)
LockTaken == \E c \in Callers : HoldsLock(c)
LockReleased == LockTaken ~> ~LockTaken

(* The same of a thread that finds no transaction left open when it takes  *)
(* the lock: no other thread can open one while it copies, and a medium or *)
(* a file that fails does not keep the lock (profiles.py:487-500).         *)
LockReleasedIfCommitted == LockTaken /\ ~transaction ~> ~LockTaken

(* Only one thread at a time copies into or out of the vault.              *)
OneLockHolder == \A c, d \in Callers : HoldsLock(c) /\ HoldsLock(d) => c = d
=============================================================================

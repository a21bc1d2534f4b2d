---------------------------- MODULE ProfileVault ----------------------------
(***************************************************************************)
(* app/services/profiles.py: the encrypted profile vault.  One SQLite      *)
(* connection is shared by every request thread; self._lock makes a locked *)
(* section atomic, but prepare_change and delete_profile each use two of   *)
(* them, and what the first one read is used in the second.  An action is  *)
(* one locked section together with what its thread computes before the    *)
(* next one.  Each section commits once, at its end, so a crash falls      *)
(* between actions; the threads then lose their local variables.           *)
(*                                                                         *)
(* A caller that is refused (a missing profile, a duplicate, a conflict)   *)
(* changes nothing and is not a step.                                      *)
(***************************************************************************)
EXTENDS Integers, FiniteSets, Sequences, Tables

CONSTANTS
  Callers,        \* request threads inside the vault
  MaxProfileId,   \* bound on the primary key
  MaxRevision,    \* bound on a profile's revision number
  MaxImport,      \* bound on the rows of one CSV file
  LegacyIds,      \* profiles an older release may have left in the database
  Iccids, Imsis,
  Infos,          \* MSISDN, SPN, ACC, IMS and SUCI: readable from the card
  KeySets,        \* Ki and OPc: write-only on the card
  OtherForms,     \* fields a row may hold in another form than a request's
  Statuses,       \* inventory
  SuciKeys,       \* home-network keys: number (scheme and key id) and octets
  UsedKeys,       \* info -> the keys it uses: single fields, list, CSV numbers
  PreferredKey,   \* info -> the key a search finds in it, or NoSuciKey
  NoSuciKey,
  MaxSuciKeyId    \* bound on the primary key of the key table

ASSUME BoundsAssumption ==
  /\ MaxProfileId \in Nat \ {0}
  /\ MaxRevision \in Nat \ {0}
  /\ MaxImport \in Nat
  /\ LegacyIds \subseteq 1..MaxProfileId
  /\ MaxSuciKeyId \in Nat

(* A CSV file leaves numbers as strings and hex digits as they are typed;  *)
(* a card and a form give numbers and capitals.  An IMSI has one form.     *)
ASSUME FormsAssumption == OtherForms \subseteq {"info", "keys"}

VARIABLES
  profiles,    \* id -> [record, revision, verified]
  revisions,   \* <<id, revision>> -> [record, note]
  drafts,      \* id -> [record, changed, base]
  inventory,   \* id -> status
  suciKeys,    \* id -> [key, active]
  call         \* local variables of a caller between its two sections

vars == <<profiles, revisions, drafts, inventory, suciKeys, call>>

ProfileIds == 1..MaxProfileId
Revisions == 1..MaxRevision
Record == [iccid : Iccids, imsi : Imsis, info : Infos, keys : KeySets]
Fields == {"imsi", "info", "keys"}

(* The note of a version an older release stored: whatever that release    *)
(* wrote, or 'Bestehende Revision' when it had no notes or no history.     *)
Earlier == {"earlier"}

Idle == [op |-> "idle"]
Preparing == [op : {"prepare"}, id : ProfileIds, record : Record,
              changed : SUBSET Fields]
Deleting == [op : {"delete"}, id : ProfileIds, iccid : Iccids]

ProfileRow == [record : Record, revision : Revisions, verified : BOOLEAN]
HistoryRow == [record : Record, note : (SUBSET Fields) \cup {Earlier}]
DraftRow == [record : Record, changed : SUBSET Fields, base : Revisions]
SuciKeyIds == 1..MaxSuciKeyId
SuciKeyRow == [key : SuciKeys, active : BOOLEAN]

TypeOK ==
  /\ IsTable(profiles, ProfileIds, ProfileRow)
  /\ IsTable(revisions, ProfileIds \X Revisions, HistoryRow)
  /\ IsTable(drafts, ProfileIds, DraftRow)
  /\ IsTable(inventory, ProfileIds, Statuses)
  /\ IsTable(suciKeys, SuciKeyIds, SuciKeyRow)
  /\ call \in [Callers -> {Idle} \cup Preparing \cup Deleting]

-----------------------------------------------------------------------------
(* Rows and what the sections do to them                                   *)

(* id INTEGER PRIMARY KEY without AUTOINCREMENT: one above the largest id  *)
(* in the table, so the id of a deleted last profile is given out again.   *)
IsNextRow(table, n) ==
  /\ \A i \in DOMAIN table : i < n
  /\ n = 1 \/ n - 1 \in DOMAIN table

IsNextId(n) == n \in ProfileIds /\ IsNextRow(profiles, n)

NewProfile(record, verified) ==
  [record |-> record, revision |-> 1, verified |-> verified]

RevisionRow(record, note) == [record |-> record, note |-> note]

(* Mutant: the IMSI is forgotten when the changes are listed.              *)
ChangedButImsi(old, new) == {f \in {"info", "keys"} : old[f] # new[f]}

(* The fields in which two records differ; the ICCID is never proposed.    *)
ChangedFields(old, new) == {f \in Fields : old[f] # new[f]}

(* Mutant: the version is filed under the number of the one it replaces.   *)
WithPreviousNumber(id, revision, record, note) ==
  Put(revisions, <<id, revision - 1>>, RevisionRow(record, note))

(* INSERT INTO profile_revisions for the version a section makes active.   *)
WithRevision(id, revision, record, note) ==
  Put(revisions, <<id, revision>>, RevisionRow(record, note))

(* Mutants: a DELETE is missing.                                           *)
RevisionsKept(id) == revisions
DraftsKept(id) == drafts

RevisionsWithout(id) ==
  Restrict(revisions, {k \in DOMAIN revisions : k[1] # id})

DraftsWithout(id) == Drop(drafts, id)

(* Mutant: INSERT OR REPLACE.                                              *)
BackfilledOver(table, revs) ==
  PutAll(revs,
    [k \in {<<i, table[i].revision>> : i \in DOMAIN table} |->
       RevisionRow(table[k[1]].record, Earlier)])

(* INSERT OR IGNORE at every start: each profile's active version is in    *)
(* the history.                                                            *)
Backfilled(table, revs) ==
  PutMissing(revs,
    [k \in {<<i, table[i].revision>> : i \in DOMAIN table} |->
       RevisionRow(table[k[1]].record, Earlier)])

(* card_verified is added to the rows of an older release.  ALTER TABLE    *)
(* takes effect at once, the UPDATE after it with the commit at the end: a *)
(* start that is interrupted in between leaves the column at its default,  *)
(* and the next start finds the column there and skips the UPDATE.         *)
MigratedRow(row, interrupted) ==
  [record |-> row.record, revision |-> row.revision,
   verified |-> row.revision > 1 /\ ~interrupted]

(* Mutant: the check for a draft is missing.                               *)
NoPendingCheck(id) == TRUE

(* A draft blocks the adoption of card values.                             *)
NoPendingChange(id) == id \notin DOMAIN drafts

(* Mutant: any ICCID passes.                                               *)
AnyIccid(id, iccid) == TRUE

(* iccid_mismatch otherwise                                                *)
IsIccidOf(id, iccid) == profiles[id].record.iccid = iccid

(* A call of one section is over as it happens, and an idle thread makes   *)
(* it: with a single caller no call overlaps another.                      *)
SomeCallerIdle == \E c \in Callers : call[c] = Idle

(* The new active version of a profile, and its history row.               *)
Activate(id, record, note) ==
  LET revision == profiles[id].revision + 1
  IN  /\ revision \in Revisions                       \* bound
      /\ profiles' = Put(profiles, id,
            [record |-> record, revision |-> revision, verified |-> TRUE])
      /\ revisions' = WithRevision(id, revision, record, note)

-----------------------------------------------------------------------------
(* Start of the program                                                    *)

(* What the history of an older release holds below the active versions:   *)
(* all versions since the first it recorded, or none when it had no        *)
(* history table.                                                          *)
EarlierVersions(table, first) ==
  {k \in (DOMAIN table) \X Revisions :
     first[k[1]] <= k[2] /\ k[2] < table[k[1]].revision}

(* The database is new or an older release's.  Drafts, keys and inventory  *)
(* of an older release, and marks of one that had card_verified, are left  *)
(* to the calls below, which produce them over its profiles.               *)
Init ==
  /\ \E ids \in SUBSET LegacyIds :
       \E old \in [ids -> [record : Record, revision : Revisions]] :
         \E interrupted \in BOOLEAN :
           profiles = [i \in ids |-> MigratedRow(old[i], interrupted)]
  /\ \E first \in [DOMAIN profiles -> Revisions] :
       \E past \in [EarlierVersions(profiles, first) -> Record] :
         /\ \A k \in DOMAIN past : past[k].iccid = profiles[k[1]].record.iccid
         /\ revisions = Backfilled(profiles,
              [k \in DOMAIN past |-> RevisionRow(past[k], Earlier)])
  /\ drafts = EmptyTable
  /\ inventory = EmptyTable
  /\ suciKeys = EmptyTable
  /\ call = [c \in Callers |-> Idle]

(* A crash or restart of the process, which opens the database again.      *)
Restart ==
  /\ revisions' = Backfilled(profiles, revisions)
  /\ call' = [c \in Callers |-> Idle]
  /\ UNCHANGED <<profiles, drafts, inventory, suciKeys>>

-----------------------------------------------------------------------------
(* Entry of profiles                                                       *)

(* A CSV row is a duplicate when its ICCID and IMSI are both those of a    *)
(* stored profile; a file holds no ICCID or IMSI twice.                    *)
ImportCsv(rows) ==
  /\ SomeCallerIdle
  /\ \A i \in DOMAIN profiles, r \in DOMAIN rows :
       \/ profiles[i].record.iccid # rows[r].iccid
       \/ profiles[i].record.imsi # rows[r].imsi
  /\ \A r, s \in DOMAIN rows :
       r # s => rows[r].iccid # rows[s].iccid /\ rows[r].imsi # rows[s].imsi
  /\ \E n \in ProfileIds :
       /\ IsNextId(n)
       /\ n + Len(rows) - 1 \in ProfileIds
       /\ LET ids == n..(n + Len(rows) - 1)
          IN  /\ profiles' = PutAll(profiles,
                   [i \in ids |-> NewProfile(rows[i - n + 1], FALSE)])
              /\ revisions' = PutAll(revisions,
                   [k \in ids \X {1} |-> RevisionRow(rows[k[1] - n + 1], {})])
  /\ UNCHANGED <<drafts, inventory, suciKeys, call>>

AddProfile(record, verified) ==
  /\ SomeCallerIdle
  /\ \A i \in DOMAIN profiles : profiles[i].record.iccid # record.iccid
  /\ \E n \in ProfileIds :
       /\ IsNextId(n)
       /\ profiles' = Put(profiles, n, NewProfile(record, verified))
       /\ revisions' = WithRevision(n, 1, record, {})
  /\ UNCHANGED <<drafts, inventory, suciKeys, call>>

-----------------------------------------------------------------------------
(* What a read card tells about a profile                                  *)

MarkCardVerified(id) ==
  /\ SomeCallerIdle
  /\ id \in DOMAIN profiles
  /\ profiles' = [profiles EXCEPT ![id].verified = TRUE]
  /\ UNCHANGED <<revisions, drafts, inventory, suciKeys, call>>

AdoptCardImsi(id, iccid, imsi) ==
  /\ SomeCallerIdle
  /\ id \in DOMAIN profiles
  /\ NoPendingChange(id)
  /\ IsIccidOf(id, iccid)
  /\ profiles[id].record.imsi # imsi
  /\ Activate(id, [profiles[id].record EXCEPT !.imsi = imsi], {"imsi"})
  /\ UNCHANGED <<drafts, inventory, suciKeys, call>>

(* The stored forms are compared, and when one SUCI field differs all four *)
(* are adopted: what counts as adopted may already have its value.         *)
AdoptReadableFields(id, iccid, info) ==
  /\ SomeCallerIdle
  /\ id \in DOMAIN profiles
  /\ NoPendingChange(id)
  /\ IsIccidOf(id, iccid)
  /\ profiles[id].record.info # info \/ "info" \in OtherForms
  /\ Activate(id, [profiles[id].record EXCEPT !.info = info], {"info"})
  /\ UNCHANGED <<drafts, inventory, suciKeys, call>>

-----------------------------------------------------------------------------
(* Change drafts                                                           *)

(* prepare_change, first section: the stored record is read, the proposed  *)
(* values are laid over it (ICCID and ADM1 are not among them) and the     *)
(* list of changed fields is computed, from the stored forms: a field that *)
(* is only restated in another form counts as changed.                     *)
BeginPrepare(c, id, imsi, info, keys) ==
  /\ call[c] = Idle
  /\ id \in DOMAIN profiles
  /\ LET current == profiles[id].record
         updated == [current EXCEPT !.imsi = imsi, !.info = info, !.keys = keys]
     IN  \E restated \in SUBSET OtherForms :
           LET changed == ChangedFields(current, updated) \cup restated
           IN  /\ changed # {}
               /\ call' = [call EXCEPT ![c] =
                     [op |-> "prepare", id |-> id, record |-> updated,
                      changed |-> changed]]
  /\ UNCHANGED <<profiles, revisions, drafts, inventory, suciKeys>>

(* prepare_change, second section: the record of the first one is stored   *)
(* as the draft, on the revision that is active now.                       *)
StoreDraft(c) ==
  /\ call[c].op = "prepare"
  /\ LET id == call[c].id
     IN  /\ id \in DOMAIN profiles
         /\ drafts' = Put(drafts, id,
              [record |-> call[c].record, changed |-> call[c].changed,
               base |-> profiles[id].revision])
  /\ call' = [call EXCEPT ![c] = Idle]
  /\ UNCHANGED <<profiles, revisions, inventory, suciKeys>>

DiscardChange(id) ==
  /\ SomeCallerIdle
  /\ id \in DOMAIN profiles
  /\ drafts' = DraftsWithout(id)
  /\ UNCHANGED <<profiles, revisions, inventory, suciKeys, call>>

CommitChange(id, expected) ==
  /\ SomeCallerIdle
  /\ id \in DOMAIN drafts \cap DOMAIN profiles
  /\ drafts[id].base = expected
  /\ profiles[id].revision = expected
  /\ Activate(id, drafts[id].record, drafts[id].changed)
  /\ drafts' = DraftsWithout(id)
  /\ UNCHANGED <<inventory, suciKeys, call>>

-----------------------------------------------------------------------------
(* Inventory and deletion                                                  *)

SetInventory(id, status) ==
  /\ SomeCallerIdle
  /\ id \in DOMAIN profiles
  /\ inventory' = Put(inventory, id, status)
  /\ UNCHANGED <<profiles, revisions, drafts, suciKeys, call>>

(* delete_profile, first section: the typed ICCID is compared.             *)
BeginDelete(c, id, iccid) ==
  /\ call[c] = Idle
  /\ id \in DOMAIN profiles
  /\ IsIccidOf(id, iccid)
  /\ call' = [call EXCEPT ![c] = [op |-> "delete", id |-> id, iccid |-> iccid]]
  /\ UNCHANGED <<profiles, revisions, drafts, inventory, suciKeys>>

(* delete_profile, second section: everything under the id goes.           *)
FinishDelete(c) ==
  /\ call[c].op = "delete"
  /\ LET id == call[c].id
     IN  /\ id \in DOMAIN profiles
         /\ inventory' = Drop(inventory, id)
         /\ drafts' = DraftsWithout(id)
         /\ revisions' = RevisionsWithout(id)
         /\ profiles' = Drop(profiles, id)
  /\ call' = [call EXCEPT ![c] = Idle]
  /\ UNCHANGED suciKeys

(* The second section finds its profile gone: TypeError or KeyError.       *)
FailSecondSection(c) ==
  /\ call[c] # Idle
  /\ call[c].id \notin DOMAIN profiles
  /\ call' = [call EXCEPT ![c] = Idle]
  /\ UNCHANGED <<profiles, revisions, drafts, inventory, suciKeys>>

-----------------------------------------------------------------------------
(* Home-network keys                                                       *)

(* Every version and every draft is decrypted and its single fields are    *)
(* compared.  The active rows are not looked at; the later entries of a    *)
(* priority list and numbers that a CSV file left as strings are missed.   *)
SuciKeyInUse(key) ==
  \/ \E k \in DOMAIN revisions : PreferredKey[revisions[k].record.info] = key
  \/ \E id \in DOMAIN drafts : PreferredKey[drafts[id].record.info] = key

(* duplicate_key_id or duplicate_key otherwise                             *)
ImportSuciKey(key) ==
  /\ SomeCallerIdle
  /\ \A i \in DOMAIN suciKeys :
       /\ suciKeys[i].key.number # key.number
       /\ suciKeys[i].key.octets # key.octets
  /\ \E n \in SuciKeyIds :
       /\ IsNextRow(suciKeys, n)
       /\ suciKeys' = Put(suciKeys, n, [key |-> key, active |-> TRUE])
  /\ UNCHANGED <<profiles, revisions, drafts, inventory, call>>

SetSuciKeyActive(id, active) ==
  /\ SomeCallerIdle
  /\ id \in DOMAIN suciKeys
  /\ suciKeys' = [suciKeys EXCEPT ![id].active = active]
  /\ UNCHANGED <<profiles, revisions, drafts, inventory, call>>

(* key_in_use otherwise                                                    *)
DeleteSuciKey(id) ==
  /\ SomeCallerIdle
  /\ id \in DOMAIN suciKeys
  /\ ~SuciKeyInUse(suciKeys[id].key)
  /\ suciKeys' = Drop(suciKeys, id)
  /\ UNCHANGED <<profiles, revisions, drafts, inventory, call>>

SuciKeyCall ==
  \/ \E key \in SuciKeys : ImportSuciKey(key)
  \/ \E id \in SuciKeyIds :
       \/ \E active \in BOOLEAN : SetSuciKeyActive(id, active)
       \/ DeleteSuciKey(id)

-----------------------------------------------------------------------------
AtomicCall ==
  \/ \E n \in 1..MaxImport : \E rows \in [1..n -> Record] : ImportCsv(rows)
  \/ \E record \in Record, verified \in BOOLEAN : AddProfile(record, verified)
  \/ \E id \in ProfileIds :
       \/ MarkCardVerified(id)
       \/ \E iccid \in Iccids, imsi \in Imsis : AdoptCardImsi(id, iccid, imsi)
       \/ \E iccid \in Iccids, info \in Infos : AdoptReadableFields(id, iccid, info)
       \/ DiscardChange(id)
       \/ \E expected \in Revisions : CommitChange(id, expected)
       \/ \E status \in Statuses : SetInventory(id, status)
  \/ SuciKeyCall

TwoSectionCall(c) ==
  \/ \E id \in ProfileIds, imsi \in Imsis, info \in Infos, keys \in KeySets :
       BeginPrepare(c, id, imsi, info, keys)
  \/ StoreDraft(c)
  \/ \E id \in ProfileIds, iccid \in Iccids : BeginDelete(c, id, iccid)
  \/ FinishDelete(c)
  \/ FailSecondSection(c)

Next == AtomicCall \/ Restart \/ \E c \in Callers : TwoSectionCall(c)

Spec == Init /\ [][Next]_vars
-----------------------------------------------------------------------------
(* Correctness                                                             *)

(* The foreign keys of the schema are declared but never enabled, so only  *)
(* the code keeps the tables together: no draft, history or inventory row  *)
(* outlives its profile, to be inherited by the next holder of the id.     *)
NoOrphanRows ==
  /\ DOMAIN drafts \subseteq DOMAIN profiles
  /\ DOMAIN inventory \subseteq DOMAIN profiles
  /\ \A k \in DOMAIN revisions : k[1] \in DOMAIN profiles

RevisionsOf(id) == {k[2] : k \in {j \in DOMAIN revisions : j[1] = id}}

(* The history of a profile has no gap and ends with its active version,   *)
(* whatever mix of imports, adoptions, commits and restarts produced it.   *)
HistoryEndsInActive ==
  \A id \in DOMAIN profiles :
    LET active == profiles[id].revision
    IN  /\ \E first \in 1..active : RevisionsOf(id) = first..active
        /\ revisions[<<id, active>>].record = profiles[id].record

(* A stored draft can always be committed: its base is the active          *)
(* revision, since nothing makes a new revision under a pending draft and  *)
(* leaves the draft behind.                                                *)
DraftBaseIsActive ==
  \A id \in DOMAIN drafts :
    id \in DOMAIN profiles /\ drafts[id].base = profiles[id].revision

(* The versions a profile can be traced back through.                      *)
Versions ==
  [id \in DOMAIN profiles |-> [n \in RevisionsOf(id) |-> revisions[<<id, n>>]]]

(* What the history rows and the active profiles amount to is a store of   *)
(* versions: nothing rewrites, skips or drops a version.                   *)
Store == INSTANCE VersionedStore WITH history <- Versions
ImplementsVersionedStore == Store!Spec

(* An ICCID is unchangeable once its profile is in the vault, whatever     *)
(* drafts were prepared and committed under its id.                        *)
IccidImmutable ==
  [][\A id \in DOMAIN profiles \cap DOMAIN profiles' :
       profiles'[id].record.iccid = profiles[id].record.iccid]_vars

(* A profile disappears only in a deletion whose caller typed its ICCID.   *)
DeletionConfirmed ==
  [][\A id \in DOMAIN profiles \ DOMAIN profiles' :
       \E c \in Callers : /\ call[c].op = "delete"
                          /\ call[c].id = id
                          /\ call[c].iccid = profiles[id].record.iccid]_vars

(* A used key can be deactivated but not deleted (docs/user-guide.md:92):  *)
(* a key leaves the table only when no stored profile, no version it can   *)
(* be traced to and no draft waiting to be written uses it.                *)
UsedKeyStays ==
  [][\A i \in DOMAIN suciKeys \ DOMAIN suciKeys' :
       LET key == suciKeys[i].key
       IN  /\ \A id \in DOMAIN profiles : key \notin UsedKeys[profiles[id].record.info]
           /\ \A k \in DOMAIN revisions : key \notin UsedKeys[revisions[k].record.info]
           /\ \A id \in DOMAIN drafts : key \notin UsedKeys[drafts[id].record.info]]_vars

(* The note of a history row that this program wrote names every field in  *)
(* which the version differs from the one before.                          *)
NotesNameEveryChange ==
  \A k \in DOMAIN revisions :
    LET previous == <<k[1], k[2] - 1>>
    IN  previous \in DOMAIN revisions /\ revisions[k].note # Earlier =>
          {f \in Fields : revisions[k].record[f] # revisions[previous].record[f]}
            \subseteq revisions[k].note
=============================================================================

# SIM-Admin in TLA+

SIM-Admin keeps subscriber profiles (IMSI, Ki, OPc, ADM1, IMS and SUCI data) of
SIM cards in an encrypted vault, compares them with cards in a PC/SC reader and
writes prepared changes to the cards. It is one FastAPI process; its endpoints
are synchronous functions, so Starlette runs every request in a thread of its
pool, and all threads share one instance of each service
(`src/app/core/dependencies.py`).

This directory holds a model of it, the TLC configurations that check the model
on small instances, and TLAPS proofs about it for all values of the constants.

    tlc -workers 2 -config vault_concurrent.cfg MCProfileVault.tla
    tlapm ProfileVaultProofs.tla

## 1. Inventory

| component | state | operations | what makes it correct |
|---|---|---|---|
| Profile vault, `app/services/profiles.py` | SQLite tables profiles, profile_revisions, profile_change_drafts, profile_inventory, suci_keys; the AES key, in a file and in memory | import, single entry, mark verified, adopt IMSI or readable fields, prepare / discard / commit a change, inventory, delete, SUCI keys, snapshot, restore, migration at start | rows of the tables belong together; the history is complete and truthful; ICCID never changes; deletion only when confirmed; every row can be decrypted |
| Provisioning services, `app/services/provisioning.py` | none | preview, comparison with the card, `ProfileWriteService.execute` | a revision becomes active only after its complete write |
| Endpoints, `app/api/router.py` | local variables of a request | about thirty, each calling vault, card, password check and audit trail in turn | what was read in one step still fits when it is used in a later one; each request ends |
| Card adapters and bridges, `app/adapters/` | a lock per adapter; the files of the cards | read identity, write and verify fields in a subprocess with a time limit | only the expected card is written, one write at a time, the lock comes back |
| Authentication, `app/core/auth.py` | failed attempts per client (memory), password hash (file) | login, password change, sessions | at most five failures in a window; a correct login is possible again later |
| Audit trail and backup, `app/services/audit.py`, `backup.py` | audit database; archives on removable media | record, list; create, inspect, restore | an archive restores to a consistent, decryptable vault |
| CSV check and models, `app/services/imports.py`, `app/models/` | none | parse and validate | no duplicates in a file, legal field values |
| SUCI encoding, `app/adapters/suci.py` | none | build and read SUCI_Calc_Info, services 124/125 | what is built reads back the same |
| Start and wiring, `app/core/dependencies.py`, `main.py` | cached instances | make a service when a request first needs it | one vault, with the key of its file |
| Installer and update, `scripts/` | directories, service units, release archive | preflight, install, cleanup; verify, inspect an update | what is enabled is complete; a failed attempt does not block the next one; a finished installation is not touched |
| Web pages, `app/frontend/` | browser state | forms and lists | left aside |

How the parts meet: endpoints call the vault (one lock, `ProfileVaultService._lock`,
held for one *section* at a time), the adapters (one for reads, another for
writes, each with its own lock) and the audit trail. No lock is held from one call to
the next. Cards are changed by people at any time.

What is hard here: `prepare_change` and `delete_profile` use the lock twice and
carry what they read from the first section to the second; ids of deleted
profiles are given out again; a write to a card takes seconds and can stop
half-way; the vault, the audit trail, the key file and the card are four stores
that no transaction spans; the process can be restarted between any two
sections. `PROJECT.json` lists every hazard with its line.

## 2. Modules

| module | role |
|---|---|
| `Tables` | SQL tables as functions, and the statements used on them |
| `ProfileVault` | the vault; one action per locked section |
| `VersionedStore` | abstract: profiles with gapless histories that are never rewritten |
| `CardChanges` | abstract: a profile and its card, and what a prepared change may do to the two |
| `Provisioning` | EXTENDS `ProfileVault`: cards, reader, the writing adapter, endpoints step by step |
| `Login` | attempts to log in and password changes, with time as ages |
| `Backup` | archives, restore in its steps, and the calls of the vault that overlap with it |
| `SuciFiles` | SUCI_Calc_Info and the services 124/125: what is built and what is read back |
| `CardWrite` | EXTENDS `SuciFiles`, `Tables`: one profile, its card and the write bridge, file by file |
| `Installer` | the installation command by command, its failures, its cleanup and further attempts |
| `FirstUse` | EXTENDS `Installer`: the service it enabled, the vault and the key it makes when they are first needed |
| `MCProfileVault`, `MCProvisioning`, `MCLogin`, `MCCardWrite` | symmetry sets and constants for TLC |
| `TablesLemmas`, `ProfileVaultProofs`, `VersionedStoreProofs`, `ProvisioningProofs`, `LoginProofs`, `BackupProofs`, `FirstUseProofs`, `CardWriteProofs` | theorems |

`Provisioning` composes the vault with cards, reader and endpoints, for requests that
overlap and cards that are exchanged; a write there takes the files in any order. `CardWrite`
looks into that write: one request at a time, one card, the order of the bridge. Both implement `CardChanges`, each under a
mapping of its own, so what the two say about a card is the same promise at two levels of detail. `Login` and
`Backup` stand alone: the password check shares no state with the others, and
`Backup` keeps of the vault only the key of each row, so that restores and
threads that carry an old key stay small enough to check. `FirstUse` puts the running service
beside the installer that enables and removes it.

### ProfileVault

`profiles`, `revisions`, `drafts`, `inventory` and `suciKeys` are the tables, `call` the local
variables of the threads that are between two sections. A record has four parts:
`iccid`, `imsi`, `info` (everything that can be read from a card and adopted: MSISDN, SPN, ACC,
IMS, SUCI) and `keys` (Ki and OPc, which a card does not give back). ADM1 is
treated as part of the ICCID, since no operation proposes either. Notes are
the set of the parts they name. Timestamps and ciphertexts are left out.

`prepare_change` (line 382) and `adopt_readable_card_fields` (lines 201-216) compare *stored forms*: numbers of a CSV
file are strings, hex digits may be typed in small letters, and when one SUCI field differs all four are taken over and
named. So a draft or an adoption may name a part that has its value already. `OtherForms` are the parts of which
that can happen (`BeginPrepare` adds any of them to the changed ones, `AdoptReadableFields` needs no difference in `info` then); an IMSI has one form only.
`CardWrite` looks at the SUCI forms themselves. That a note names *no more* than what changed is therefore not claimed.

| action | code in `profiles.py` |
|---|---|
| `Init`, `Restart` | the constructor: tables are created, rows of an older release migrated, the history backfilled |
| `ImportCsv`, `AddProfile` | `import_csv`, `add_profile` |
| `MarkCardVerified`, `AdoptCardImsi`, `AdoptReadableFields` | the methods of these names |
| `BeginPrepare`, `StoreDraft` | the two sections of `prepare_change` |
| `DiscardChange`, `CommitChange`, `SetInventory` | the methods of these names |
| `BeginDelete`, `FinishDelete` | the two sections of `delete_profile` |
| `FailSecondSection` | a second section finds the profile gone and raises |
| `ImportSuciKey`, `SetSuciKeyActive`, `DeleteSuciKey` | the methods of these names; `SuciKeyInUse` is `_suci_key_in_use_unlocked` |

A home-network key has a number (scheme and key id) and octets. `UsedKeys` gives the keys that a profile's SUCI data use, wherever
they stand; `PreferredKey` the one that the search of the code finds: the one in the single fields, as numbers. Nothing ties a profile to a row of the key table but this comparison of values, so a
key that is named need not be in the table, and a row may be entered for a key that is named already.

A crash falls between sections, because each commits once, at its end. The
constructor is the exception: `ALTER TABLE` is durable at once, so `Init` includes
the vault whose migration was interrupted (`interrupted` in `Init`), whose revised profiles stay unmarked for good. A refused call changes
nothing and is not a step. The database an older release left may have a history or none
(`EarlierVersions`): all versions since the first one recorded, with notes of that release, which `Earlier` stands for.
The ICCID is the same in all versions of a profile.

### Provisioning

`cards` are the files of all cards, `inserted` is the card in the reader, `adapter` the
thread that holds the writing adapter's lock, `request` the local variables of the
endpoints; `seen` is a history variable that only `VerifiedWasInReader` reads.

| request | steps |
|---|---|
| comparison (stored profile or draft) | `ReadProfile`, `CompareCard`, `MarkVerified` |
| adoption | `ReadCardToAdopt`, `AdoptImsi` or `AdoptInfo` |
| single entry with card | `CheckNewCard`, `AddChecked` |
| write | `ReadSummary`, `ReadDraft`, `StartBridge`, `WriteField`*, `BridgeAnswers`, `Commit`; `BridgeFails` at any point of the write |
| import, entry without card, prepare, discard, inventory, delete, home-network keys | `VaultRequest` |
| errors | `Refused`, with the conditions of the card and of the vault |

A read of a card is one step, since its result is used only after it ended.
`WriteField` writes one file and reads it back; `BridgeFails` covers a failed
verification, a removed card, a protocol error and the time limit. The
subprocess dies with the service. The password check in front of an
endpoint is in `Login`; the audit record behind it is not modelled.

### CardChanges

`stored` has the contents of each profile and the card it belongs to, `wanted` the parts that its prepared change gives new
contents, `held` the contents of the cards. There are no requests, stages or failures: `Write` may put anything into the parts that the prepared
change names and into no other; `Accept` needs the whole change on the card and takes over exactly that; `Learn` takes over what was read,
while nothing is prepared.

| step | in `Provisioning` | in `CardWrite` |
|---|---|---|
| `Enter`, `Remove` | imports and entries, `FinishDelete` | |
| `Prepare`, `Withdraw` | `StoreDraft`, `DiscardChange` | `Prepare`, `Discard` |
| `Write` | `WriteField` | the four `Write` actions, and `BridgeFails` with a file that is cut off |
| `Accept` | `Commit` | `Commit` |
| `Learn` | `AdoptImsi`, `AdoptInfo` | `AdoptReadableFields` |

`Provisioning` maps the tables and cards as they are; its parts are the four of a record. The parts of `CardWrite` are the
files of the card. A profile knows those that it stores as one value; the services and the two SUCI files are computed from
several of its fields, so they are parts of a prepared change and of a card only. Routing indicators are mapped with their leading
zeros, as the card returns them.

What the two models say of single steps follows from this: `NewRevisionIsOnCard` and `CommittedIsOnCard`, that a version becomes active
only while the card has its new values, are theorems, and no run repeats them; `requests_replaced_draft` shows how the first one fails with two threads.

### CardWrite and SuciFiles

`active`, `revision` and `draft` are the profile in the vault, `card` the contents of the files,
`lacking` what this card does not have, `bridge` the set of the stages that the subprocess has still to pass, of which
the first in the order of `Stages` is next (`At`); it begins as `Program`, the stages that the changed fields involve. `Feasible` is what a stage needs
of the draft and the card; the two are the whole guard of every action of the bridge. A home-network key stands for
protection scheme, key id and octets together. `Record.list` is the priority list as stored;
`Effective` is the record as `ProvisioningDraft` hands it to its readers. `Record.form` says how the single SUCI fields
are stored: as strings (`text`, from a CSV file), as numbers with `""` for what is absent (`form`), or with
`None` for it (`card`); both `prepare_change` and the adoption compare stored values, each in its own way.

| action | code |
|---|---|
| `Prepare`, `Discard` | `prepare_change`, `discard_change` |
| `AdoptReadableFields` | the endpoint and `adopt_readable_card_fields`, for any selection of fields |
| `StartWrite`, `Commit` | `ProfileWriteService.execute` before and after the adapter, `commit_change` |
| `Check`, `Preflight` | `pysim_write_bridge.py` lines 29-48 and 50-82 |
| `WritePlain`, `WriteRouting`, `WriteCalcInfo`, `WriteServices` | lines 85-166, 167-174, 175-180, 181-186 |
| `BridgeFails` | an error, the time limit, a removed card or a stop at any stage; SUCI_Calc_Info may be cut off in the middle |

`SuciReadable`, `CardConfigurations` and `SuciMatches` are the read bridge and the comparison.
Three things narrow `ComparisonConfirmsWrite`, all in the code: a routing indicator of fewer than four digits
is reported with leading zeros and never compares equal; the list goes to the bridge
only when it or the mode changed, or the mode is `usim`; and the comparison reads the routing indicator even when the
write did not need its file, so a card without that file can be written but not compared.
The entries of a list are put in order by counting: the place of an entry is the number of those whose priority is not
larger, which for unique priorities is what `sorted` returns.

### Installer and FirstUse

`files` says of each artefact whether it is absent, there in part or whole; `stage` and `next` are the position of the script in
its `Program` or in `CleanupProgram` (`cleaned` after a cleanup that came to its end); `enabled` is what systemd starts, now and at the next boot; `tested` that the
tests passed on these files.

| action | code in `install.sh` |
|---|---|
| `Begin`, `Refuse` | the checks, with the search for an existing installation (line 94) |
| `RefusePassword`, `AcceptPassword` | the questions; only then the exit trap is set |
| `MakeFile`, `PassTests`, `EnableServices`, `Finish` | lines 120-203, one command after the other; the two copies through a pipe of two `tar`s (`Piped`) may arrive in part without an error, as the script sets no `pipefail` |
| `Fail` | `set -e` or a signal in a command that was done in part: the trap runs |
| `DisableServices`, `Remove`, `RemoveTlsDirectory`, `FinishCleanup` | `cleanup_failed_install` |
| `Kill` | SIGKILL or power, anywhere; in the cleanup also a failing `rm`, as the traps are gone |

`FirstUse` adds the service: `vault` is the key of the instance that `lru_cache` keeps, `opening` how far a thread is in
the constructor or which instance it works with, `keyFile`, `temporary` and `rows` what lies below the directory of the application.

| action | code |
|---|---|
| `AskForVault`, `UseCachedVault` | `get_profile_vault_service` without and with a cached instance |
| `CreateTemporary`, `FailToCreate`, `WriteTemporary`, `ReplaceKeyFile`, `ReadKey` | `_load_or_create_key`, between its calls of the file system |
| `EndRequest` | a profile is entered, after all rows were decrypted, or something else is done |
| `RestartService` | the process ends and systemd starts it again |
| `InstallerStep` | a step of the installer; data go with the application (`DataFollows`), the service stops when it is disabled (`ServiceFollows`) |

### Login

`failures` are the deques of the clients, as ages; `password` is the
credential file; `attempt` the local variables of the threads. `AuthService`
has no lock.

| action | code in `auth.py` |
|---|---|
| `Admit`, `Refuse` | `verify_login` up to the limit of five: expired failures leave from the front |
| `CheckPassword` | `_verify_password`: the file is read, scrypt takes long |
| `CountFailure`, `Succeed` | the end of `verify_login`: append, or clear |
| `ReplacePassword` | `change_password` after the check; `_write_password_hash` |
| `Tick`, `RestartService` | `time.time`; failures are only in memory |

A failure carries the time at which its attempt *began*, so deques need not be
ordered; `Pops` is the loop that stops at the first failure that still counts.
Session cookies are signed values with an expiry and leave no state behind.

### Backup

`rows` gives for each row of the profile, draft and inventory tables the key it
is encrypted with; `key` and `keyFile` are the key in memory and in its file,
`transaction` says that the vault's connection has a transaction open between
two sections, `archives` what is on the medium. Two history variables say when the vault may be inconsistent, and
nothing is decided by them: `torn`, a restore failed or was cut off after it had replaced the
database and before the key, and none has been completed since; `foreign`, a row was stored that had been
encrypted before a restore changed the key. Both go into the archives that are made of such a vault, and come back with them.
The contents of the audit database are not kept: a restore that replaces it and then fails leaves it newer or older than the vault, which no property says.

| action | code |
|---|---|
| `SnapshotAudit`, `TakeLockForSnapshot`, `StoreArchive`, `FailBackup` | `backup.py` `create`, `audit.py` and `profiles.py` `snapshot` |
| `ReadArchive`, `RestoreAudit`, `RestoreDatabase`, `TruncateKeyFile`, `RestoreKey` | `backup.py` `restore`, `audit.py` and `profiles.py` `restore` |
| `FailCopy`, `FailKey` | the same, when a file cannot be written, the medium is full or a transaction is open: before the vault's database is replaced, or between it and the key |
| `ReadProfile`, then `EncryptDraft` and `StoreRow`, `FinishDelete`, or `FinishComparison` | `prepare_change`, `delete_profile`, a comparison |
| `EncryptInventory`, `StoreRow` | `set_inventory` |
| `ReadDraft`, `FinishWrite` | a write to a card, and `commit_change` |
| `AddProfile`, `DiscardDraft` | `import_csv` and `add_profile`, `discard_change` |
| `AbandonTransaction` | `KeyError` behind an UPDATE or DELETE that matched no row (lines 144, 242) |
| `RestartVault` | the constructor reads the key; threads and transaction are gone |

How sqlite3 behaves when a transaction is open was taken from its `backup`
method: as source of a copy the connection is waited for, without end; as
destination it makes the copy fail.

## 3. Runs

| run | instance | what it shows |
|---|---|---|
| `vault_concurrent` | 2 threads, 1 id, revisions 1..3, 2 ICCIDs, 2 IMSIs, 2 infos that may be restated, 1 home-network key, a profile of an older release with none, some or all of its history | types; no orphan rows; the history ends in the active version; drafts stay committable; refinement of `VersionedStore` |
| `suci_key_deleted` | 1 thread, 1 profile, 1 home-network key in a later entry of its list | **violated**: the key is in use and deleted (`profiles.py:329`) |
| `requests_serial` | 1 thread, 1 id, revisions 1..3, 2 cards, 2 infos | refinement of `CardChanges`, so new revisions are on the card; cards only get draft values; verified cards were in the reader; notes name every change; ICCIDs never change, also when the id is given out again; only the confirmed profile is deleted; requests end |
| `requests_concurrent` | 2 threads, 1 card, an info that may be restated in another form | types; one writer; the adapter is released |
| `requests_replaced_draft` | 2 threads, 1 card, 2 key sets | **violated**: a draft that was never written becomes active (`provisioning.py:255`) |
| `card_write` | 1 profile, revisions 1..3, 3 entered and 6 requested records, one of 6 defects of the card | refinement of `CardChanges`, both copies of the keys included; what is committed compares equal; preflights precede every change; the services only move to a complete file; a failed write can be repeated; drafts name only changes and an adoption leaves nothing to be adopted, in every form of the stored values |
| `suci_adopted` | the same, with a card whose second SUCI file needs ADM1 | **violated**: an adoption leaves list and mode behind (`profiles.py:212`) |
| `first_use` | 12 artefacts, 14 commands, 2 threads, 3 keys | enabled services are complete and tested; a finished installation stays; its key file opens every row |
| `install_blocked` | the same installer, without the service | **violated**: key and certificate stay, and the next attempt is refused (`install.sh:109`, `94`) |
| `login` | 2 threads, 1 client, 2 passwords, limit 3, window 2 | types; a bound on the failures under overlapping attempts; lockouts end |
| `restores` | 2 threads, 1 id, 3 tables, 1 archive name, room for 2 rows | types; one copy at a time; key, key file and rows fit after any backups, restores, failures and restarts; the lock comes back when no transaction was left open |
| `backup_hangs` | the same, room for 3 rows | **violated**: a transaction left open makes a backup wait for ever, with the lock held (`profiles.py:144`, `242`, `489`) |

**Bounds.** In the vault, `MaxProfileId`, `MaxRevision` and `MaxImport` are the only bounds; the
guards name them. `Login` needs none: an age stops growing once it is expired, and
`GuessesBounded` bounds the deques. `MaxSuciKeyId` bounds the key table; it is 1 in `vault_concurrent` and `suci_key_deleted` and 0 in the other runs. `Limit` and `Window` are 3 and 2 in place of 5 and
300 seconds: two threads can exceed a limit of 3 by one, and with a window of 2
failures of three different ages meet in a deque. `FirstUse` has only `Keys`: at most two keys are in use at a time, one in the file and one that is about to replace it. `Backup` has `MaxRows`, the rows the vault has room for: with one profile, two of the three rows
that can belong to it at a time suffice for a row under each key (profile and draft, or profile and inventory), and
one name for an archive of this installation, which takes the place of the foreign one. One id suffices, since keys and not profiles are told
apart. One id of a profile is enough for its reuse, while a thread or a row may still have it; its
two possible ICCIDs tell the former holder from the present one. That other profiles beside it, and files of several rows,
make no difference is left to the proofs, which cover every property of `vault_concurrent`. Two
revisions suffice for one commit or adoption on a stale base, three for a history in
which a reverted value is visible. Two threads suffice for every race listed: each is
between one thread in its two sections and one other. `vault_concurrent` and `suci_key_deleted` turn the
deadlock check off, as the bounds stop the vault, and so do `card_write` and `suci_adopted`; in the `requests_*` runs
the card can always be exchanged.

The records of `card_write` are chosen so that a draft changes plain, authentication, routing and SUCI files at once and
moves between both modes, one and two configurations, short and absent routing indicators; a card has one defect at most,
since the first one met ends a write. A card on which the file below DF.SAIP cannot
be read without ADM1 (`saip_read`) only takes comparisons and adoptions away from those of a card without defects.

**What holds only for one request at a time.** `NotesNameEveryChange`,
`IccidImmutable`, `DeletionConfirmed`, `NewRevisionIsOnCard`,
`WritesComeFromDraft`, `VerifiedWasInReader` and, in `Provisioning`, `ImplementsCardChanges` relate what a request read to what it
does later. They hold when requests
do not overlap; `requests_replaced_draft` shows what overlapping ones do to one of
them. The others fail with two threads too: `prepare_change` puts a record that it read before another thread's
commit on the revision made by that commit, which reverts a field its note does not name (`profiles.py:391`), an id is
deleted and reused, or a draft replaced, between two steps.
The properties of `vault_concurrent`, `requests_concurrent`, `restores` and `login` need no such restriction.

**What the properties excuse.** `VaultReadable` excuses what the code does get wrong: a restore that fails or is cut off between
database and key leaves a database without its key, or an empty key file (`torn`), and a row encrypted before a restore and stored after
it can no longer be decrypted (`foreign`; `profiles.py:252`, `389`). What it says is that nothing else does,
and that completing a restore of a sound archive mends both. `LockReleasedIfCommitted` excuses the transaction left open that `backup_hangs` shows.
`KeyOpensRows` excuses first uses of the vault that overlap: both
threads find no key file, the second one's key replaces the first, and what was stored under the first cannot be
read after the next start (`dependencies.py:40`, `profiles.py:90`). `EnabledIsComplete` allows a copy that arrived in part through a
pipe: the tests passed on what arrived. `NoPartialWriteWithoutFile` speaks of the files of 5GS and of the provider's name;
the IMS files and the 2G copy of the keys are not looked at before the first write, although `README.md:24` and `docs/user-guide.md:66-67`
speak of checks before the write more widely.

**Findings.** Five violation runs show where code and documents part; `PROJECT.json` quotes the documents: the replaced draft
(`requests_replaced_draft`), the lock that a backup keeps (`backup_hangs`), SUCI lists that are adopted in part (`suci_adopted`),
used home-network keys that can be deleted (`suci_key_deleted`) and the failed installation that blocks the next one (`install_blocked`).

**Assumptions.** Outside of `FirstUse` each service exists once (`lru_cache` in `dependencies.py` does
not serialize first calls, so two instances are possible right after the start), and the clock is
not set back. One administrator runs one installer at a time, and `systemctl disable`, whose failure the cleanup ignores,
succeeds. A file that was replaced or closed survives a power failure. Power can fail at any step.

**Fairness.** `Fairness` is weak fairness of `Continue(c)` for every thread: a thread that
can go on does. The vault's lock is held for a few SQL statements, the
adapters end their subprocess after a time limit (`pysim.py:96`), and Starlette never
abandons a running thread. Nothing is assumed of arriving requests, people at the reader or
restarts. In `RequestAnswered`, a request queued for the adapter is
either started or refused once the adapter is free; the two-thread run checks the release of the
adapter, the one-thread run the answer. `Lock` is not fair in CPython, so a thread may
in theory be overtaken forever at the adapter; this is why the answer is not
claimed for two threads. `Backup` has the same weak fairness, of `Resume(c)`;
`Login` has `WF(Tick)`, time goes on, and assumes nothing of attempts, which
may be made for ever or never end.

## 4. Proofs

Assumption: `BoundsAssumption` (the bounds are positive naturals, `MaxImport` and `MaxSuciKeyId` naturals, legacy ids are ids).
`FormsAssumption`: an IMSI has one form. The sets of ICCIDs, IMSIs, infos, keys, statuses, home-network keys and threads are arbitrary, as is which keys an info uses.

`ProfileVaultProofs`:
- `TypeCorrect`: `Spec => []TypeOK`, one step per action, with the lemmas of
  `TablesLemmas` on what each SQL statement does to a typed table.
- `InvariantHolds`: `Spec => []IInv`, `IInv` being `TypeOK`, `NoOrphanRows`, `HistoryEndsInActive` and
  `DraftBaseIsActive` together. None is inductive alone: a
  commit extends the history at the base of the draft, so the history needs `DraftBaseIsActive`;
  a new profile starts a history under a fresh or reused id, so it needs
  `NoOrphanRows`; a restart adds nothing to a history that is complete already
  (`BackfilledNothing`).
- `NoOrphans`, `HistoryComplete`, `DraftsCommittable` follow.
- `UsedKeysStay`, under the assumption that a record uses no key but the one in its single fields, in numbers: then no used key is deleted.
  Without the assumption it is false (`suci_key_deleted`), so the theorem says that this gap is the only one. Deleting a key searches versions and drafts and not the active rows; that this
  suffices for them too is `HistoryEndsInActive`, which puts every active row among the versions.
- `NotesComplete`, for a single caller (`Callers = {caller}`): the note of a version this program made names every part that changed. The strengthening `NotesInv` adds
  that the list of a draft, and that of a preparation between its two sections, has all that differs from the record that is active now
  (`ListsAreCurrent`), which another thread's commit would break, and uses `DraftBaseIsActive`. It covers restated parts for any `OtherForms`,
  which TLC explores in `vault_concurrent` and `requests_concurrent`.
- `IccidsNeverChange` and `DeletionsConfirmed`, for a single caller: the strengthening `IccidsAreCurrent` says that the record of a
  preparation and of a draft, and the ICCID typed for a deletion, are those of the profile that has the id now. A
  draft carries a whole record, so a commit keeps the ICCID only because of it.

`VersionedStoreProofs`: `VaultIsVersionedStore`, `Spec => ImplementsVersionedStore`. The refinement mapping is `Versions`, the history
rows of each profile. An entry is a `Create`, an adoption or a commit a `Revise` of the newest version, which
`HistoryEndsInActive` says is the active one (`NewestIsActive`), a deletion an `Erase`; everything else, a restart with its backfill
included, leaves the mapped history alone, the restart by `BackfilledNothing`.

`ProvisioningProofs`: `SystemTypeCorrect`; every step of a
request, the reader and a restart is a vault step or leaves the vault alone
(`StepOfVault`, by the definitions), by which `VaultSafeInSystem` and `SystemIsVersionedStore` carry the vault's results over.
`OneWriterAtATime` follows from the inductive `WriterHoldsAdapter`: a thread whose bridge is at work is the one that holds the adapter.
`NoCallerAssumption` says that the mark of a free adapter is no thread.

The properties of single requests need one thread (`Callers = {caller}`) and `NoCardAssumption`: the mark of an empty reader
is no ICCID. `RequestsFit` says what a request read and still relies on: the ICCID it compares is the profile's, the files it adopts are those of
a card that was in the reader, the draft it writes is the stored one, and every file it need not write any more holds the draft's
value (`RequestFits`). A cut-off write ends its request, so nothing of it is relied on. `RevisionsAreOnCard`, `CardsGetDraftValues` and `VerifiedCardsWereSeen`
follow, with `IccidsAreCurrent` of the vault; the last one for a vault without rows of an older release, whose marks say nothing of
this program's reader. `SerialVaultSafeInSystem` carries the vault's results for a single caller over.

`SystemIsCardChanges`, for a single thread: `SystemSpec => ImplementsCardChanges`. The mapping looks at the tables and the cards only, so most steps of
a request stutter (`SameStored`, `SameWanted`). A written file belongs to the card of the draft's profile, and an adopted value is on that card,
because of `RequestsFit` and `IccidsAreCurrent`; that a commit changes nothing beside the parts its draft names is `ListsAreCurrent` of
`NotesInv`. With two threads it does not hold: the commit of a draft that was replaced while its predecessor was written
(`requests_replaced_draft`) is an `Accept` of something the card does not have.

`LoginProofs`, from `LoginAssumption` (the limit is positive, the window a natural, threads are finitely
many): `LoginTypeCorrect`, and `GuessesAreBounded`, which is inductive with the
types. An admitted attempt finds the deque below the limit, and then at most every
thread has an attempt pending; a failure moves one from the pending attempts to the deque.

`BackupProofs`, from `BackupAssumption` (the three keys differ, the tables are
known): `BackupInvariant`, `BackupSpec => []BackupInv`, with the types, the
single lock holder, `UnopenedIsIdle` (no thread is at work in a vault that could not be
opened; without it an encrypted row might carry no key) and `KeyFits` (memory and
file hold the same key unless a thread is between the two writes of a restore).
`BackupTypeCorrect` and `OneCopyAtATime` follow.
`VaultStaysReadable` is proved for any number of threads, from `BackupInv` and `ReadableInv`. That says of every archive, those a
thread has read included, that it opens with its own key unless it was made of a vault that does not
(`Sound`), of a thread in a restore that the rows are those of its archive (`SoundWork`), and of the vault itself what the property says.
A row that is stored is either under the key of now or sets `foreign`; a restore that is completed replaces rows, key and file, clears `torn` and takes `foreign` from its archive.

`FirstUseProofs`, of the installer: the inductive `IInv` says how far the script has come. In an installation all artefacts before `next`
are whole (those copied through a pipe possibly in part), and the services enabled only behind the last command (`MadeSoFar`); in a cleanup the services are
disabled from its first command on (`RemovedSoFar`). `EnabledServicesAreComplete` and `FinishedInstallationKept` follow.

Of the service, from `FirstUseAssumption` (no key is the mark of a missing file): `KeyAlwaysOpensRows`. Without overlapping
first uses there is one maker of the vault, a maker past its check means that there is no key file, and all that is open was opened with the key
in the file (`OneKey`). Of the installer it takes that data go only while the services are disabled, and that an
attempt begins without data (`InstallerFacts`, `NoDataBefore`). `ServedInstallationComplete` says that the installer's
invariants hold beside a service in use.

`CardWriteProofs`, from `CardWriteAssumption`, `RecordsAssumption` (which records are entered and asked for) and
`BlankAssumption` (what cannot be decoded is no file that was built):
- `ReadsBackAsBuilt`: for a legal list of any length. The two lists of the file, entries and keys, are sorted apart, and
  an entry finds its key by position. That both are in order, and that sorting what is sorted changes nothing, is proved by counting
  (`Places`: the places of distinct priorities are exactly 1 to their number, an injection of a finite set into one of
  the same size) and needs no induction over lists.
- `CardInvariant`: `CardWriteTypeOK` with `DraftIsReady` (a draft is valid and its list is one that can be built) and `PassedIsDone` (each stage
  that the bridge has passed found what it looked for, or its file holds the draft's value).
  `CardTypeCorrect`, `CommittedVersionOnCard`, `MissingFilesMetFirst` and `ServicesFollowTheirFile` follow from it and from the order of `Stages`.
- `ComparisonAfterWrite`, with `ReadsBackAsBuilt`. The attempt to prove it showed that the property was false of a card without a
  file for the routing indicator, which no run had; the run now has such a card and the property says so.
- `AdoptionLeavesNothing` and `DraftsNameOnlyChanges`.
- `FailedWritesCanBeRepeated`. A bridge at work has a first stage (`SomeStageIsNext`: a non-empty set of numbers has a least one), and each
  stage it may be at is feasible unless the card or the draft makes the write impossible; no stage asks what an earlier attempt left in a file.
- `WriteIsCardChange`: `Spec => ImplementsCardChanges`. A stage writes only parts that the draft names (`TouchIsWrite`), which for a file cut off in the middle
  is all that is asked. At the commit every involved file was written, since its stage comes before and was passed (`PassedIsDone`, `InvolvedParts`).
  That profile and draft agree in all other parts needs `DraftNamesDifferences`: whatever differs from the active record is named. It is inductive
  beside `CardInvariant`, since a draft goes with every change of the active record. `NoDraftAssumption` says that the mark of a missing draft is no draft.

**Only model-checked.** `RequestAnswered`, `AdapterReleased`, `LockReleasedIfCommitted` and `LockoutEnds` are liveness under fairness, which
is out of the prover's reach. All other properties of the passing runs are proved.

## 5. Not modelled, and the plan

What could follow:
1. One mapping from `CardWrite` to the write of `Provisioning` itself. Both implement `CardChanges`, but `Provisioning`
   takes everything readable for one file, so `CardWrite` refines it directly only in its whole writes.
2. Audit events beside the changes they report; second instances of the services that keep no key.

Left aside for good: the pages in the browser, decoding of card files, formats of fields, building and signing
of releases (sequential file handling with no state to keep consistent).

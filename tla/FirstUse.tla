------------------------------ MODULE FirstUse ------------------------------
(***************************************************************************)
(* The installed service makes its vault when a request first needs it     *)
(* (get_profile_vault_service in core/dependencies.py), and the vault its  *)
(* key when the key file is missing (_load_or_create_key in                *)
(* services/profiles.py).  lru_cache keeps the first instance that was     *)
(* made; it does not keep two requests from making one each.  Key file and *)
(* database lie in the directory of the application, which the cleanup of  *)
(* a failed installation removes.                                          *)
(*                                                                         *)
(* Of a stored row the key it is encrypted with is kept.  Restores, which  *)
(* replace the key, are in module Backup.                                  *)
(***************************************************************************)
EXTENDS Installer

CONSTANTS
  Callers,     \* request threads
  Keys,        \* what os.urandom may return; bound on the keys in use
  NoKey        \* the file is not there

ASSUME FirstUseAssumption == NoKey \notin Keys

VARIABLES
  keyFile,     \* profile.key
  temporary,   \* profile.tmp is there
  vault,       \* the key of the cached instance
  opening,     \* how far a thread is in the constructor, or its instance
  rows,        \* keys of the rows in the database
  overlapped   \* history: a vault was asked for while another one was made

dataVars == <<keyFile, temporary, rows>>
serviceVars == <<vault, opening, overlapped>>
firstUseVars == <<installVars, dataVars, serviceVars>>

None == [step |-> "none"]
Steps ==
  {None} \cup [step : {"missing", "empty", "found"}]
         \cup [step : {"written", "open"}, key : Keys]

AtStep(c, step) == opening[c].step = step
Go(c, record) == opening' = [opening EXCEPT ![c] = record]

(* A thread in the constructor                                             *)
Making(c) == opening[c].step \notin {"none", "open"}

FirstUseInit ==
  /\ Init
  /\ keyFile = NoKey
  /\ temporary = FALSE
  /\ vault = NoKey
  /\ opening = [c \in Callers |-> None]
  /\ rows = {}
  /\ overlapped = FALSE

-----------------------------------------------------------------------------
(* Mutant: the key file is never found.                                    *)
NeverFound == FALSE

KeyFound == keyFile # NoKey

(* No instance is cached: the constructor looks for the key file.          *)
AskForVault(c) ==
  /\ enabled /\ AtStep(c, "none")
  /\ vault = NoKey
  /\ Go(c, [step |-> IF KeyFound THEN "found" ELSE "missing"])
  /\ overlapped' = (overlapped \/ \E d \in Callers : Making(d))
  /\ UNCHANGED <<dataVars, vault>>

UseCachedVault(c) ==
  /\ enabled /\ AtStep(c, "none")
  /\ vault # NoKey
  /\ Go(c, [step |-> "open", key |-> vault])
  /\ UNCHANGED <<dataVars, vault, overlapped>>

(* The temporary file is opened exclusively.                               *)
CreateTemporary(c) ==
  /\ AtStep(c, "missing")
  /\ ~temporary
  /\ temporary' = TRUE
  /\ Go(c, [step |-> "empty"])
  /\ UNCHANGED <<keyFile, rows, vault, overlapped>>

(* FileExistsError, also for a file that a start before has left           *)
FailToCreate(c) ==
  /\ AtStep(c, "missing")
  /\ temporary
  /\ Go(c, None)
  /\ UNCHANGED <<dataVars, vault, overlapped>>

(* os.urandom gives a key that nobody has.                                 *)
WriteTemporary(c) ==
  /\ AtStep(c, "empty")
  /\ \E key \in Keys \ (rows \cup {keyFile, vault}) :
       /\ \A d \in Callers : AtStep(d, "open") => opening[d].key # key
       /\ Go(c, [step |-> "written", key |-> key])
  /\ UNCHANGED <<dataVars, vault, overlapped>>

ReplaceKeyFile(c) ==
  /\ AtStep(c, "written")
  /\ keyFile' = opening[c].key
  /\ temporary' = FALSE
  /\ Go(c, [step |-> "found"])
  /\ UNCHANGED <<rows, vault, overlapped>>

(* The key is read back from its file, whoever wrote it.  The request goes *)
(* on with the instance it made; the first one made is cached.             *)
ReadKey(c) ==
  /\ AtStep(c, "found")
  /\ Go(c, [step |-> "open", key |-> keyFile])
  /\ vault' = IF vault = NoKey THEN keyFile ELSE vault
  /\ UNCHANGED <<dataVars, overlapped>>

(* Profiles are entered after all rows were decrypted to look for          *)
(* duplicates; another request changes or reads something, or fails.       *)
EndRequest(c) ==
  /\ AtStep(c, "open")
  /\ rows' \in {rows} \cup (IF rows \subseteq {opening[c].key} THEN {{opening[c].key}} ELSE {})
  /\ Go(c, None)
  /\ UNCHANGED <<keyFile, temporary, vault, overlapped>>

Serve(c) ==
  \/ AskForVault(c) \/ UseCachedVault(c)
  \/ CreateTemporary(c) \/ FailToCreate(c) \/ WriteTemporary(c)
  \/ ReplaceKeyFile(c) \/ ReadKey(c)
  \/ EndRequest(c)

(* The service ends, orderly or not; systemd starts it again.              *)
RestartService ==
  /\ enabled
  /\ vault' = NoKey
  /\ opening' = [c \in Callers |-> None]
  /\ UNCHANGED <<dataVars, overlapped>>

-----------------------------------------------------------------------------
(* Key and rows lie below the directory of the application: they go with   *)
(* it, or each may have gone when its removal was cut off.                 *)
DataFollows ==
  IF files'["app"] = "absent"
    THEN keyFile' = NoKey /\ temporary' = FALSE /\ rows' = {}
  ELSE IF Cleaning("app") /\ files'["app"] = "partial"
    THEN /\ keyFile' \in {keyFile, NoKey}
         /\ temporary' \in {temporary, FALSE}
         /\ rows' \in {rows, {}}
  ELSE UNCHANGED dataVars

(* systemctl disable --now stops the service.                              *)
ServiceFollows ==
  IF enabled' THEN UNCHANGED <<vault, opening>>
  ELSE vault' = NoKey /\ opening' = [c \in Callers |-> None]

InstallerStep == Next /\ DataFollows /\ ServiceFollows /\ UNCHANGED overlapped

ServiceStep ==
  /\ \/ \E c \in Callers : Serve(c)
     \/ RestartService
  /\ UNCHANGED installVars

FirstUseNext == InstallerStep \/ ServiceStep

FirstUseSpec == FirstUseInit /\ [][FirstUseNext]_firstUseVars

-----------------------------------------------------------------------------
(* The key file opens every row of an installation that will be started,   *)
(* and holds the key of the vault in use, wherever an installation, its    *)
(* cleanup or the service ended.  Excepted are first uses that overlap:    *)
(* the second replaces a key file that is in use already.                  *)
KeyOpensRows ==
  enabled /\ ~overlapped => rows \subseteq {keyFile} /\ vault \in {NoKey, keyFile}
=============================================================================

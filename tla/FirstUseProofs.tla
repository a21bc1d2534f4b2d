--------------------------- MODULE FirstUseProofs ---------------------------
(***************************************************************************)
(* The installer's promises, by an invariant that says how far its program *)
(* or its cleanup has come; and the key of a vault through installations,  *)
(* first uses, restarts and cleanups, for any number of threads and keys.  *)
(***************************************************************************)
EXTENDS FirstUse, TLAPS

-----------------------------------------------------------------------------
(* The installer                                                           *)

FileStates == {"absent", "partial", "whole"}
Stages == {"idle", "prompt", "install", "cleanup", "cleaned"}

InstallTypeOK ==
  /\ files \in [Artefacts -> FileStates]
  /\ enabled \in BOOLEAN
  /\ tested \in BOOLEAN
  /\ stage \in Stages
  /\ next \in Nat \ {0}

Made(file) ==
  files[file] = "whole" \/ (file \in Piped /\ files[file] = "partial")

(* What an attempt has made so far is there, and the services are enabled  *)
(* by its last command only.                                               *)
MadeSoFar ==
  /\ stage = "prompt" => ~enabled
  /\ stage = "install" =>
       /\ \A i \in 1..12 : i < next => Made(Program[i])
       /\ next > 13 => tested
       /\ enabled => next > 13

(* The cleanup disables the services first.                                *)
RemovedSoFar ==
  /\ stage = "cleanup" /\ enabled => next = 1
  /\ stage = "cleaned" => ~enabled

IInv == InstallTypeOK /\ EnabledIsComplete /\ MadeSoFar /\ RemovedSoFar

-----------------------------------------------------------------------------
(* Files are made by the first twelve commands.                            *)
LEMMA FilePositions ==
  ASSUME InstallTypeOK
  PROVE  /\ \A file \in Artefacts : At(file) => next \in 1..12 /\ file = Program[next]
         /\ At("tests") => next = 13
         /\ At("enable") => next = 14
         /\ \A i \in 1..12 : Program[i] \in Artefacts
         /\ \A file \in Artefacts : \E i \in 1..12 : file = Program[i]
         /\ \A i, j \in 1..12 : Program[i] = Program[j] => i = j
BY DEF At, Program, Artefacts, InstallTypeOK

(* The cleanup disables the services before it removes a file.             *)
LEMMA CleanupPositions ==
  ASSUME InstallTypeOK
  PROVE  /\ Cleaning("services") => next = 1
         /\ \A file \in Artefacts : Cleaning(file) => next \in 2..9
         /\ Len(CleanupProgram) = 9
BY DEF Cleaning, CleanupProgram, Artefacts, InstallTypeOK

LEMMA InstallInit == Init => IInv
<1> SUFFICES ASSUME Init PROVE IInv
  OBVIOUS
<1>1. files \in [Artefacts -> FileStates]
  <2>1. PICK account \in {"absent", "whole"} :
          files = [a \in Artefacts |-> IF a = "account" THEN account ELSE "absent"]
    BY DEF Init
  <2> QED BY <2>1 DEF FileStates
<1>2. /\ ~enabled /\ enabled \in BOOLEAN /\ tested \in BOOLEAN
      /\ stage = "idle" /\ next = 1
  BY DEF Init
<1>3. InstallTypeOK
  BY <1>1, <1>2 DEF InstallTypeOK, Stages
<1>4. EnabledIsComplete
  BY <1>2 DEF EnabledIsComplete
<1>5. MadeSoFar /\ RemovedSoFar
  BY <1>2 DEF MadeSoFar, RemovedSoFar
<1> QED BY <1>3, <1>4, <1>5 DEF IInv

(* A step by which no attempt is under way and that leaves the files alone *)
(* keeps the invariant.                                                    *)
LEMMA AttemptOver ==
  ASSUME IInv, stage' \in {"idle", "cleanup"}, next' = 1, EnabledIsComplete',
         files' \in [Artefacts -> FileStates], enabled' \in BOOLEAN, tested' \in BOOLEAN
  PROVE  IInv'
BY DEF IInv, InstallTypeOK, MadeSoFar, RemovedSoFar, Stages

(* A command that was cut off enables the services only when all is there, *)
(* and damages nothing that is enabled.                                    *)
LEMMA CutOff ==
  ASSUME IInv, PartOfCommand, UNCHANGED tested
  PROVE  /\ EnabledIsComplete'
         /\ files' \in [Artefacts -> FileStates]
         /\ enabled' \in BOOLEAN
         /\ tested' \in BOOLEAN
<1> USE DEF IInv, InstallTypeOK
<1>1. CASE UNCHANGED <<files, enabled>>
  BY <1>1 DEF EnabledIsComplete
<1>2. ASSUME NEW file \in Artefacts, At(file), UNCHANGED enabled,
             files' = [files EXCEPT ![file] = "partial"]
      PROVE  /\ EnabledIsComplete'
             /\ files' \in [Artefacts -> FileStates]
             /\ enabled' \in BOOLEAN
             /\ tested' \in BOOLEAN
  <2>1. ~enabled
    BY <1>2, FilePositions DEF MadeSoFar, At
  <2> QED BY <1>2, <2>1 DEF EnabledIsComplete, FileStates
<1>3. ASSUME At("enable"), enabled' = TRUE, UNCHANGED files
      PROVE  /\ EnabledIsComplete'
             /\ files' \in [Artefacts -> FileStates]
             /\ enabled' \in BOOLEAN
             /\ tested' \in BOOLEAN
  <2>1. next = 14 /\ stage = "install"
    BY <1>3, FilePositions DEF At
  <2>2. tested /\ \A i \in 1..12 : Made(Program[i])
    BY <2>1 DEF MadeSoFar
  <2> QED BY <1>3, <2>2, FilePositions DEF EnabledIsComplete, Made
<1> QED BY <1>1, <1>2, <1>3 DEF PartOfCommand

LEMMA InstallNext == IInv /\ [Next]_installVars => IInv'
<1> SUFFICES ASSUME IInv, [Next]_installVars PROVE IInv'
  OBVIOUS
<1>t. InstallTypeOK
  BY DEF IInv
<1>1. CASE Begin
  <2>1. ~enabled
    BY <1>1 DEF Begin, IInv, EnabledIsComplete, InstallationFound, Artefacts
  <2> QED BY <1>1, <2>1
      DEF Begin, IInv, InstallTypeOK, EnabledIsComplete, MadeSoFar, RemovedSoFar,
          Stages
<1>2. CASE Refuse
  BY <1>2, <1>t, AttemptOver
  DEF Refuse, ExitFrom, TrapSet, IInv, InstallTypeOK, EnabledIsComplete
<1>3. CASE RefusePassword
  BY <1>3, <1>t, AttemptOver
  DEF RefusePassword, ExitFrom, TrapSet, IInv, InstallTypeOK, EnabledIsComplete
<1>4. CASE AcceptPassword
  <2>1. ~enabled
    BY <1>4 DEF AcceptPassword, IInv, MadeSoFar
  <2>2. /\ stage' = "install" /\ next' = 1 /\ tested' = FALSE
        /\ UNCHANGED <<files, enabled>>
    BY <1>4 DEF AcceptPassword
  <2>t. tested' \in BOOLEAN
    BY <2>2
  <2>3. InstallTypeOK'
    BY <1>t, <2>t, <2>2 DEF InstallTypeOK, Stages
  <2>4. MadeSoFar'
    BY <2>1, <2>2 DEF MadeSoFar
  <2>5. EnabledIsComplete'
    BY <2>1, <2>2 DEF EnabledIsComplete
  <2>6. RemovedSoFar'
    BY <2>2 DEF RemovedSoFar
  <2> QED BY <2>3, <2>4, <2>5, <2>6 DEF IInv
<1>5. ASSUME NEW file \in Artefacts, MakeFile(file)
      PROVE  IInv'
  <2>1. next \in 1..12 /\ file = Program[next] /\ stage = "install"
    BY <1>5, <1>t, FilePositions DEF MakeFile, At
  <2>2. ~enabled
    BY <2>1 DEF IInv, MadeSoFar
  <2>3. InstallTypeOK'
    BY <1>5, <1>t DEF MakeFile, InstallTypeOK, FileStates
  <2>4. /\ \A a \in Artefacts : a # file => files'[a] = files[a]
        /\ Made(file)'
        /\ next' = next + 1
        /\ UNCHANGED <<enabled, tested, stage>>
    BY <1>5, <1>t DEF MakeFile, Made, InstallTypeOK
  <2>5. \A i \in 1..12 : i < next' => Made(Program[i])'
    BY <1>t, <2>1, <2>4, FilePositions DEF IInv, MadeSoFar, Made, InstallTypeOK
  <2> QED BY <2>1, <2>2, <2>3, <2>4, <2>5
      DEF IInv, EnabledIsComplete, MadeSoFar, RemovedSoFar
<1>6. CASE PassTests
  BY <1>6, <1>t, FilePositions
  DEF PassTests, At, IInv, InstallTypeOK, EnabledIsComplete, MadeSoFar, Made, RemovedSoFar
<1>7. CASE EnableServices
  <2>1. next = 14 /\ stage = "install"
    BY <1>7, <1>t, FilePositions DEF EnableServices, At
  <2>2. tested /\ \A i \in 1..12 : Made(Program[i])
    BY <2>1 DEF IInv, MadeSoFar
  <2>3. EnabledIsComplete'
    BY <1>7, <1>t, <2>2, FilePositions DEF EnableServices, EnabledIsComplete, Made
  <2> QED BY <1>7, <2>1, <2>2, <2>3
      DEF EnableServices, IInv, InstallTypeOK, MadeSoFar, Made, RemovedSoFar
<1>8. CASE Finish
  BY <1>8, <1>t, AttemptOver DEF Finish, IInv, InstallTypeOK, EnabledIsComplete
<1>9. CASE Fail
  BY <1>9, AttemptOver, CutOff DEF Fail, ExitFrom, TrapSet
<1>10. CASE DisableServices
  <2>1. next = 1 /\ stage = "cleanup"
    BY <1>10, <1>t, CleanupPositions DEF DisableServices, Cleaning
  <2>2. enabled' = FALSE /\ next' = 2 /\ UNCHANGED <<files, tested, stage>>
    BY <1>10, <2>1 DEF DisableServices
  <2>t. enabled' \in BOOLEAN
    BY <2>2
  <2>3. InstallTypeOK'
    BY <1>t, <2>t, <2>2 DEF InstallTypeOK
  <2>4. RemovedSoFar'
    BY <2>2 DEF RemovedSoFar
  <2>5. EnabledIsComplete'
    BY <2>2 DEF EnabledIsComplete
  <2>6. MadeSoFar'
    BY <2>1, <2>2 DEF MadeSoFar
  <2> QED BY <2>3, <2>4, <2>5, <2>6 DEF IInv
<1>11. ASSUME NEW file \in Artefacts, Remove(file)
       PROVE  IInv'
  <2>1. stage = "cleanup" /\ ~enabled
    BY <1>11, <1>t, CleanupPositions DEF Remove, Cleaning, IInv, RemovedSoFar
  <2>2. /\ files' \in [Artefacts -> FileStates]
        /\ UNCHANGED <<enabled, tested, stage>>
        /\ next' = next + 1
    BY <1>11, <1>t DEF Remove, InstallTypeOK, FileStates
  <2> QED BY <1>t, <2>1, <2>2
      DEF IInv, InstallTypeOK, EnabledIsComplete, MadeSoFar, RemovedSoFar
<1>12. CASE RemoveTlsDirectory
  <2>1. stage = "cleanup" /\ ~enabled
    BY <1>12, <1>t, CleanupPositions
       DEF RemoveTlsDirectory, Cleaning, IInv, RemovedSoFar, Artefacts
  <2>2. /\ files' \in [Artefacts -> FileStates]
        /\ UNCHANGED <<enabled, tested, stage>>
        /\ next' = next + 1
    BY <1>12, <1>t DEF RemoveTlsDirectory, InstallTypeOK, FileStates
  <2> QED BY <1>t, <2>1, <2>2
      DEF IInv, InstallTypeOK, EnabledIsComplete, MadeSoFar, RemovedSoFar
<1>13. CASE FinishCleanup
  <2>1. ~enabled
    BY <1>13, <1>t, CleanupPositions DEF FinishCleanup, IInv, RemovedSoFar
  <2>2. stage' = "cleaned" /\ next' = 1 /\ UNCHANGED <<files, enabled, tested>>
    BY <1>13 DEF FinishCleanup
  <2> QED BY <1>t, <2>1, <2>2
      DEF IInv, InstallTypeOK, EnabledIsComplete, MadeSoFar, RemovedSoFar, Stages
<1>14. CASE Kill
  <2>1. CASE PartOfCommand
    BY <1>14, <2>1, AttemptOver, CutOff DEF Kill
  <2>2. ASSUME NEW directory \in {"app", "pysim", "venv"}, Cleaning(directory),
               files' = [files EXCEPT ![directory] = "partial"], UNCHANGED enabled
        PROVE  IInv'
    <3>1. directory \in Artefacts
      BY DEF Artefacts
    <3>2. ~enabled
      BY <1>t, <2>2, <3>1, CleanupPositions DEF IInv, RemovedSoFar, Cleaning
    <3> QED BY <1>14, <1>t, <2>2, <3>1, <3>2, AttemptOver
        DEF Kill, InstallTypeOK, EnabledIsComplete, FileStates
  <2> QED BY <1>14, <2>1, <2>2 DEF Kill
<1>15. CASE UNCHANGED installVars
  BY <1>15
  DEF installVars, IInv, InstallTypeOK, EnabledIsComplete, MadeSoFar, Made, RemovedSoFar
<1> QED
  BY <1>1, <1>2, <1>3, <1>4, <1>5, <1>6, <1>7, <1>8, <1>9, <1>10, <1>11, <1>12,
     <1>13, <1>14, <1>15
  DEF Next, Work

-----------------------------------------------------------------------------
(* Wherever the installer or its cleanup is killed, services that start at *)
(* the next boot find all their files, and these passed the tests.         *)
THEOREM EnabledServicesAreComplete == Spec => []EnabledIsComplete
<1>1. IInv => EnabledIsComplete
  BY DEF IInv
<1> QED BY <1>1, InstallInit, InstallNext, PTL DEF Spec

(* An attempt beside enabled services changes nothing.                     *)
THEOREM FinishedInstallationKept == Spec => InstallationKept
<1>1. IInv /\ [Next]_installVars =>
        [enabled /\ stage \in {"idle", "cleaned"}
           => UNCHANGED <<files, enabled, stage>>]_installVars
  <2> SUFFICES ASSUME IInv, Next, enabled, stage \in {"idle", "cleaned"}
               PROVE  UNCHANGED <<files, enabled, stage>>
    OBVIOUS
  <2>1. InstallationFound
    BY DEF IInv, EnabledIsComplete, InstallationFound, Artefacts
  <2>2. CASE Refuse
    <3>1. stage = "idle"
      BY DEF IInv, RemovedSoFar
    <3> QED BY <2>2, <3>1 DEF Refuse, ExitFrom, TrapSet
  <2> QED BY <2>1, <2>2
      DEF Next, Begin, AcceptPassword, RefusePassword, Kill, Work, MakeFile, At,
          PassTests, EnableServices, Finish, Fail, DisableServices, RemoveTlsDirectory,
          FinishCleanup, Remove, Cleaning
<1> QED BY <1>1, InstallInit, InstallNext, PTL DEF Spec, InstallationKept

-----------------------------------------------------------------------------
(* The service it enabled                                                  *)

DataTypeOK ==
  /\ keyFile \in Keys \cup {NoKey}
  /\ temporary \in BOOLEAN
  /\ vault \in Keys \cup {NoKey}
  /\ opening \in [Callers -> Steps]
  /\ rows \subseteq Keys
  /\ overlapped \in BOOLEAN

(* A service that is not enabled does not run.                             *)
StoppedIfDisabled ==
  ~enabled => vault = NoKey /\ opening = [c \in Callers |-> None]

(* A service that was not enabled since the last cleanup has left no data. *)
NoDataBefore ==
  files["app"] = "absent" \/ (stage \in {"prompt", "install"} /\ ~enabled) =>
    keyFile = NoKey /\ rows = {}

FoundIsThere == \A c \in Callers : AtStep(c, "found") => keyFile # NoKey

(* Unless first uses overlap there is one maker of the vault, and all that *)
(* is open was opened with the key in the file.                            *)
OneKey ==
  ~overlapped =>
    /\ \A c, d \in Callers : Making(c) /\ Making(d) => c = d
    /\ \A c \in Callers :
         opening[c].step \in {"missing", "empty", "written"} => keyFile = NoKey
    /\ \A c \in Callers : AtStep(c, "open") => opening[c].key = keyFile
    /\ vault \in {NoKey, keyFile}
    /\ enabled => rows \subseteq {keyFile}

FirstUseInv ==
  DataTypeOK /\ StoppedIfDisabled /\ NoDataBefore /\ FoundIsThere /\ OneKey

-----------------------------------------------------------------------------
(* What the installer does to an application in use, and when an attempt   *)
(* begins.                                                                 *)
LEMMA InstallerFacts ==
  ASSUME IInv, Next
  PROVE  /\ enabled => files' = files /\ (enabled' \/ stage' = "cleanup")
         /\ ~enabled /\ enabled' => files' = files /\ stage = "install"
         /\ stage' \in {"prompt", "install"} =>
              stage \in {"prompt", "install"} \/ files["app"] = "absent"
<1>t. InstallTypeOK
  BY DEF IInv
<1> DEFINE Goal ==
         /\ enabled => files' = files /\ (enabled' \/ stage' = "cleanup")
         /\ ~enabled /\ enabled' => files' = files /\ stage = "install"
         /\ stage' \in {"prompt", "install"} =>
              stage \in {"prompt", "install"} \/ files["app"] = "absent"
<1>1. CASE Begin
  BY <1>1 DEF Begin, InstallationFound
<1>2. CASE Refuse \/ RefusePassword
  BY <1>2 DEF Refuse, RefusePassword, ExitFrom, TrapSet
<1>3. CASE AcceptPassword
  BY <1>3 DEF AcceptPassword
<1>4. ASSUME NEW file \in Artefacts, MakeFile(file) PROVE Goal
  <2>1. ~enabled
    BY <1>4, <1>t, FilePositions DEF MakeFile, At, IInv, MadeSoFar
  <2> QED BY <1>4, <2>1 DEF MakeFile, At
<1>5. CASE PassTests \/ EnableServices \/ Finish
  BY <1>5 DEF PassTests, EnableServices, Finish, At
<1>6. ASSUME PartOfCommand PROVE /\ enabled => files' = files /\ enabled'
                                 /\ ~enabled /\ enabled' => files' = files /\ stage = "install"
  <2>1. CASE UNCHANGED <<files, enabled>>
    BY <2>1
  <2>2. ASSUME NEW file \in Artefacts, At(file), UNCHANGED enabled
        PROVE  ~enabled /\ ~enabled'
    BY <2>2, <1>t, FilePositions DEF At, IInv, MadeSoFar
  <2>3. CASE At("enable") /\ enabled' = TRUE /\ UNCHANGED files
    BY <2>3 DEF At
  <2> QED BY <1>6, <2>1, <2>2, <2>3 DEF PartOfCommand
<1>7. CASE Fail
  BY <1>6, <1>7 DEF Fail, ExitFrom, TrapSet
<1>8. CASE DisableServices \/ FinishCleanup
  BY <1>8 DEF DisableServices, FinishCleanup, Cleaning
<1>9. CASE RemoveTlsDirectory
  <2>1. ~enabled
    BY <1>9, <1>t, CleanupPositions DEF RemoveTlsDirectory, Cleaning, IInv, RemovedSoFar, Artefacts
  <2> QED BY <1>9, <2>1 DEF RemoveTlsDirectory, Cleaning
<1>10. ASSUME NEW file \in Artefacts, Remove(file) PROVE Goal
  <2>1. ~enabled
    BY <1>10, <1>t, CleanupPositions DEF Remove, Cleaning, IInv, RemovedSoFar
  <2> QED BY <1>10, <2>1 DEF Remove, Cleaning
<1>11. CASE Kill
  <2>1. CASE PartOfCommand
    BY <1>6, <1>11, <2>1 DEF Kill
  <2>2. ASSUME NEW directory \in {"app", "pysim", "venv"}, Cleaning(directory),
               UNCHANGED enabled
        PROVE  ~enabled /\ ~enabled'
    BY <2>2, <1>t, CleanupPositions DEF Cleaning, IInv, RemovedSoFar, Artefacts
  <2>3. stage' = "idle"
    BY <1>11 DEF Kill
  <2> QED BY <1>11, <2>1, <2>2, <2>3 DEF Kill
<1> QED
  BY <1>1, <1>2, <1>3, <1>4, <1>5, <1>7, <1>8, <1>9, <1>10, <1>11 DEF Next, Work

(* The application is removed after its services were disabled.            *)
LEMMA NotRemovedInUse ==
  ASSUME IInv, enabled
  PROVE  ~Cleaning("app")
BY CleanupPositions DEF Cleaning, IInv, RemovedSoFar, Artefacts

LEMMA FirstUseStarts == FirstUseInit => IInv /\ FirstUseInv
<1> SUFFICES ASSUME FirstUseInit PROVE IInv /\ FirstUseInv
  OBVIOUS
<1>1. IInv
  BY InstallInit DEF FirstUseInit
<1>2. /\ keyFile = NoKey /\ temporary = FALSE /\ vault = NoKey
      /\ rows = {} /\ overlapped = FALSE
      /\ opening = [c \in Callers |-> None]
  BY DEF FirstUseInit
<1>3. temporary \in BOOLEAN /\ overlapped \in BOOLEAN
  BY <1>2
<1>4. \A c \in Callers : opening[c] = None
  BY <1>2
<1>5. FirstUseInv
  BY <1>2, <1>3, <1>4
  DEF FirstUseInv, DataTypeOK, StoppedIfDisabled, NoDataBefore, FoundIsThere, OneKey,
      AtStep, Making, None, Steps
<1> QED BY <1>1, <1>5

(* A step of the installer.                                                *)
LEMMA InstallerKeepsData ==
  ASSUME IInv, FirstUseInv, InstallerStep
  PROVE  FirstUseInv'
<1>1. Next /\ DataFollows /\ ServiceFollows /\ UNCHANGED overlapped
  BY DEF InstallerStep
<1>2. IInv'
  BY <1>1, InstallNext
<1>3. DataTypeOK'
  <2>1. /\ keyFile' \in {keyFile, NoKey}
        /\ temporary' \in {temporary, FALSE}
        /\ rows' \in {rows, {}}
    BY <1>1 DEF DataFollows, dataVars
  <2>2. \/ vault' = vault /\ opening' = opening
        \/ vault' = NoKey /\ opening' = [c \in Callers |-> None]
    BY <1>1 DEF ServiceFollows
  <2>3. temporary' \in BOOLEAN /\ overlapped' \in BOOLEAN
    BY <1>1, <2>1 DEF FirstUseInv, DataTypeOK
  <2>4. opening' \in [Callers -> Steps]
    BY <2>2 DEF FirstUseInv, DataTypeOK, Steps
  <2> QED BY <2>1, <2>2, <2>3, <2>4 DEF FirstUseInv, DataTypeOK
<1>4. CASE enabled
  <2>a. files' = files /\ (enabled' \/ stage' = "cleanup") /\ ~Cleaning("app")
    BY <1>1, <1>4, InstallerFacts, NotRemovedInUse
  <2>2. files'["app"] # "absent"
    BY <1>4, <2>a DEF IInv, EnabledIsComplete, Artefacts
  <2>1. files' = files /\ UNCHANGED dataVars /\ (enabled' \/ stage' = "cleanup")
    BY <1>1, <2>a, <2>2 DEF DataFollows
  <2>3. NoDataBefore'
    BY <2>1, <2>2 DEF NoDataBefore
  <2>4. CASE enabled'
    <3>1. UNCHANGED <<vault, opening>>
      BY <1>1, <2>4 DEF ServiceFollows
    <3>2. FoundIsThere' /\ OneKey' /\ StoppedIfDisabled'
      BY <1>1, <1>4, <2>1, <2>4, <3>1
      DEF dataVars, FirstUseInv, FoundIsThere, OneKey, StoppedIfDisabled, AtStep, Making
    <3> QED BY <1>3, <2>3, <3>2 DEF FirstUseInv
  <2>5. CASE ~enabled'
    <3>1. vault' = NoKey /\ opening' = [c \in Callers |-> None]
      BY <1>1, <2>5 DEF ServiceFollows
    <3>2. \A c \in Callers : opening'[c] = None
      BY <3>1
    <3>3. FoundIsThere' /\ OneKey' /\ StoppedIfDisabled'
      BY <2>5, <3>1, <3>2
      DEF FoundIsThere, OneKey, StoppedIfDisabled, AtStep, Making, None
    <3> QED BY <1>3, <2>3, <3>3 DEF FirstUseInv
  <2> QED BY <2>4, <2>5
<1>5. CASE ~enabled
  <2>1. vault = NoKey /\ opening = [c \in Callers |-> None]
    BY <1>5 DEF FirstUseInv, StoppedIfDisabled
  <2>2. vault' = NoKey /\ opening' = [c \in Callers |-> None]
    BY <1>1, <2>1 DEF ServiceFollows
  <2>3. \A c \in Callers : opening'[c] = None
    BY <2>2
  <2>4. enabled' => UNCHANGED dataVars /\ rows = {}
    <3> SUFFICES ASSUME enabled' PROVE UNCHANGED dataVars /\ rows = {}
      OBVIOUS
    <3>1. files' = files /\ stage = "install" /\ ~Cleaning("app")
      BY <1>1, <1>5, InstallerFacts DEF Cleaning
    <3>2. files'["app"] # "absent"
      BY <1>2 DEF IInv, EnabledIsComplete, Artefacts
    <3> QED BY <1>1, <1>5, <3>1, <3>2 DEF DataFollows, FirstUseInv, NoDataBefore
  <2>5. FoundIsThere' /\ OneKey' /\ StoppedIfDisabled'
    BY <2>2, <2>3, <2>4
    DEF FoundIsThere, OneKey, StoppedIfDisabled, AtStep, Making, None, dataVars
  <2>6. NoDataBefore'
    <3>1. CASE files'["app"] = "absent"
      BY <1>1, <3>1 DEF DataFollows, dataVars, FirstUseInv, NoDataBefore
    <3>2. CASE stage' \in {"prompt", "install"}
      <4>1. keyFile = NoKey /\ rows = {}
        BY <1>1, <1>5, <3>2, InstallerFacts DEF FirstUseInv, NoDataBefore
      <4> QED BY <1>1, <4>1 DEF DataFollows, dataVars, NoDataBefore
    <3> QED BY <3>1, <3>2 DEF NoDataBefore
  <2> QED BY <1>3, <2>5, <2>6 DEF FirstUseInv
<1> QED BY <1>4, <1>5

(* A step of the service, which runs in a complete installation.           *)
LEMMA ServiceKeepsData ==
  ASSUME IInv, FirstUseInv, ServiceStep
  PROVE  FirstUseInv'
<1> USE FirstUseAssumption
<1>1. UNCHANGED installVars
  BY DEF ServiceStep
<1>2. enabled /\ enabled'
  <2>1. CASE RestartService
    BY <1>1, <2>1 DEF RestartService, installVars
  <2>2. ASSUME NEW c \in Callers, Serve(c) PROVE enabled
    <3>1. ~enabled => opening[c] = None
      BY DEF FirstUseInv, StoppedIfDisabled
    <3> QED
      BY <2>2, <3>1
      DEF Serve, AskForVault, UseCachedVault, CreateTemporary, FailToCreate,
          WriteTemporary, ReplaceKeyFile, ReadKey, EndRequest, AtStep, None
  <2> QED BY <1>1, <2>1, <2>2 DEF ServiceStep, installVars
<1>3. StoppedIfDisabled' /\ NoDataBefore'
  <2>1. files["app"] # "absent"
    BY <1>2 DEF IInv, EnabledIsComplete, Artefacts
  <2> QED BY <1>1, <1>2, <2>1 DEF StoppedIfDisabled, NoDataBefore, installVars
<1>4. DataTypeOK /\ FoundIsThere /\ OneKey
  BY DEF FirstUseInv
<1>5. CASE RestartService
  <2>1. /\ vault' = NoKey /\ opening' = [c \in Callers |-> None]
        /\ UNCHANGED <<keyFile, temporary, rows, overlapped>>
    BY <1>5 DEF RestartService, dataVars
  <2>2. \A c \in Callers : opening'[c] = None
    BY <2>1
  <2>3. opening' \in [Callers -> Steps]
    BY <2>1 DEF Steps
  <2>4. temporary' \in BOOLEAN /\ overlapped' \in BOOLEAN
    BY <1>4, <2>1 DEF DataTypeOK
  <2>5. DataTypeOK'
    BY <1>4, <2>1, <2>3, <2>4 DEF DataTypeOK
  <2>6. FoundIsThere' /\ OneKey'
    BY <1>2, <1>4, <2>1, <2>2 DEF FoundIsThere, OneKey, AtStep, Making, None
  <2> QED BY <1>3, <2>5, <2>6 DEF FirstUseInv
<1>6. ASSUME NEW c \in Callers, Serve(c)
      PROVE  DataTypeOK' /\ FoundIsThere' /\ OneKey'
  <2> USE DEF DataTypeOK, FoundIsThere, OneKey, AtStep, Making, Go, dataVars
  <2>a. opening \in [Callers -> Steps]
    BY <1>4
  <2>1. CASE AskForVault(c)
    <3>1. [step |-> IF KeyFound THEN "found" ELSE "missing"] \in Steps
      BY DEF Steps
    <3>2. opening' = [opening EXCEPT ![c] = [step |-> IF KeyFound THEN "found" ELSE "missing"]]
      BY <2>1 DEF AskForVault
    <3>3. overlapped' \in BOOLEAN
      BY <1>4, <2>1 DEF AskForVault
    <3>4. DataTypeOK'
      BY <1>4, <2>1, <3>1, <3>2, <3>3 DEF AskForVault
    <3>5. ~overlapped' => ~overlapped /\ \A d \in Callers : ~Making(d)
      BY <2>1 DEF AskForVault
    <3>6. /\ opening'[c].step \in {"found", "missing"}
          /\ opening'[c].step = "found" => keyFile # NoKey
          /\ opening'[c].step = "missing" => keyFile = NoKey
      BY <2>a, <3>2 DEF KeyFound
    <3>7. \A d \in Callers \ {c} : opening'[d] = opening[d]
      BY <2>a, <3>2
    <3>8. FoundIsThere' /\ OneKey'
      BY <1>2, <1>4, <2>1, <3>5, <3>6, <3>7 DEF AskForVault
    <3> QED BY <3>4, <3>8
  <2>2. CASE UseCachedVault(c)
    <3>1. opening' = [opening EXCEPT ![c] = [step |-> "open", key |-> vault]]
      BY <2>2 DEF UseCachedVault
    <3>2. vault \in Keys /\ [step |-> "open", key |-> vault] \in Steps
      BY <1>4, <2>2 DEF UseCachedVault, Steps
    <3>3. DataTypeOK'
      BY <1>4, <2>2, <3>1, <3>2 DEF UseCachedVault
    <3>4. opening'[c].step = "open" /\ opening'[c].key = vault
      BY <2>a, <3>1
    <3>5. \A d \in Callers \ {c} : opening'[d] = opening[d]
      BY <2>a, <3>1
    <3>6. FoundIsThere' /\ OneKey'
      BY <1>2, <1>4, <2>2, <3>2, <3>4, <3>5 DEF UseCachedVault
    <3> QED BY <3>3, <3>6
  <2>3. CASE CreateTemporary(c)
    <3>1. opening' = [opening EXCEPT ![c] = [step |-> "empty"]]
      BY <2>3 DEF CreateTemporary
    <3>2. [step |-> "empty"] \in Steps /\ temporary' \in BOOLEAN
      BY <2>3 DEF CreateTemporary, Steps
    <3>3. DataTypeOK'
      BY <1>4, <2>3, <3>1, <3>2 DEF CreateTemporary
    <3>4. opening'[c].step = "empty" /\ opening[c].step = "missing"
      BY <2>3, <2>a, <3>1 DEF CreateTemporary
    <3>5. \A d \in Callers \ {c} : opening'[d] = opening[d]
      BY <2>a, <3>1
    <3>6. FoundIsThere' /\ OneKey'
      BY <1>2, <1>4, <2>3, <3>4, <3>5 DEF CreateTemporary
    <3> QED BY <3>3, <3>6
  <2>4. CASE FailToCreate(c)
    <3>1. opening' = [opening EXCEPT ![c] = None]
      BY <2>4 DEF FailToCreate
    <3>2. DataTypeOK'
      BY <1>4, <2>4, <3>1 DEF FailToCreate, Steps
    <3>3. opening'[c].step = "none"
      BY <2>a, <3>1 DEF None
    <3>4. \A d \in Callers \ {c} : opening'[d] = opening[d]
      BY <2>a, <3>1
    <3>5. FoundIsThere' /\ OneKey'
      BY <1>2, <1>4, <2>4, <3>3, <3>4 DEF FailToCreate
    <3> QED BY <3>2, <3>5
  <2>5. CASE WriteTemporary(c)
    <3>1. PICK key \in Keys : opening' = [opening EXCEPT ![c] = [step |-> "written", key |-> key]]
      BY <2>5 DEF WriteTemporary
    <3>2. [step |-> "written", key |-> key] \in Steps
      BY DEF Steps
    <3>3. DataTypeOK'
      BY <1>4, <2>5, <3>1, <3>2 DEF WriteTemporary
    <3>4. opening'[c].step = "written" /\ opening[c].step = "empty"
      BY <2>5, <2>a, <3>1 DEF WriteTemporary
    <3>5. \A d \in Callers \ {c} : opening'[d] = opening[d]
      BY <2>a, <3>1
    <3>6. FoundIsThere' /\ OneKey'
      BY <1>2, <1>4, <2>5, <3>4, <3>5 DEF WriteTemporary
    <3> QED BY <3>3, <3>6
  <2>6. CASE ReplaceKeyFile(c)
    <3>1. opening' = [opening EXCEPT ![c] = [step |-> "found"]]
      BY <2>6 DEF ReplaceKeyFile
    <3>2. [step |-> "found"] \in Steps /\ temporary' \in BOOLEAN
      BY <2>6 DEF ReplaceKeyFile, Steps
    <3>3. keyFile' \in Keys
      <4>1. opening[c] \in Steps /\ opening[c].step = "written"
        BY <2>6, <2>a DEF ReplaceKeyFile
      <4>2. opening[c].key \in Keys
        BY <4>1 DEF Steps, None
      <4> QED BY <2>6, <4>2 DEF ReplaceKeyFile
    <3>4. DataTypeOK'
      BY <1>4, <2>6, <3>1, <3>2, <3>3 DEF ReplaceKeyFile
    <3>5. opening'[c].step = "found" /\ opening[c].step = "written"
      BY <2>6, <2>a, <3>1 DEF ReplaceKeyFile
    <3>6. \A d \in Callers \ {c} : opening'[d] = opening[d]
      BY <2>a, <3>1
    <3>7. FoundIsThere'
      BY <1>4, <3>3, <3>5, <3>6
    <3>8. \A d \in Callers : opening[d].step = "open" => opening[d].key \in Keys
      <4> SUFFICES ASSUME NEW d \in Callers, opening[d].step = "open"
                   PROVE  opening[d].key \in Keys
        OBVIOUS
      <4>1. opening[d] \in Steps
        BY <2>a
      <4> QED BY <4>1 DEF Steps, None
    <3>9. OneKey'
      <4> SUFFICES ASSUME ~overlapped' PROVE OneKey'
        OBVIOUS
      <4>1. keyFile = NoKey
        BY <1>4, <2>6, <3>5 DEF ReplaceKeyFile
      <4>2. \A d \in Callers : opening[d].step # "open"
        BY <1>4, <2>6, <3>8, <4>1 DEF ReplaceKeyFile
      <4>3. rows = {} /\ vault = NoKey
        BY <1>2, <1>4, <2>6, <4>1 DEF ReplaceKeyFile
      <4> QED BY <1>2, <1>4, <2>6, <3>5, <3>6, <4>2, <4>3 DEF ReplaceKeyFile
    <3> QED BY <3>4, <3>7, <3>9
  <2>7. CASE ReadKey(c)
    <3>1. opening' = [opening EXCEPT ![c] = [step |-> "open", key |-> keyFile]]
      BY <2>7 DEF ReadKey
    <3>2. keyFile \in Keys /\ [step |-> "open", key |-> keyFile] \in Steps
      BY <1>4, <2>7 DEF ReadKey, Steps
    <3>3. vault' \in {vault, keyFile}
      BY <2>7 DEF ReadKey
    <3>4. DataTypeOK'
      BY <1>4, <2>7, <3>1, <3>2, <3>3 DEF ReadKey
    <3>5. opening'[c].step = "open" /\ opening'[c].key = keyFile
      BY <2>a, <3>1
    <3>6. \A d \in Callers \ {c} : opening'[d] = opening[d]
      BY <2>a, <3>1
    <3>7. FoundIsThere' /\ OneKey'
      BY <1>2, <1>4, <2>7, <3>2, <3>3, <3>5, <3>6 DEF ReadKey
    <3> QED BY <3>4, <3>7
  <2>8. CASE EndRequest(c)
    <3>1. opening' = [opening EXCEPT ![c] = None]
      BY <2>8 DEF EndRequest
    <3>2. opening[c].step = "open" /\ opening[c].key \in Keys
      <4>1. opening[c] \in Steps /\ opening[c].step = "open"
        BY <2>8, <2>a DEF EndRequest
      <4> QED BY <4>1 DEF Steps, None
    <3>3. rows' = rows \/ rows' = {opening[c].key}
      BY <2>8 DEF EndRequest
    <3>4. DataTypeOK'
      BY <1>4, <2>8, <3>1, <3>2, <3>3 DEF EndRequest, Steps
    <3>5. opening'[c].step = "none"
      BY <2>a, <3>1 DEF None
    <3>6. \A d \in Callers \ {c} : opening'[d] = opening[d]
      BY <2>a, <3>1
    <3>7. FoundIsThere' /\ OneKey'
      BY <1>2, <1>4, <2>8, <3>2, <3>3, <3>5, <3>6 DEF EndRequest
    <3> QED BY <3>4, <3>7
  <2> QED BY <1>6, <2>1, <2>2, <2>3, <2>4, <2>5, <2>6, <2>7, <2>8 DEF Serve
<1> QED BY <1>3, <1>5, <1>6 DEF ServiceStep, FirstUseInv

-----------------------------------------------------------------------------
LEMMA FirstUseKeeps ==
  IInv /\ FirstUseInv /\ [FirstUseNext]_firstUseVars => IInv' /\ FirstUseInv'
<1> SUFFICES ASSUME IInv, FirstUseInv, [FirstUseNext]_firstUseVars
             PROVE  IInv' /\ FirstUseInv'
  OBVIOUS
<1>1. CASE InstallerStep
  BY <1>1, InstallNext, InstallerKeepsData DEF InstallerStep
<1>2. CASE ServiceStep
  BY <1>2, InstallNext, ServiceKeepsData DEF ServiceStep
<1>3. CASE UNCHANGED firstUseVars
  BY <1>3, InstallNext
  DEF firstUseVars, dataVars, serviceVars, FirstUseInv, DataTypeOK, StoppedIfDisabled,
      NoDataBefore, FoundIsThere, OneKey, AtStep, Making, installVars
<1> QED BY <1>1, <1>2, <1>3 DEF FirstUseNext

(* Unless first uses of the vault overlap, the key file opens every row    *)
(* and is that of the vault in use, for any number of threads, however     *)
(* often installations, cleanups and the service are cut off.              *)
THEOREM KeyAlwaysOpensRows == FirstUseSpec => []KeyOpensRows
<1>1. IInv /\ FirstUseInv => KeyOpensRows
  BY DEF FirstUseInv, OneKey, KeyOpensRows
<1> QED BY <1>1, FirstUseStarts, FirstUseKeeps, PTL DEF FirstUseSpec

(* The service in use leaves the installer's promise as it is: every step  *)
(* of the two together is one of the installer or none.                    *)
THEOREM ServedInstallationComplete == FirstUseSpec => []EnabledIsComplete
<1>1. IInv => EnabledIsComplete
  BY DEF IInv
<1> QED BY <1>1, FirstUseStarts, FirstUseKeeps, PTL DEF FirstUseSpec
=============================================================================

----------------------------- MODULE Installer -----------------------------
(***************************************************************************)
(* scripts/install.sh --install: a program that makes files and accounts   *)
(* in a fixed order, enables the services at the end, and removes what it  *)
(* made when a command fails or a signal ends it.  It can be killed, or    *)
(* lose power, between any two of its commands and also in its cleanup,    *)
(* and be started again at any time.                                       *)
(*                                                                         *)
(* Of a file it is kept whether it is absent, in part or whole.  Checks    *)
(* of the system before the first change are left out: where one fails     *)
(* nothing has happened.  One administrator runs one installer at a time.  *)
(***************************************************************************)
EXTENDS Naturals, Sequences

VARIABLES
  files,      \* artefact -> "absent", "partial" or "whole"
  enabled,    \* systemd starts the services, now and at every boot
  tested,     \* the tests passed on the files that are there
  stage,      \* "idle", "prompt", "install", "cleanup"; "cleaned" after it
  next        \* position in Program or in CleanupProgram

installVars == <<files, enabled, tested, stage, next>>

Artefacts ==
  {"account", "app", "pysim", "appVenv", "venv", "tlsDir", "credentials",
   "env", "tlsKey", "tlsCert", "unit", "redirect"}

(* Mutant: the services are enabled before the tests have run.             *)
ServicesBeforeTests ==
  <<"account", "app", "pysim", "appVenv", "venv", "tlsDir", "credentials",
    "env", "tlsKey", "tlsCert", "unit", "redirect", "enable", "tests">>

(* The commands that make something, in their order                        *)
Program ==
  <<"account", "app", "pysim", "appVenv", "venv", "tlsDir", "credentials",
    "env", "tlsKey", "tlsCert", "unit", "redirect", "tests", "enable">>

(* cleanup_failed_install; the application's own environment lies in its   *)
(* directory.                                                              *)
CleanupProgram ==
  <<"services", "unit", "redirect", "env", "credentials", "app", "pysim",
    "venv", "tlsDir">>

(* What the installer takes for an existing installation                   *)
InstallationFound ==
  \E file \in {"app", "pysim", "venv", "env", "credentials", "tlsKey",
               "tlsCert", "unit", "redirect"} : files[file] # "absent"

(* Mutant: the trap is set before the existing installation is looked for. *)
TrapAlwaysSet(at) == TRUE

(* The exit trap is set after the last question.                           *)
TrapSet(at) == at = "install"

Init ==
  /\ \E account \in {"absent", "whole"} :
       files = [a \in Artefacts |-> IF a = "account" THEN account ELSE "absent"]
  /\ enabled = FALSE
  /\ tested = FALSE
  /\ stage = "idle"
  /\ next = 1

(* An exit with an error: the trap cleans up, if it is set.                *)
ExitFrom(at) ==
  /\ stage' = IF TrapSet(at) THEN "cleanup" ELSE "idle"
  /\ next' = 1

Begin ==
  /\ stage \in {"idle", "cleaned"}
  /\ ~InstallationFound
  /\ stage' = "prompt"
  /\ UNCHANGED <<files, enabled, tested, next>>

(* An existing installation is not overwritten.                            *)
Refuse ==
  /\ stage \in {"idle", "cleaned"}
  /\ InstallationFound
  /\ ExitFrom("check")
  /\ UNCHANGED <<files, enabled, tested>>

(* The passwords differ, are too short, or the question is interrupted.    *)
RefusePassword ==
  /\ stage = "prompt"
  /\ ExitFrom("prompt")
  /\ UNCHANGED <<files, enabled, tested>>

AcceptPassword ==
  /\ stage = "prompt"
  /\ stage' = "install"
  /\ next' = 1
  /\ tested' = FALSE
  /\ UNCHANGED <<files, enabled>>

-----------------------------------------------------------------------------
At(command) == stage = "install" /\ next <= Len(Program) /\ Program[next] = command

(* Copied by a pipe of two tars, of which the shell sees only the second   *)
(* fail: a copy that the first one breaks off passes for whole.            *)
Piped == {"app", "pysim"}

MakeFile(file) ==
  /\ At(file)
  /\ \E made \in {"whole"} \cup (IF file \in Piped THEN {"partial"} ELSE {}) :
       files' = [files EXCEPT ![file] = made]
  /\ next' = next + 1
  /\ UNCHANGED <<enabled, tested, stage>>

PassTests ==
  /\ At("tests")
  /\ tested' = TRUE
  /\ next' = next + 1
  /\ UNCHANGED <<files, enabled, stage>>

EnableServices ==
  /\ At("enable")
  /\ enabled' = TRUE
  /\ next' = next + 1
  /\ UNCHANGED <<files, tested, stage>>

(* The trap is removed.                                                    *)
Finish ==
  /\ stage = "install"
  /\ next > Len(Program)
  /\ stage' = "idle"
  /\ next' = 1
  /\ UNCHANGED <<files, enabled, tested>>

(* What a command that did not end has done: a file may be there in part,  *)
(* the services be enabled but not all of them running.                    *)
PartOfCommand ==
  \/ UNCHANGED <<files, enabled>>
  \/ /\ \E file \in Artefacts :
          /\ At(file)
          /\ files[file] = "absent"
          /\ files' = [files EXCEPT ![file] = "partial"]
     /\ UNCHANGED enabled
  \/ /\ At("enable")
     /\ enabled' = TRUE
     /\ UNCHANGED files

(* A command fails, or a signal arrives.                                   *)
Fail ==
  /\ stage = "install"
  /\ ExitFrom("install")
  /\ PartOfCommand
  /\ UNCHANGED tested

-----------------------------------------------------------------------------
Cleaning(command) ==
  /\ stage = "cleanup"
  /\ next <= Len(CleanupProgram)
  /\ CleanupProgram[next] = command

DisableServices ==
  /\ Cleaning("services")
  /\ enabled' = FALSE
  /\ next' = next + 1
  /\ UNCHANGED <<files, tested, stage>>

Remove(file) ==
  /\ Cleaning(file)
  /\ file # "tlsDir"
  /\ files' = [a \in Artefacts |->
                 IF a = file \/ (file = "app" /\ a = "appVenv") THEN "absent" ELSE files[a]]
  /\ next' = next + 1
  /\ UNCHANGED <<enabled, tested, stage>>

(* rmdir removes an empty directory only, and its failure is ignored.      *)
RemoveTlsDirectory ==
  /\ Cleaning("tlsDir")
  /\ files' = IF files["tlsKey"] = "absent" /\ files["tlsCert"] = "absent"
              THEN [files EXCEPT !["tlsDir"] = "absent"] ELSE files
  /\ next' = next + 1
  /\ UNCHANGED <<enabled, tested, stage>>

FinishCleanup ==
  /\ stage = "cleanup"
  /\ next > Len(CleanupProgram)
  /\ stage' = "cleaned"
  /\ next' = 1
  /\ UNCHANGED <<files, enabled, tested>>

(* A kill or a power failure; in the cleanup also a failing rm and any     *)
(* signal, since it starts by removing the traps.  rm -r may have removed  *)
(* a part.                                                                 *)
Kill ==
  /\ stage \in {"prompt", "install", "cleanup"}
  /\ stage' = "idle"
  /\ next' = 1
  /\ \/ PartOfCommand
     \/ /\ \E directory \in {"app", "pysim", "venv"} :
             /\ Cleaning(directory)
             /\ files[directory] # "absent"
             /\ files' = [files EXCEPT ![directory] = "partial"]
        /\ UNCHANGED enabled
  /\ UNCHANGED tested

Work ==
  \/ \E file \in Artefacts : MakeFile(file)
  \/ PassTests \/ EnableServices \/ Finish
  \/ Fail
  \/ DisableServices \/ RemoveTlsDirectory \/ FinishCleanup
  \/ \E file \in Artefacts : Remove(file)

Next ==
  \/ Begin \/ Refuse \/ RefusePassword \/ AcceptPassword
  \/ Work
  \/ Kill

Spec == Init /\ [][Next]_installVars

-----------------------------------------------------------------------------
(* Services that start at the next boot have all their files, and these    *)
(* passed the tests, wherever the installer or its cleanup was killed.     *)
(* What came through a pipe may be in part; the tests passed on that part. *)
EnabledIsComplete ==
  enabled =>
    /\ tested
    /\ \A file \in Artefacts :
         files[file] = "whole" \/ (file \in Piped /\ files[file] = "partial")

(* An attempt beside enabled services ends with its check: it neither      *)
(* changes the installation nor starts a cleanup, which would remove it.   *)
InstallationKept ==
  [][enabled /\ stage \in {"idle", "cleaned"}
       => UNCHANGED <<files, enabled, stage>>]_installVars

(* A failed attempt whose cleanup came to its end does not keep the next   *)
(* one from beginning (CHANGELOG.md:38-40).  The cleanup leaves the key    *)
(* and the certificate (install.sh:109-111), and these are looked for.     *)
AttemptCanFollow == stage = "cleaned" => ~InstallationFound
=============================================================================

--------------------------- MODULE VersionedStore ---------------------------
(***************************************************************************)
(* What the profile vault promises about its revision history, without     *)
(* tables, drafts or callers: every stored profile has a history of        *)
(* versions numbered without gaps; a history starts, grows at its end by   *)
(* one version at a time, or disappears as a whole with its profile.  No   *)
(* version is ever rewritten.                                              *)
(***************************************************************************)
EXTENDS Integers, Tables

VARIABLE history    \* profile -> (version number -> version)

Newest(versions) ==
  CHOOSE n \in DOMAIN versions : \A m \in DOMAIN versions : m <= n

(* A vault may be opened with profiles of an earlier release, whose        *)
(* histories end with the active version and begin where that release      *)
(* began to record them.                                                   *)
Init ==
  \A p \in DOMAIN history :
    \E first \in DOMAIN history[p] : DOMAIN history[p] = first..Newest(history[p])

(* Profiles enter with their first version, several in one import.         *)
Create ==
  /\ DOMAIN history \subseteq DOMAIN history'
  /\ \A p \in DOMAIN history : history'[p] = history[p]
  /\ \A p \in DOMAIN history' \ DOMAIN history : DOMAIN history'[p] = {1}

Revise(p) ==
  LET next == Newest(history[p]) + 1
  IN  /\ DOMAIN history' = DOMAIN history
      /\ \A q \in DOMAIN history \ {p} : history'[q] = history[q]
      /\ DOMAIN history'[p] = DOMAIN history[p] \cup {next}
      /\ \A n \in DOMAIN history[p] : history'[p][n] = history[p][n]

Erase(p) == history' = Drop(history, p)

Next ==
  \/ Create
  \/ \E p \in DOMAIN history : Revise(p) \/ Erase(p)

Spec == Init /\ [][Next]_history
=============================================================================

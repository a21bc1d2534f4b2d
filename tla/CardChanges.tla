----------------------------- MODULE CardChanges -----------------------------
(***************************************************************************)
(* What prepared changes promise, without requests, files, stages or       *)
(* reasons to fail: a profile and its card move together.  A prepared      *)
(* change lets a card be changed only in the parts that it names, however  *)
(* often this is tried and wherever it is cut off; and a profile takes     *)
(* over only contents that its card has at this moment, a prepared change  *)
(* as a whole or, without one, parts that were read from the card.         *)
(***************************************************************************)
EXTENDS Tables

VARIABLES
  stored,    \* profile -> [card, parts: part -> contents]
  wanted,    \* profile -> the parts that its prepared change gives new contents
  held       \* card -> part -> contents

cardChangeVars == <<stored, wanted, held>>

(* Contents with some of the parts replaced                                *)
Overlaid(parts, new) ==
  [f \in DOMAIN parts |-> IF f \in DOMAIN new THEN new[f] ELSE parts[f]]

Init == wanted = EmptyTable

Enter ==
  /\ DOMAIN stored \subseteq DOMAIN stored'
  /\ \A p \in DOMAIN stored : stored'[p] = stored[p]
  /\ UNCHANGED <<held, wanted>>

Remove(p) ==
  /\ stored' = Drop(stored, p)
  /\ wanted' = Drop(wanted, p)
  /\ UNCHANGED held

(* A change is prepared, in place of the one that was there.               *)
Prepare(p) ==
  /\ p \in DOMAIN stored
  /\ DOMAIN wanted' = DOMAIN wanted \cup {p}
  /\ \A q \in DOMAIN wanted \ {p} : wanted'[q] = wanted[q]
  /\ UNCHANGED <<stored, held>>

Withdraw(p) ==
  /\ wanted' = Drop(wanted, p)
  /\ UNCHANGED <<stored, held>>

(* Some attempt at a change: what is written may be wrong or incomplete.   *)
Write(p) ==
  /\ p \in DOMAIN wanted
  /\ LET card == stored[p].card
         touched == Restrict(held'[card], DOMAIN wanted[p])
     IN  held' = [held EXCEPT ![card] = Overlaid(@, touched)]
  /\ UNCHANGED <<stored, wanted>>

(* The card has the whole change, and so does the profile from now on; in  *)
(* all other parts it stays as it is.                                      *)
Accept(p) ==
  /\ p \in DOMAIN wanted
  /\ \A f \in DOMAIN wanted[p] : held[stored[p].card][f] = wanted[p][f]
  /\ stored' = [stored EXCEPT ![p].parts = Overlaid(@, wanted[p])]
  /\ wanted' = Drop(wanted, p)
  /\ UNCHANGED held

(* The profile takes over some parts of its card.                          *)
Learn(p) ==
  /\ p \in DOMAIN stored \ DOMAIN wanted
  /\ \E parts \in SUBSET DOMAIN stored[p].parts :
       LET read == Restrict(held[stored[p].card], parts)
       IN  stored' = [stored EXCEPT ![p].parts = Overlaid(@, read)]
  /\ UNCHANGED <<wanted, held>>

Next ==
  \/ Enter
  \/ \E p \in DOMAIN stored :
       Remove(p) \/ Prepare(p) \/ Withdraw(p) \/ Write(p) \/ Accept(p) \/ Learn(p)

Spec == Init /\ [][Next]_cardChangeVars
=============================================================================

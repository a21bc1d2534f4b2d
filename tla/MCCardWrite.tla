----------------------------- MODULE MCCardWrite -----------------------------
(* The write bridge on small constants for TLC.                            *)
EXTENDS CardWrite

CONSTANTS keyA, keyB, v1, v2

FourDigits == <<0, 0, 0, 0>>
Short == <<1>>

Profile(value, routing, mode, protection, list) ==
  [plain |-> [f \in Plain |-> value], routing |-> routing, mode |-> mode,
   protection |-> protection, form |-> "form", list |-> list]

FromFile(record) == [record EXCEPT !.form = "text"]

Entry(priority, protection) == [priority |-> priority, protection |-> protection]

(* Out of the order of its priorities                                      *)
TwoEntries == <<Entry(1, NullScheme), Entry(0, keyA)>>

SmallEntered ==
  {Profile(v1, FourDigits, "me", Unset, <<>>),
   FromFile(Profile(v1, FourDigits, "me", keyA, <<>>)),
   Profile(v1, Short, "me", NullScheme, <<>>)}

(* Each changes several files of the record before it in some order of     *)
(* them; the last cannot be written to any card.                           *)
SmallRequested ==
  {Profile(v1, FourDigits, "me", NullScheme, <<>>),
   Profile(v1, FourDigits, "me", keyA, <<>>),
   Profile(v2, FourDigits, "me", keyA, TwoEntries),
   Profile(v2, Short, "me", keyB, <<>>),
   Profile(v2, FourDigits, "usim", keyB, <<>>),
   Profile(v2, NoRouting, "me", Unset, <<>>)}
=============================================================================

---------------------------- MODULE TablesLemmas ----------------------------
(* What the operators of Tables do to the rows of a table.                 *)
EXTENDS Tables, TLAPS

(* An upserted table is typed when the old one, the key and the row are.   *)
LEMMA PutType ==
  ASSUME NEW table, NEW key, NEW row, NEW K, NEW R,
         IsTable(table, K, R), key \in K, row \in R
  PROVE  IsTable(Put(table, key, row), K, R)
BY DEF Put, IsTable

(* Several inserted rows win over rows with the same key, and the others   *)
(* stay.                                                                   *)
LEMMA PutAllRows ==
  ASSUME NEW table, NEW rows
  PROVE  /\ DOMAIN PutAll(table, rows) = DOMAIN table \cup DOMAIN rows
         /\ \A k \in DOMAIN rows : PutAll(table, rows)[k] = rows[k]
         /\ \A k \in DOMAIN table \ DOMAIN rows : PutAll(table, rows)[k] = table[k]
BY DEF PutAll

(* A table stays typed when a typed table is inserted.                     *)
LEMMA PutAllType ==
  ASSUME NEW table, NEW rows, NEW K, NEW R,
         IsTable(table, K, R), IsTable(rows, K, R)
  PROVE  IsTable(PutAll(table, rows), K, R)
BY DEF PutAll, IsTable

(* INSERT OR IGNORE of rows that are all there changes nothing.            *)
LEMMA PutMissingNothing ==
  ASSUME NEW table, NEW rows, NEW K, NEW R, IsTable(table, K, R),
         DOMAIN rows \subseteq DOMAIN table
  PROVE  PutMissing(table, rows) = table
<1>1. DOMAIN rows \cup DOMAIN table = DOMAIN table
  OBVIOUS
<1> QED BY <1>1 DEF PutMissing, PutAll, IsTable

(* A deletion keeps the rows outside the deleted keys as they are.         *)
LEMMA RestrictRows ==
  ASSUME NEW table, NEW S
  PROVE  /\ DOMAIN Restrict(table, S) = S
         /\ \A k \in S : Restrict(table, S)[k] = table[k]
BY DEF Restrict

(* A table stays typed when rows are deleted.                              *)
LEMMA RestrictType ==
  ASSUME NEW table, NEW S, NEW K, NEW R,
         IsTable(table, K, R), S \subseteq DOMAIN table
  PROVE  IsTable(Restrict(table, S), K, R)
BY DEF Restrict, IsTable
=============================================================================

------------------------------- MODULE Tables -------------------------------
(***************************************************************************)
(* SQL tables as functions from the primary key to the row.  A function    *)
(* has one value per argument, so the uniqueness of a primary key is part  *)
(* of the representation; Restrict of the community module Functions is    *)
(* DELETE ... WHERE.                                                       *)
(***************************************************************************)
EXTENDS Functions

IsTable(table, Keys, Rows) ==
  DOMAIN table \subseteq Keys /\ table \in [DOMAIN table -> Rows]

EmptyTable == [k \in {} |-> k]

(* INSERT ... ON CONFLICT DO UPDATE, or UPDATE of a row that exists.       *)
Put(table, key, row) ==
  [k \in DOMAIN table \cup {key} |-> IF k = key THEN row ELSE table[k]]

(* INSERT of several rows; a row that is there already gives way.          *)
PutAll(table, rows) ==
  [k \in DOMAIN table \cup DOMAIN rows |->
     IF k \in DOMAIN rows THEN rows[k] ELSE table[k]]

(* INSERT OR IGNORE: a row that is there already stays.                    *)
PutMissing(table, rows) == PutAll(rows, table)

(* DELETE of the row with this key.                                        *)
Drop(table, key) == Restrict(table, DOMAIN table \ {key})
=============================================================================

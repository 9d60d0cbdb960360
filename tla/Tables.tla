------------------------------- MODULE Tables -------------------------------
(***************************************************************************)
(* A SQLite table whose key is an INTEGER PRIMARY KEY without              *)
(* AUTOINCREMENT: a partial function from rowids to rows.                  *)
(***************************************************************************)
EXTENDS Integers

NoRows == <<>>

Put(table, id, row) ==
  [x \in DOMAIN table \cup {id} |-> IF x = id THEN row ELSE table[x]]

Drop(table, ids) == [x \in DOMAIN table \ ids |-> table[x]]

\* The rowid an INSERT gets: one above the largest in the table, so that the
\* id of the newest row is given again once that row is deleted.
IsNextRowid(table, id) ==
  /\ \A x \in DOMAIN table : x < id
  /\ id = 1 \/ id - 1 \in DOMAIN table

=============================================================================

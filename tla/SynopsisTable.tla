--------------------------- MODULE SynopsisTable ---------------------------
(***************************************************************************)
(* What editing a synopsis on disk promises: the table is changed at once, *)
(* in the first row of the title, or not at all.  It is the contract of    *)
(* CSVFileSynopsisProvider (include/core/movie.h:76-117); copying,         *)
(* removing and renaming must be invisible, whenever the program dies.     *)
(* Only a copy that was damaged may do harm, and only at the end.          *)
(***************************************************************************)
EXTENDS CsvTable

CONSTANT NoField    \* a field of a row that ends before its column

VARIABLES
  table,     \* the rows a reader of the file, or its rescuer, finds
  damaged    \* the edit that runs could not copy the whole table

AnyRow == [title : Titles \cup {NoField}, synopsis : Synopses \cup {NoField}]

TableInit == table \in Seq(AnyRow)

Edit(t, s) == table' = EditField(table, t, s)

\* Rows are missing at the end, and the last of the others may be any row.
Damage(t, s) ==
  /\ damaged
  /\ table' \in Seq(AnyRow)
  /\ Len(table') <= Len(table)
  /\ \A i \in 1 .. Len(table') - 1 : table'[i] = EditField(table, t, s)[i]

TableNext == \E t \in Titles, s \in Synopses : Edit(t, s) \/ Damage(t, s)

TableSpec == TableInit /\ [][TableNext]_table

=============================================================================

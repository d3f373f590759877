------------------------------ MODULE CsvTable ------------------------------
(***************************************************************************)
(* The movie list on disk (src/core/utils.cpp, src/core/movie.cpp).        *)
(*                                                                         *)
(* A well formed CSV file is its sequence of data rows; of a row's columns *)
(* only the key and the synopsis matter to the catalogs, the others are    *)
(* copied between the file and the Movie objects without being compared.   *)
(* Nothing forbids two rows with one title, and the readers disagree on    *)
(* which of them counts: get_field and edit_field take the first,          *)
(* load_page the last.                                                     *)
(***************************************************************************)
EXTENDS Integers, Sequences

CONSTANTS
  Titles,     \* the movie titles, key of every row
  Synopses,   \* the texts a synopsis can hold
  Empty       \* the empty text, returned when no row has the title

ASSUME EmptyAssumption == Empty \in Synopses

Row == [title : Titles, synopsis : Synopses]

\* The positions where a scan from the front stops: none or one.
FirstHits(seq, t) ==
  { i \in DOMAIN seq : /\ seq[i].title = t
                       /\ \A j \in 1 .. i - 1 : seq[j].title # t }

\* The position an overwriting scan leaves behind: none or one.
LastHits(seq, t) ==
  { i \in DOMAIN seq : /\ seq[i].title = t
                       /\ \A j \in i + 1 .. Len(seq) : seq[j].title # t }

SynopsisAt(rows, hits) ==
  IF hits = {} THEN Empty ELSE rows[CHOOSE i \in hits : TRUE].synopsis

\* CSVFileSynopsisProvider::get_synopsis: csv::get_field stops at the first
\* matching row (FoundException); no row at all reads as the empty text.
GetField(rows, t) == SynopsisAt(rows, FirstHits(rows, t))

\* The synopsis load_page keeps while parse_csv runs over the whole file.
ParsedField(rows, t) == SynopsisAt(rows, LastHits(rows, t))

\* Mutant: the edit goes to the last matching row.
EditFieldLast(rows, t, s) ==
  [ i \in DOMAIN rows |->
      IF i \in LastHits(rows, t) THEN [rows[i] EXCEPT !.synopsis = s]
                                 ELSE rows[i] ]

\* csv::edit_field rewrites the first matching row and copies every other;
\* a title without a row changes nothing, and nobody is told.
EditField(rows, t, s) ==
  [ i \in DOMAIN rows |->
      IF i \in FirstHits(rows, t) THEN [rows[i] EXCEPT !.synopsis = s]
                                  ELSE rows[i] ]

=============================================================================

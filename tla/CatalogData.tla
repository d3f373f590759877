---------------------------- MODULE CatalogData ----------------------------
(***************************************************************************)
(* The state every catalog class shares, and BasicCatalog's operations on  *)
(* it (src/core/catalog.cpp:152-274): the vector of movies and the files   *)
(* it is built from and saved to.                                          *)
(*                                                                         *)
(* The constructor and save() walk a file or the vector one element at a   *)
(* time and run other code for each of them (add(), and synopsis() with    *)
(* the caching behind it), so each is one step per element; "phase" says   *)
(* which of the two is running.  The class modules compose these operators *)
(* into their actions.                                                     *)
(***************************************************************************)
EXTENDS CsvTable, SequencesExt

CONSTANTS
  FromCsv,      \* base provider CSVFileSynopsisProvider: the text is on disk
  InitialCsv,   \* the contents the program's CSV file may start with
  Addable,      \* what the client of an instance does: the titles it adds,
  Removable,    \*   those it removes,
  Editable,     \*   those whose synopsis it sets,
  SaveTargets,  \*   the files it saves to,
  Restarts      \*   and whether the program is ever stopped and restarted

Files == {"own", "copy"}   \* the file the catalog was built from, another one

ASSUME FromCsvAssumption == FromCsv \notin Synopses
ASSUME InitialCsvAssumption == \A rows \in InitialCsv : rows \in Seq(Row)
ASSUME ClientAssumption ==
  /\ Addable \subseteq Titles
  /\ Removable \subseteq Titles
  /\ Editable \subseteq Titles
  /\ SaveTargets \subseteq Files
  /\ Restarts \in BOOLEAN

VARIABLES
  file,     \* contents of the two files
  data,     \* _data: the movies, in insertion order
  phase,    \* "load": in the constructor; "save": in save(); "idle": neither
  pos,      \* next row to read or movie to write; 1 when idle
  target    \* the file save() has open; "own" when it has none

dataVars == <<file, data, phase, pos, target>>

csv == file["own"]

Movie == [title : Titles, base : Synopses \cup {FromCsv}]

DataTypeOK ==
  /\ file \in [Files -> Seq(Row)]
  /\ data \in Seq(Movie)
  /\ phase \in {"load", "idle", "save"}
  /\ pos \in Nat \ {0}
  /\ target \in Files

DataInit ==
  /\ \E rows \in InitialCsv :
       file = [f \in Files |-> IF f = "own" THEN rows ELSE <<>>]
  /\ data = <<>>
  /\ phase = "load"
  /\ pos = 1
  /\ target = "own"

-----------------------------------------------------------------------------
Exists(t) == \E i \in DOMAIN data : data[i].title = t

\* get_index: the position of an existing title.
IndexOf(t) == CHOOSE i \in FirstHits(data, t) : TRUE

\* Mutant: the text of a movie on disk is not read.
BaseTextUnread(t) == data[IndexOf(t)].base

\* What the movie's own provider returns, behind every cache.
BaseText(t) ==
  LET base == data[IndexOf(t)].base
  IN  IF base = FromCsv THEN GetField(csv, t) ELSE base

\* Mutant: no look for the title first.
PushAlways(t, base) == data' = Append(data, [title |-> t, base |-> base])

\* add: a movie whose title is present is destroyed, not added.
PushMovie(t, base) ==
  data' = IF Exists(t) THEN data ELSE Append(data, [title |-> t, base |-> base])

\* remove: erases the first movie with the title, if any.
EraseMovie(t) ==
  data' = IF Exists(t) THEN RemoveAt(data, IndexOf(t)) ELSE data

\* Movie::set_synopsis as far as the base provider: the CSV provider rewrites
\* the file, the direct one its own text.
SetBase(t, s) ==
  LET i == IndexOf(t) IN
  IF data[i].base = FromCsv
  THEN file' = [file EXCEPT !["own"] = EditField(csv, t, s)] /\ UNCHANGED data
  ELSE data' = [data EXCEPT ![i].base = s] /\ UNCHANGED file

-----------------------------------------------------------------------------
\* The constructor adds the movie of one row; "base" is its provider.
LoadMovie(base) ==
  /\ phase = "load"
  /\ pos <= Len(csv)
  /\ PushMovie(csv[pos].title, base)
  /\ pos' = pos + 1
  /\ UNCHANGED <<file, phase, target>>

\* Mutant: stops one row early.
LoadDoneEarly ==
  /\ phase = "load"
  /\ pos >= Len(csv)
  /\ phase' = "idle"
  /\ pos' = 1
  /\ UNCHANGED <<file, data, target>>

LoadDone ==
  /\ phase = "load"
  /\ pos > Len(csv)
  /\ phase' = "idle"
  /\ pos' = 1
  /\ UNCHANGED <<file, data, target>>

\* Mutant: the stream appends instead of truncating.
OpenOutputAppending(f) ==
  /\ phase = "idle"
  /\ f \in SaveTargets
  /\ phase' = "save"
  /\ target' = f
  /\ pos' = 1
  /\ UNCHANGED <<file, data>>

\* save: opening the output stream truncates the file before a movie is read.
OpenOutput(f) ==
  /\ phase = "idle"
  /\ f \in SaveTargets
  /\ phase' = "save"
  /\ target' = f
  /\ pos' = 1
  /\ file' = [file EXCEPT ![f] = <<>>]
  /\ UNCHANGED data

\* save: one row; write_row flushes it (endl), so later reads see it.
WriteMovie(text) ==
  /\ file' = [file EXCEPT ![target] =
                Append(@, [title |-> data[pos].title, synopsis |-> text])]
  /\ pos' = pos + 1
  /\ UNCHANGED <<data, phase, target>>

\* No catalog reads the other file: its contents are forgotten when save ends.
ForgetCopy == file' = [file EXCEPT !["copy"] = <<>>]

\* Mutant: stops one movie early.
CloseOutputEarly ==
  /\ phase = "save"
  /\ pos >= Len(data)
  /\ phase' = "idle"
  /\ pos' = 1
  /\ target' = "own"
  /\ ForgetCopy
  /\ UNCHANGED data

CloseOutput ==
  /\ phase = "save"
  /\ pos > Len(data)
  /\ phase' = "idle"
  /\ pos' = 1
  /\ target' = "own"
  /\ ForgetCopy
  /\ UNCHANGED data

\* The program dies, or drops the catalog without saving, and builds another
\* catalog from what its file holds: in the middle of a save, a prefix.
Reopen ==
  /\ Restarts
  /\ phase # "load"
  /\ data' = <<>>
  /\ phase' = "load"
  /\ pos' = 1
  /\ target' = "own"
  /\ ForgetCopy

-----------------------------------------------------------------------------
\* No title is in the catalog twice: every operation of the classes that
\* finds a movie by its first match relies on it.
UniqueTitles ==
  \A i, j \in DOMAIN data : data[i].title = data[j].title => i = j

\* A movie whose text is only on disk has its row on disk, but for the time its
\* own file is rewritten: get_field would otherwise read it as empty and
\* edit_field drop an edit, both silently (catalog.cpp:236-274, utils.cpp:103-181).
LazyRowsPresent ==
  (phase = "save" => target # "own") =>
    \A i \in DOMAIN data :
      data[i].base = FromCsv => FirstHits(csv, data[i].title) # {}

\* The rows a save of the whole catalog should leave behind.
WholeCatalog ==
  [i \in DOMAIN data |->
     [title |-> data[i].title, synopsis |-> BaseText(data[i].title)]]

=============================================================================

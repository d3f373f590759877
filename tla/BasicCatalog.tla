---------------------------- MODULE BasicCatalog ----------------------------
(***************************************************************************)
(* The catalog without a cache (src/core/catalog.cpp:150-274): every       *)
(* movie, read from a file or added, holds its synopsis in memory          *)
(* (DirectSynopsisProvider), and the file is only read by the constructor. *)
(***************************************************************************)
EXTENDS CatalogData

\* BasicCatalog(filename): parse_csv calls add() for every row.
Load == LoadMovie(csv[pos].synopsis)

LoadEnd == LoadDone

AddMovie(t, s) ==
  /\ phase = "idle"
  /\ t \in Addable
  /\ PushMovie(t, s)
  /\ UNCHANGED <<file, phase, pos, target>>

RemoveMovie(t) ==
  /\ phase = "idle"
  /\ t \in Removable
  /\ EraseMovie(t)
  /\ UNCHANGED <<file, phase, pos, target>>

\* get_movie(title).value().get().set_synopsis(s)
SetSynopsis(t, s) ==
  /\ phase = "idle"
  /\ t \in Editable
  /\ Exists(t)
  /\ SetBase(t, s)
  /\ UNCHANGED <<phase, pos, target>>

Save(f) == OpenOutput(f)

SaveRow ==
  /\ phase = "save"
  /\ pos <= Len(data)
  /\ WriteMovie(BaseText(data[pos].title))

SaveEnd == CloseOutput

Init == DataInit

Next ==
  \/ Load
  \/ LoadEnd
  \/ \E t \in Titles, s \in Synopses : AddMovie(t, s) \/ SetSynopsis(t, s)
  \/ \E t \in Titles : RemoveMovie(t)
  \/ \E f \in Files : Save(f)
  \/ SaveRow
  \/ SaveEnd
  \/ Reopen

Spec == Init /\ [][Next]_dataVars

-----------------------------------------------------------------------------
\* What a client sees of a title: its synopsis, FromCsv without the movie.
View(t) == IF Exists(t) THEN BaseText(t) ELSE FromCsv

TypeOK == DataTypeOK /\ \A i \in DOMAIN data : data[i].base # FromCsv

\* A finished save leaves in the file exactly the movies of the catalog, in
\* order, each once and with its synopsis, also when the file is the one the
\* catalog was built from (catalog.cpp:236-274).
SaveRoundTrip == [][SaveEnd => file[target] = WholeCatalog]_dataVars

\* While a save runs the file holds the rows of a prefix of the catalog, and
\* nothing of what it held before: what a program that dies here leaves.
SavingLeavesPrefix ==
  phase = "save" =>
    /\ Len(file[target]) = pos - 1
    /\ \A i \in DOMAIN file[target] : file[target][i] = WholeCatalog[i]

\* A catalog just built from a file with one row per title holds every row of
\* it, in order: what save wrote is what the next constructor reads.
LoadRoundTrip ==
  [][LoadEnd => ( (\A i, j \in DOMAIN csv : csv[i].title = csv[j].title => i = j)
                  => WholeCatalog = csv )]_dataVars

\* The promise of catalog.h: the client alone changes what is served, movie by
\* movie; a title removed is gone and cannot reappear with another text.
OnlyTheClientChanges ==
  [][\A t \in Titles :
       View(t)' # View(t) =>
         \/ Load /\ View(t) = FromCsv
         \/ Reopen
         \/ RemoveMovie(t) /\ ~ Exists(t)'
         \/ \E s \in Synopses : /\ AddMovie(t, s) \/ SetSynopsis(t, s)
                                /\ View(t)' = s]_dataVars

=============================================================================

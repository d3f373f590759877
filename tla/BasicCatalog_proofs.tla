------------------------- MODULE BasicCatalog_proofs -------------------------
(***************************************************************************)
(* What holds of BasicCatalog for every set of titles and texts, every     *)
(* file and client.  Every movie holds its text, so that the file is       *)
(* nothing but what was read and what is written: the invariant says how   *)
(* far the constructor, or save(), has come.                               *)
(***************************************************************************)
EXTENDS BasicCatalog, CatalogData_proofs

\* Every movie has its text in memory.
TextsInMemory == \A i \in DOMAIN data : data[i].base # FromCsv

\* The constructor has read the rows before pos; of a file that has no title
\* twice every one of them became a movie.
RowsLoaded ==
  phase = "load" =>
    /\ pos <= Len(csv) + 1
    /\ UniqueIn(csv) =>
         /\ Len(data) = pos - 1
         /\ \A i \in 1 .. pos - 1 :
              data[i].title = csv[i].title /\ data[i].base = csv[i].synopsis

\* save() has written the movies before pos, with their texts.
RowsSaved ==
  phase = "save" => \A i \in 1 .. pos - 1 : file[target][i].synopsis = data[i].base

IInv == DataInv /\ TextsInMemory /\ RowsLoaded /\ RowsSaved

\* A movie of the catalog is found by its title, and its text is its own.
LEMMA TextInMemory ==
  ASSUME DataInv, TextsInMemory
  PROVE  /\ \A u : Exists(u) => BaseText(u) = data[IndexOf(u)].base
         /\ \A i \in DOMAIN data :
              Exists(data[i].title) /\ BaseText(data[i].title) = data[i].base
<1>1. ASSUME NEW u, Exists(u)
      PROVE  BaseText(u) = data[IndexOf(u)].base
  <2>1. IndexOf(u) \in DOMAIN data
    BY <1>1, MovieOf DEF DataInv
  <2>. QED  BY <2>1 DEF BaseText, TextsInMemory
<1>2. ASSUME NEW i \in DOMAIN data
      PROVE  Exists(data[i].title) /\ BaseText(data[i].title) = data[i].base
  <2>1. Exists(data[i].title)
    BY DEF Exists
  <2>2. IndexOf(data[i].title) = i
    BY <2>1, MovieOf DEF DataInv
  <2>. QED  BY <1>1, <2>1, <2>2
<1>. QED  BY <1>1, <1>2

\* Whatever is in the file, what a movie of an unchanged vector serves is the same.
LEMMA ViewStays ==
  ASSUME DataInv, TextsInMemory, data' = data, NEW u
  PROVE  View(u)' = View(u)
<1>1. (Exists(u)' <=> Exists(u)) /\ IndexOf(u)' = IndexOf(u)
  BY DEF Exists, IndexOf
<1>2. CASE Exists(u)
  <2>1. IndexOf(u) \in DOMAIN data
    BY <1>2, MovieOf DEF DataInv
  <2>2. BaseText(u)' = BaseText(u)
    BY <1>1, <2>1 DEF BaseText, TextsInMemory
  <2>. QED  BY <1>1, <2>2 DEF View
<1>. QED  BY <1>1, <1>2 DEF View

\* The constructor adds a movie with the text of its row.
LEMMA RowLoadedNext ==
  ASSUME IInv, LoadMovie(csv[pos].synopsis)
  PROVE  TextsInMemory' /\ RowsLoaded' /\ RowsSaved'
<1> DEFINE t == csv[pos].title
           s == csv[pos].synopsis
           m == [title |-> t, base |-> s]
<1>1. /\ phase = "load" /\ phase' = "load" /\ pos <= Len(csv) /\ pos' = pos + 1
      /\ csv' = csv /\ PushMovie(t, s)
  BY DEF LoadMovie, csv
<1>2. data \in Seq(Movie) /\ csv \in Seq(Row) /\ pos \in Nat \ {0} /\ Len(csv) \in Nat
  BY DEF IInv, DataInv, DataTypeOK, csv, Files
<1>3. pos \in DOMAIN csv /\ t \in Titles /\ s \in Synopses
  <2>1. pos \in DOMAIN csv
    BY <1>1, <1>2
  <2>2. csv[pos] \in Row
    BY <1>2, <2>1
  <2>. QED  BY <2>1, <2>2 DEF Row
<1>4. s # FromCsv /\ m \in Movie
  BY <1>3, FromCsvAssumption DEF Movie
<1>. HIDE DEF t, s, m
<1>5. data' = IF Exists(t) THEN data ELSE Append(data, m)
  BY <1>1 DEF PushMovie, m
<1>6. /\ Append(data, m) \in Seq(Movie)
      /\ Len(Append(data, m)) = Len(data) + 1 /\ Len(data) \in Nat
      /\ DOMAIN data = 1 .. Len(data)
      /\ DOMAIN Append(data, m) = 1 .. Len(data) + 1
      /\ \A i \in 1 .. Len(data) : Append(data, m)[i] = data[i]
      /\ Append(data, m)[Len(data) + 1] = m
  BY <1>2, <1>4, AppendProperties
<1>7. TextsInMemory'
  <2>1. CASE Exists(t)
    BY <1>5, <2>1 DEF IInv, TextsInMemory
  <2>2. CASE ~ Exists(t)
    <3>1. m.base # FromCsv
      BY <1>4 DEF m
    <3>2. \A i \in DOMAIN data' : data'[i] = m \/ (i \in DOMAIN data /\ data'[i] = data[i])
      BY <1>5, <1>6, <2>2
    <3>. QED  BY <3>1, <3>2 DEF IInv, TextsInMemory
  <2>. QED  BY <2>1, <2>2
<1>8. RowsLoaded'
  <2>. SUFFICES ASSUME UniqueIn(csv)
                PROVE  /\ Len(data') = pos
                       /\ \A i \in 1 .. pos :
                            /\ data'[i].title = csv[i].title
                            /\ data'[i].base = csv[i].synopsis
    BY <1>1, <1>2 DEF RowsLoaded
  <2>1. /\ Len(data) = pos - 1
        /\ \A i \in 1 .. pos - 1 :
             data[i].title = csv[i].title /\ data[i].base = csv[i].synopsis
    BY <1>1 DEF IInv, RowsLoaded
  <2>2. ~ Exists(t)
    <3>. SUFFICES ASSUME NEW i \in DOMAIN data PROVE data[i].title # t
      BY DEF Exists
    <3>1. i \in 1 .. pos - 1
      BY <1>6, <2>1
    <3>2. i \in DOMAIN csv /\ i # pos
      BY <1>1, <1>2, <3>1
    <3>. QED  BY <1>3, <2>1, <3>1, <3>2 DEF UniqueIn, t
  <2>3. data' = Append(data, m)
    BY <1>5, <2>2
  <2>4. /\ \A i \in 1 .. pos - 1 : data'[i] = data[i]
        /\ data'[pos] = m
        /\ Len(data') = pos
    BY <1>2, <1>6, <2>1, <2>3
  <2>5. m.title = csv[pos].title /\ m.base = csv[pos].synopsis
    BY DEF m, t, s
  <2>6. \A i \in 1 .. pos : i \in 1 .. pos - 1 \/ i = pos
    BY <1>2
  <2>. QED  BY <2>1, <2>4, <2>5, <2>6
<1>. QED  BY <1>1, <1>7, <1>8 DEF RowsSaved

\* save() writes the text the movie holds, whatever it wrote before.
LEMMA RowSavedNext ==
  ASSUME IInv, phase = "save", pos <= Len(data),
         WriteMovie(BaseText(data[pos].title))
  PROVE  TextsInMemory' /\ RowsLoaded' /\ RowsSaved'
<1> DEFINE old == file[target]
           row == [title |-> data[pos].title, synopsis |-> BaseText(data[pos].title)]
<1>1. /\ file' = [file EXCEPT ![target] = Append(old, row)] /\ pos' = pos + 1
      /\ UNCHANGED <<data, phase, target>>
  BY DEF WriteMovie
<1>2. /\ data \in Seq(Movie) /\ file \in [Files -> Seq(Row)] /\ target \in Files
      /\ pos \in Nat \ {0} /\ Len(data) \in Nat
      /\ old \in Seq(Row) /\ Len(old) = pos - 1
  BY DEF IInv, DataInv, DataTypeOK, SavePrefix
<1>3. pos \in DOMAIN data
  BY <1>2
<1>4. row.synopsis = data[pos].base
  BY <1>3, TextInMemory DEF IInv
<1>5. row \in Row
  <2>1. data[pos] \in Movie
    BY <1>2, <1>3
  <2>2. data[pos].base # FromCsv
    BY <1>3 DEF IInv, TextsInMemory
  <2>. QED  BY <1>4, <2>1, <2>2 DEF Row, Movie
<1>. HIDE DEF row, old
<1>6. file'[target] = Append(old, row)
  BY <1>1, <1>2
<1>7. /\ \A i \in 1 .. pos - 1 : Append(old, row)[i] = old[i]
      /\ Append(old, row)[pos] = row
  BY <1>2, <1>5, AppendProperties
<1>8. \A i \in 1 .. pos - 1 : old[i].synopsis = data[i].base
  BY DEF IInv, RowsSaved, old
<1>9. \A i \in 1 .. pos : file'[target][i].synopsis = data[i].base
  BY <1>2, <1>4, <1>6, <1>7, <1>8
<1>10. RowsSaved'
  BY <1>1, <1>2, <1>9 DEF RowsSaved
<1>. QED  BY <1>1, <1>10 DEF IInv, TextsInMemory, RowsLoaded

\* One step per action, with what the client sees of it.
LEMMA NextInv ==
  ASSUME IInv, [Next]_dataVars
  PROVE  /\ IInv'
         /\ \A u \in Titles :
              View(u)' # View(u) =>
                \/ Load /\ View(u) = FromCsv
                \/ Reopen
                \/ RemoveMovie(u) /\ ~ Exists(u)'
                \/ \E s \in Synopses :
                     /\ AddMovie(u, s) \/ SetSynopsis(u, s)
                     /\ View(u)' = s
<1> DEFINE Explained(u) ==
      \/ Load /\ View(u) = FromCsv
      \/ Reopen
      \/ RemoveMovie(u) /\ ~ Exists(u)'
      \/ \E s \in Synopses :
           /\ AddMovie(u, s) \/ SetSynopsis(u, s)
           /\ View(u)' = s
<1>. SUFFICES /\ DataInv'
              /\ TextsInMemory' /\ RowsLoaded' /\ RowsSaved'
              /\ \A u \in Titles : View(u)' # View(u) => Explained(u)
  BY DEF IInv
<1>. HIDE DEF Explained
<1>1. DataInv /\ TextsInMemory /\ DataTypeOK /\ UniqueTitles
  BY DEF IInv, DataInv
<1>2. CASE Load
  <2>0. LoadMovie(csv[pos].synopsis)
    BY <1>2 DEF Load
  <2>1. /\ PushMovie(csv[pos].title, csv[pos].synopsis) /\ csv' = csv
        /\ pos <= Len(csv)
    BY <1>2, <2>0 DEF LoadMovie, csv
  <2>2. csv[pos].title \in Titles /\ csv[pos].synopsis \in Synopses
    <3>1. csv \in Seq(Row) /\ pos \in 1 .. Len(csv)
      BY <1>1, <2>1 DEF DataTypeOK, csv, Files
    <3>2. csv[pos] \in Row
      BY <3>1
    <3>. QED  BY <3>2 DEF Row
  <2>3. DataInv'
    BY <1>1, <1>2, <2>0, <2>2, LoadInv
  <2>4. TextsInMemory' /\ RowsLoaded' /\ RowsSaved'
    BY <1>2, <2>0, RowLoadedNext
  <2>5. ASSUME NEW u \in Titles, Exists(u) PROVE View(u)' = View(u)
    <3>1. Exists(u)'
      BY <1>1, <1>2, <2>0, <2>2, <2>5, LoadInv
    <3>2. BaseText(u)' = BaseText(u)
      BY <1>1, <2>1, <2>2, <2>5, PushTexts
    <3>. QED  BY <2>5, <3>1, <3>2 DEF View
  <2>6. \A u \in Titles : View(u)' # View(u) => Explained(u)
    BY <1>2, <2>0, <2>5 DEF View, Explained
  <2>. QED  BY <2>3, <2>4, <2>6
<1>3. CASE LoadEnd
  <2>0. LoadDone
    BY <1>3 DEF LoadEnd
  <2>1. data' = data /\ phase' = "idle"
    BY <1>3, <2>0 DEF LoadDone
  <2>2. DataInv'
    BY <1>1, <1>3, <2>0, LoadDoneInv
  <2>. QED
    BY <1>1, <2>1, <2>2, ViewStays DEF TextsInMemory, RowsLoaded, RowsSaved
<1>4. ASSUME NEW t \in Titles, NEW s \in Synopses, AddMovie(t, s)
      PROVE  /\ DataInv'
             /\ TextsInMemory' /\ RowsLoaded' /\ RowsSaved'
             /\ \A u \in Titles : View(u)' # View(u) => Explained(u)
  <2>0. phase = "idle" /\ PushMovie(t, s) /\ UNCHANGED <<file, phase, pos, target>>
    BY <1>4 DEF AddMovie
  <2>1. DataInv' /\ \A u : Exists(u)' <=> Exists(u) \/ u = t
    BY <1>1, <1>4, <2>0, AddInv
  <2>2. phase' = "idle" /\ csv' = csv
    BY <1>4, <2>0 DEF csv
  <2>3. TextsInMemory'
    <3> DEFINE m == [title |-> t, base |-> s]
    <3>1. s # FromCsv /\ m \in Movie /\ data \in Seq(Movie)
      BY <1>1, FromCsvAssumption DEF Movie, DataTypeOK
    <3>2. data' = data \/ data' = Append(data, m)
      BY <1>4, <2>0 DEF PushMovie
    <3>3. m.base = s
      OBVIOUS
    <3>. HIDE DEF m
    <3>4. /\ DOMAIN Append(data, m) = 1 .. Len(data) + 1 /\ Len(data) \in Nat
          /\ DOMAIN data = 1 .. Len(data)
          /\ \A i \in 1 .. Len(data) : Append(data, m)[i] = data[i]
          /\ Append(data, m)[Len(data) + 1] = m
      BY <3>1, AppendProperties
    <3>5. \A i \in DOMAIN data' : data'[i] = m \/ (i \in DOMAIN data /\ data'[i] = data[i])
      BY <3>2, <3>4
    <3>. QED  BY <1>1, <3>1, <3>3, <3>5 DEF TextsInMemory
  <2>4. ASSUME NEW u \in Titles, u # t \/ Exists(t) PROVE View(u)' = View(u)
    <3>1. Exists(u)' <=> Exists(u)
      BY <2>1, <2>4
    <3>2. Exists(u) => BaseText(u)' = BaseText(u)
      BY <1>1, <1>4, <2>0, <2>2, PushTexts
    <3>. QED  BY <3>1, <3>2 DEF View
  <2>5. ~ Exists(t) => View(t)' = s
    <3>1. ~ Exists(t) => BaseText(t)' = s
      BY <1>1, <1>4, <2>0, PushText
    <3>. QED  BY <2>1, <3>1 DEF View
  <2>6. \A u \in Titles : View(u)' # View(u) => Explained(u)
    BY <1>4, <2>0, <2>4, <2>5 DEF Explained
  <2>. QED  BY <2>1, <2>2, <2>3, <2>6 DEF RowsLoaded, RowsSaved
<1>5. ASSUME NEW t \in Titles, NEW s \in Synopses, SetSynopsis(t, s)
      PROVE  /\ DataInv'
             /\ TextsInMemory' /\ RowsLoaded' /\ RowsSaved'
             /\ \A u \in Titles : View(u)' # View(u) => Explained(u)
  <2>0. phase = "idle" /\ Exists(t) /\ SetBase(t, s) /\ UNCHANGED <<phase, pos, target>>
    BY <1>5 DEF SetSynopsis
  <2>1. DataInv' /\ \A u : Exists(u)' <=> Exists(u)
    BY <1>1, <1>5, <2>0, SetInv
  <2>2. phase' = "idle"
    BY <1>5, <2>0
  <2>3. TextsInMemory'
    <3>1. /\ DOMAIN data' = DOMAIN data
          /\ \A i \in DOMAIN data : data'[i].base = FromCsv => data[i].base = FromCsv
      BY <1>1, <1>5, <2>0, SetBaseData
    <3>. QED  BY <1>1, <3>1 DEF TextsInMemory
  <2>4. ASSUME NEW u \in Titles, u # t PROVE View(u)' = View(u)
    <3>1. Exists(u) => BaseText(u)' = BaseText(u)
      BY <1>1, <1>5, <2>0, <2>4, SetTexts
    <3>. QED  BY <2>1, <3>1 DEF View
  <2>5. View(t)' = s
    <3>1. BaseText(t)' = s
      BY <1>1, <1>5, <2>0, SetBaseText
    <3>. QED  BY <1>5, <2>0, <2>1, <3>1 DEF View
  <2>6. \A u \in Titles : View(u)' # View(u) => Explained(u)
    BY <1>5, <2>0, <2>4, <2>5 DEF Explained
  <2>. QED  BY <2>1, <2>2, <2>3, <2>6 DEF RowsLoaded, RowsSaved
<1>6. ASSUME NEW t \in Titles, RemoveMovie(t)
      PROVE  /\ DataInv'
             /\ TextsInMemory' /\ RowsLoaded' /\ RowsSaved'
             /\ \A u \in Titles : View(u)' # View(u) => Explained(u)
  <2>0. phase = "idle" /\ EraseMovie(t) /\ UNCHANGED <<file, phase, pos, target>>
    BY <1>6 DEF RemoveMovie
  <2>1. DataInv' /\ \A u : Exists(u)' <=> Exists(u) /\ u # t
    BY <1>1, <1>6, <2>0, RemoveInv
  <2>2. phase' = "idle" /\ csv' = csv
    BY <1>6, <2>0 DEF csv
  <2>3. TextsInMemory'
    <3>1. \A j \in DOMAIN data' : \E i \in DOMAIN data : data'[j] = data[i]
      BY <1>1, <1>6, <2>0, EraseMovieData
    <3>. QED  BY <1>1, <3>1 DEF TextsInMemory
  <2>4. ASSUME NEW u \in Titles, u # t PROVE View(u)' = View(u)
    <3>1. Exists(u) => BaseText(u)' = BaseText(u)
      BY <1>1, <1>6, <2>0, <2>2, <2>4, EraseTexts
    <3>. QED  BY <2>1, <2>4, <3>1 DEF View
  <2>5. \A u \in Titles : View(u)' # View(u) => Explained(u)
    BY <1>6, <2>0, <2>1, <2>4 DEF Explained
  <2>. QED  BY <2>1, <2>2, <2>3, <2>5 DEF RowsLoaded, RowsSaved
<1>7. ASSUME NEW f \in Files, Save(f)
      PROVE  /\ DataInv'
             /\ TextsInMemory' /\ RowsLoaded' /\ RowsSaved'
             /\ \A u \in Titles : View(u)' # View(u) => Explained(u)
  <2>0. OpenOutput(f)
    BY <1>7 DEF Save
  <2>1. data' = data /\ phase' = "save" /\ pos' = 1
    BY <1>7, <2>0 DEF OpenOutput
  <2>2. DataInv'
    BY <1>1, <1>7, <2>0, OpenInv
  <2>. QED
    BY <1>1, <2>1, <2>2, ViewStays DEF TextsInMemory, RowsLoaded, RowsSaved
<1>8. CASE SaveRow
  <2>0. phase = "save" /\ pos <= Len(data) /\ WriteMovie(BaseText(data[pos].title))
    BY <1>8 DEF SaveRow
  <2>1. BaseText(data[pos].title) \in Synopses
    <3>1. pos \in DOMAIN data
      BY <1>1, <1>8, <2>0 DEF DataTypeOK
    <3>2. Exists(data[pos].title)
      BY <3>1 DEF Exists
    <3>. QED  BY <1>1, <3>2, MovieOf
  <2>2. DataInv' /\ data' = data
    BY <1>1, <1>8, <2>0, <2>1, WriteInv DEF WriteMovie
  <2>. QED  BY <1>1, <1>8, <2>0, <2>2, RowSavedNext, ViewStays
<1>9. CASE SaveEnd
  <2>0. CloseOutput
    BY <1>9 DEF SaveEnd
  <2>1. data' = data /\ phase' = "idle"
    BY <1>9, <2>0 DEF CloseOutput
  <2>2. DataInv'
    BY <1>1, <1>9, <2>0, CloseInv
  <2>. QED
    BY <1>1, <2>1, <2>2, ViewStays DEF TextsInMemory, RowsLoaded, RowsSaved
<1>10. CASE Reopen
  <2>1. /\ data' = <<>> /\ phase' = "load" /\ pos' = 1
        /\ file' = [file EXCEPT !["copy"] = <<>>]
    BY <1>10 DEF Reopen, ForgetCopy
  <2>2. DataInv'
    BY <1>1, <1>10, ReopenInv
  <2>3. RowsLoaded'
    <3>1. csv' \in Seq(Row)
      BY <2>2 DEF DataInv, DataTypeOK, csv, Files
    <3>. QED  BY <2>1, <3>1 DEF RowsLoaded
  <2>. QED
    BY <1>10, <2>1, <2>2, <2>3 DEF TextsInMemory, RowsSaved, Explained
<1>11. CASE UNCHANGED dataVars
  <2>1. UNCHANGED <<file, data, phase, pos, target>> /\ csv' = csv
    BY <1>11 DEF dataVars, csv
  <2>2. DataInv'
    BY <1>1, <2>1 DEF DataInv, DataTypeOK, UniqueTitles, LazyRowsPresent, SavePrefix
  <2>. QED
    BY <1>1, <2>1, <2>2, ViewStays
       DEF IInv, TextsInMemory, RowsLoaded, RowsSaved
<1>. QED
  BY <1>2, <1>3, <1>4, <1>5, <1>6, <1>7, <1>8, <1>9, <1>10, <1>11 DEF Next

\* The invariant of a catalog that caches nothing.
THEOREM Invariance == Spec => []IInv
<1>1. Init => IInv
  <2>. SUFFICES ASSUME DataInit PROVE IInv
    BY DEF Init
  <2>1. DataInv
    BY DataInitInv
  <2>2. csv \in Seq(Row)
    BY <2>1 DEF DataInv, DataTypeOK, csv, Files
  <2>. QED
    BY <2>1, <2>2 DEF DataInit, IInv, TextsInMemory, RowsLoaded, RowsSaved
<1>2. IInv /\ [Next]_dataVars => IInv'
  BY NextInv
<1>. QED  BY <1>1, <1>2, PTL DEF Spec

\* The vector, the file and the position of the loops have their types, and the
\* text of every movie is in memory (catalog.cpp:152-168, movie.cpp:60-65).
THEOREM TypeCorrect == Spec => []TypeOK
<1>1. IInv => TypeOK
  BY DEF IInv, DataInv, TextsInMemory, TypeOK
<1>. QED  BY <1>1, Invariance, PTL

\* The movies, as rows.
LEMMA RowsOfCatalog ==
  ASSUME IInv
  PROVE  /\ WholeCatalog \in Seq(Row) /\ Len(WholeCatalog) = Len(data)
         /\ DOMAIN data = 1 .. Len(data) /\ Len(data) \in Nat
         /\ \A i \in DOMAIN data :
              /\ WholeCatalog[i] \in Row
              /\ WholeCatalog[i].title = data[i].title
              /\ WholeCatalog[i].synopsis = data[i].base
<1>1. data \in Seq(Movie) /\ DOMAIN data = 1 .. Len(data) /\ Len(data) \in Nat
  BY DEF IInv, DataInv, DataTypeOK
<1> DEFINE row(i) == [title |-> data[i].title, synopsis |-> BaseText(data[i].title)]
<1>2. ASSUME NEW i \in DOMAIN data
      PROVE  row(i) \in Row /\ row(i).title = data[i].title
                            /\ row(i).synopsis = data[i].base
  <2>1. BaseText(data[i].title) = data[i].base /\ data[i].base # FromCsv
    BY TextInMemory DEF IInv, TextsInMemory
  <2>2. data[i] \in Movie
    BY <1>1
  <2>. QED  BY <2>1, <2>2 DEF Movie, Row
<1>3. WholeCatalog = [i \in DOMAIN data |-> row(i)]
  BY DEF WholeCatalog
<1>. HIDE DEF row
<1>4. WholeCatalog \in [1 .. Len(data) -> Row]
  BY <1>1, <1>2, <1>3
<1>. QED  BY <1>1, <1>2, <1>3, <1>4

\* Rows are equal when their columns are.
LEMMA SameRow ==
  ASSUME NEW r \in Row, NEW s \in Row, r.title = s.title, r.synopsis = s.synopsis
  PROVE  r = s
BY DEF Row

\* While save() runs the file holds a prefix of the catalog, texts included, and
\* nothing of what it held before, also when it is the file the catalog was read
\* from (catalog.cpp:236-274).
THEOREM SavesLeavePrefixes == Spec => []SavingLeavesPrefix
<1>1. ASSUME IInv PROVE SavingLeavesPrefix
  <2>. SUFFICES ASSUME phase = "save"
                PROVE  /\ Len(file[target]) = pos - 1
                       /\ \A i \in DOMAIN file[target] :
                            file[target][i] = WholeCatalog[i]
    BY DEF SavingLeavesPrefix
  <2>1. /\ pos <= Len(data) + 1 /\ pos \in Nat \ {0}
        /\ Len(file[target]) = pos - 1 /\ file[target] \in Seq(Row)
        /\ \A i \in 1 .. pos - 1 : file[target][i].title = data[i].title
        /\ \A i \in 1 .. pos - 1 : file[target][i].synopsis = data[i].base
    BY <1>1 DEF IInv, DataInv, DataTypeOK, SavePrefix, RowsSaved
  <2>2. ASSUME NEW i \in DOMAIN file[target]
        PROVE  file[target][i] = WholeCatalog[i]
    <3>1. i \in 1 .. pos - 1 /\ file[target][i] \in Row
      BY <2>1
    <3>2. i \in DOMAIN data
      BY <1>1, <2>1, <3>1, RowsOfCatalog
    <3>. QED  BY <1>1, <2>1, <3>1, <3>2, RowsOfCatalog, SameRow
  <2>. QED  BY <2>1, <2>2
<1>. QED  BY <1>1, Invariance, PTL

\* A save leaves the movies of the catalog, in order, each once and with its
\* text (catalog.cpp:236-274).
THEOREM SavesTheCatalog == Spec => SaveRoundTrip
<1>1. ASSUME IInv, SaveEnd
      PROVE  file[target] = WholeCatalog
  <2>1. phase = "save" /\ pos > Len(data)
    BY <1>1 DEF SaveEnd, CloseOutput
  <2>2. /\ pos <= Len(data) + 1 /\ pos \in Nat \ {0}
        /\ Len(file[target]) = pos - 1 /\ file[target] \in Seq(Row)
        /\ \A i \in 1 .. pos - 1 : file[target][i].title = data[i].title
        /\ \A i \in 1 .. pos - 1 : file[target][i].synopsis = data[i].base
    BY <1>1, <2>1 DEF IInv, DataInv, DataTypeOK, SavePrefix, RowsSaved
  <2>3. /\ WholeCatalog \in Seq(Row) /\ Len(WholeCatalog) = Len(data)
        /\ DOMAIN data = 1 .. Len(data) /\ Len(data) \in Nat
        /\ \A i \in DOMAIN data :
             /\ WholeCatalog[i] \in Row
             /\ WholeCatalog[i].title = data[i].title
             /\ WholeCatalog[i].synopsis = data[i].base
    BY <1>1, RowsOfCatalog
  <2>4. Len(file[target]) = Len(data)
    BY <2>1, <2>2, <2>3
  <2>5. ASSUME NEW i \in 1 .. Len(data)
        PROVE  file[target][i] = WholeCatalog[i]
    <3>1. i \in 1 .. pos - 1 /\ file[target][i] \in Row
      BY <2>2, <2>4
    <3>. QED  BY <2>2, <2>3, <3>1, SameRow
  <2>6. file[target] = WholeCatalog
    BY <2>2, <2>3, <2>4, <2>5, SeqEqual
  <2>. QED  BY <2>6
<1>2. IInv =>
        [SaveEnd => file[target] = WholeCatalog]_dataVars
  BY <1>1
<1>. QED  BY <1>2, Invariance, PTL DEF SaveRoundTrip

\* What save() wrote is what the next constructor reads: of a file with one row
\* per title every row is a movie, in order (catalog.cpp:152-168).
THEOREM LoadsTheFile == Spec => LoadRoundTrip
<1> DEFINE loaded ==
      (\A i, j \in DOMAIN csv :
         csv[i].title = csv[j].title => i = j)
      => WholeCatalog = csv
<1>1. ASSUME IInv, LoadEnd
      PROVE  loaded
  <2>1. phase = "load" /\ pos > Len(csv)
    BY <1>1 DEF LoadEnd, LoadDone
  <2>. SUFFICES ASSUME UniqueIn(csv) PROVE WholeCatalog = csv
    BY DEF UniqueIn
  <2>2. csv \in Seq(Row) /\ Len(csv) \in Nat /\ pos \in Nat \ {0}
    BY <1>1 DEF IInv, DataInv, DataTypeOK, csv, Files
  <2>3. /\ pos <= Len(csv) + 1
        /\ Len(data) = pos - 1
        /\ \A i \in 1 .. pos - 1 :
             data[i].title = csv[i].title /\ data[i].base = csv[i].synopsis
    BY <1>1, <2>1 DEF IInv, RowsLoaded
  <2>4. pos - 1 = Len(csv)
    BY <2>1, <2>2, <2>3
  <2>5. /\ WholeCatalog \in Seq(Row) /\ Len(WholeCatalog) = Len(data)
        /\ DOMAIN data = 1 .. Len(data) /\ Len(data) \in Nat
        /\ \A i \in DOMAIN data :
             /\ WholeCatalog[i] \in Row
             /\ WholeCatalog[i].title = data[i].title
             /\ WholeCatalog[i].synopsis = data[i].base
    BY <1>1, RowsOfCatalog
  <2>6. ASSUME NEW i \in 1 .. Len(csv)
        PROVE  WholeCatalog[i] = csv[i]
    <3>1. csv[i] \in Row
      BY <2>2
    <3>. QED  BY <2>3, <2>4, <2>5, <3>1, SameRow
  <2>. QED  BY <2>2, <2>3, <2>4, <2>5, <2>6, SeqEqual
<1>2. IInv => [LoadEnd => loaded]_dataVars
  BY <1>1
<1>. QED  BY <1>2, Invariance, PTL DEF LoadRoundTrip

\* The client alone changes what is served, movie by movie, and what it sets or
\* adds is what is served from then on (catalog.cpp:170-211, movie.cpp:63-65).
THEOREM ClientAloneChanges == Spec => OnlyTheClientChanges
<1> DEFINE explained ==
      \A t \in Titles :
        View(t)' # View(t) =>
          \/ Load /\ View(t) = FromCsv
          \/ Reopen
          \/ RemoveMovie(t) /\ ~ Exists(t)'
          \/ \E s \in Synopses : /\ AddMovie(t, s) \/ SetSynopsis(t, s)
                                 /\ View(t)' = s
<1>1. ASSUME IInv, [Next]_dataVars
      PROVE  explained
  BY <1>1, NextInv
<1>2. IInv /\ [Next]_dataVars
        => [explained]_dataVars
  BY <1>1
<1>. QED  BY <1>2, Invariance, PTL DEF Spec, OnlyTheClientChanges

=============================================================================

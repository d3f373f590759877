----------------------------- MODULE MovieLists -----------------------------
(***************************************************************************)
(* The lists of movies a client asks a catalog for, pages through, sorts   *)
(* and selects from (src/core/catalog.cpp:170-182, 213-234, sort.cpp).     *)
(*                                                                         *)
(* The catalog owns its movies by pointer, and a list holds references to  *)
(* them (movie_ref) which are not told when the catalog changes.  "heap"   *)
(* is the memory where the movies live: remove() frees the place of one,   *)
(* and the allocator may give it to another.                               *)
(***************************************************************************)
EXTENDS MovieOrder, SequencesExt

CONSTANTS
  Addrs,      \* places for movies
  Free,       \* no movie is there
  Slices,     \* the offset and count of the slices a client asks for
  PageSize,   \* the movies of one page
  Deltas,     \* the intervals it selects: value and delta
  SizeMax     \* the greatest size_t

ASSUME FreeAssumption == Free \notin Titles
ASSUME SizesAssumption ==
  /\ SizeMax \in Nat
  /\ PageSize \in 1 .. SizeMax
  /\ Slices \subseteq (0 .. SizeMax) \X (0 .. SizeMax)
  /\ Deltas \subseteq (IntMin .. IntMax) \X (0 .. IntMax)

\* The pages of the largest catalog can be counted.
ASSUME AddrsAssumption ==
  IsFiniteSet(Addrs) /\ Cardinality(Addrs) + PageSize <= SizeMax

VARIABLES
  heap,     \* the movie at each place
  data,     \* _data: the places of the movies of the catalog
  list,     \* the client's list: the places it refers to
  named,    \* history: the title of each element when the list was obtained
  removed,  \* history: titles removed since
  sorted,   \* history: the field and direction list was last sorted by, or none
  shown,    \* titles on the pages the client has shown so far
  offset,   \* its next page
  result    \* of the last call: "ok", or "threw" std::length_error

listVars == <<list, named, removed, sorted>>
pageVars == <<shown, offset>>
vars == <<heap, data, listVars, pageVars, result>>

Unsorted == <<"none", TRUE>>

TypeOK ==
  /\ heap \in [Addrs -> Titles \cup {Free}]
  /\ data \in Seq(Addrs)
  /\ list \in Seq(Addrs)
  /\ named \in Seq(Titles)
  /\ removed \subseteq Titles
  /\ sorted \in (Fields \X BOOLEAN) \cup {Unsorted}
  /\ shown \in Seq(Titles)
  /\ offset \in 0 .. SizeMax
  /\ result \in {"ok", "threw"}

Init ==
  /\ heap = [p \in Addrs |-> Free]
  /\ data = <<>>
  /\ list = <<>>
  /\ named = <<>>
  /\ removed = {}
  /\ sorted = Unsorted
  /\ shown = <<>>
  /\ offset = 0
  /\ result = "ok"

TitlesAt(places) == [i \in DOMAIN places |-> heap[places[i]]]

-----------------------------------------------------------------------------
(* The catalog. *)

\* Its client starts over at the first page.
FirstPage == shown' = <<>> /\ offset' = 0

\* add: the place of the movie is the one its client allocated.
AddMovie(t) ==
  /\ \A i \in DOMAIN data : heap[data[i]] # t
  /\ \E p \in Addrs :
       /\ heap[p] = Free
       /\ heap' = [heap EXCEPT ![p] = t]
       /\ data' = Append(data, p)
  /\ FirstPage
  /\ UNCHANGED <<listVars, result>>

\* Mutant: the movies are values of the vector, which moves them.
RemoveMovieShifting(t) ==
  \E i \in DOMAIN data :
    /\ heap[data[i]] = t
    /\ data' = SubSeq(data, 1, Len(data) - 1)
    /\ heap' = [p \in Addrs |->
         IF p = data[Len(data)] THEN Free
         ELSE IF \E j \in i .. Len(data) - 1 : data[j] = p
         THEN heap[data[(CHOOSE j \in i .. Len(data) - 1 : data[j] = p) + 1]]
         ELSE heap[p]]
    /\ removed' = removed \cup {t}
    /\ FirstPage
    /\ UNCHANGED <<list, named, sorted, result>>

\* remove: the movie is destroyed, the others stay where they are.
RemoveMovie(t) ==
  \E i \in DOMAIN data :
    /\ heap[data[i]] = t
    /\ heap' = [heap EXCEPT ![data[i]] = Free]
    /\ data' = RemoveAt(data, i)
    /\ removed' = removed \cup {t}
    /\ FirstPage
    /\ UNCHANGED <<list, named, sorted, result>>

-----------------------------------------------------------------------------
(* Lists. *)

Obtained(places) ==
  /\ list' = places
  /\ named' = TitlesAt(places)
  /\ removed' = {}
  /\ sorted' = Unsorted

AllMovies == Obtained(data) /\ result' = "ok" /\ UNCHANGED <<heap, data, pageVars>>

End(from, count) ==
  LET sum == (from + count) % (SizeMax + 1) IN
  IF sum < Len(data) THEN sum ELSE Len(data)

\* Mutant: the end is compared with <=.
SliceOfOneMore(from, count) ==
  SubSeq(data, from + 1,
         IF End(from, count) < Len(data) THEN End(from, count) + 1 ELSE Len(data))

SliceOf(from, count) == SubSeq(data, from + 1, End(from, count))

\* offset + count wraps, and reserve() is asked for the difference to offset.
SliceThrows(from, count) == from < Len(data) /\ End(from, count) < from

MoviesSlice(from, count) ==
  /\ IF SliceThrows(from, count)
     THEN result' = "threw" /\ UNCHANGED listVars
     ELSE result' = "ok" /\ Obtained(SliceOf(from, count))
  /\ UNCHANGED <<heap, data, pageVars>>

\* A client shows the catalog page by page, until a page is empty.
NextPage ==
  /\ offset < Len(data)
  /\ shown' = shown \o TitlesAt(SliceOf(offset, PageSize))
  /\ offset' = offset + PageSize
  /\ Obtained(SliceOf(offset, PageSize))
  /\ result' = "ok"
  /\ UNCHANGED <<heap, data>>

\* The bound on the client: it does not use a list with a movie it removed.
Usable == \A i \in DOMAIN named : named[i] \notin removed

\* sort, by std::sort: whatever arrangement has no pair out of order.
Sort(f, asc) ==
  /\ Usable
  /\ list' \in { s \in SetToSeqs(ToSet(list)) :
       \A i, j \in DOMAIN s : i < j => ~ Before(f, asc, heap[s[j]], heap[s[i]]) }
  /\ named' = [i \in DOMAIN list' |-> heap[list'[i]]]
  /\ sorted' = <<f, asc>>
  /\ result' = "ok"
  /\ UNCHANGED <<heap, data, removed, pageVars>>

\* The movies that pass, in the order of the list: there is one such list.
Keep(passing) ==
  LET passed == { i \in DOMAIN list : heap[list[i]] \in passing }
      inOrder == { at \in [1 .. Cardinality(passed) -> passed] :
                     \A m, n \in DOMAIN at : m < n => at[m] < at[n] }
  IN  { [n \in DOMAIN at |-> list[at[n]]] : at \in inOrder }

Selected(places) ==
  /\ list' = places
  /\ named' = TitlesAt(places)
  /\ result' = "ok"
  /\ UNCHANGED <<heap, data, removed, sorted, pageVars>>

\* select_by_title, select_by_director, select_by_category.
SelectEqual(f, val) ==
  /\ Usable
  /\ \E places \in Keep({ t \in Titles : Equals(f, val, t) }) : Selected(places)

\* select_by_year, select_by_duration.
SelectWithin(f, val, delta) ==
  /\ Usable
  /\ \E places \in Keep({ t \in Titles : Within(f, val, delta, t) }) : Selected(places)

Next ==
  \/ \E t \in Titles : AddMovie(t) \/ RemoveMovie(t)
  \/ AllMovies
  \/ \E s \in Slices : MoviesSlice(s[1], s[2])
  \/ NextPage
  \/ \E f \in Fields, asc \in BOOLEAN : Sort(f, asc)
  \/ \E f \in NumberFields, d \in Deltas : SelectWithin(f, d[1], d[2])
  \/ \E f \in TextFields, t \in Titles : SelectEqual(f, Value(f, t))

Spec == Init /\ [][Next]_vars

-----------------------------------------------------------------------------
\* A reference denotes the movie it denoted when it was obtained, until that
\* movie is removed, although other movies are added and removed and their
\* places used again (catalog.cpp:170-182).
ReferencesHold ==
  \A i \in DOMAIN list : named[i] \notin removed => heap[list[i]] = named[i]

\* And a list holds nothing but references.
ListsHold == TypeOK /\ ReferencesHold

\* Whatever std::sort does with movies of one value, there is one result: the
\* list is strictly increasing, and selecting from it keeps it so
\* (sort.cpp:16-84, 89-142).
SortedStrictly ==
  sorted # Unsorted => \A i, j \in DOMAIN named :
    i < j => Before(sorted[1], sorted[2], named[i], named[j])

\* The pages a client has shown are the catalog up to the next page: none is
\* skipped, none shown twice, and the last one is short (catalog.cpp:213-225).
PagesShowAll ==
  shown = SubSeq(TitlesAt(data), 1, IF offset < Len(data) THEN offset ELSE Len(data))

\* "count Maximum number of movies to return.", catalog.h:141: of a slice whose
\* end is a size_t the client gets the movies from the offset on, as many as it
\* asked for or as there are; only of a wider one reserve() throws
\* (catalog.cpp:213-226).
SlicesReturn ==
  [][\A s \in Slices : MoviesSlice(s[1], s[2]) /\ s[1] + s[2] <= SizeMax =>
       LET asked == { i \in DOMAIN data : s[1] < i /\ i <= s[1] + s[2] } IN
       /\ result' = "ok"
       /\ Len(named') = Cardinality(asked)
       /\ \A i \in asked : named'[i - s[1]] = heap[data[i]]]_vars

\* "The final interval is [value-delta; value+delta].", sort.h:91: both ends
\* belong to it, whenever they are of type int (sort.cpp:99-109, 129-142).
SelectsInterval ==
  [][\A f \in NumberFields, d \in Deltas :
       /\ SelectWithin(f, d[1], d[2])
       /\ {d[1] - d[2], d[1] + d[2]} \subseteq IntMin .. IntMax
       => \A i \in DOMAIN list :
            Value(f, named[i]) \in (d[1] - d[2]) .. (d[1] + d[2])
              <=> \E j \in DOMAIN list' : list'[j] = list[i]]_vars

=============================================================================

----------------------- MODULE ListsAndCovers_proofs -----------------------
(***************************************************************************)
(* What a client of the core holds: lists of movies, and covers.           *)
(*                                                                         *)
(* The comparison functions order the movies, whatever their fields hold.  *)
(* The references of a list hold, sorting has one result, slices and       *)
(* intervals are exact, and paging shows the whole catalog, whatever its   *)
(* size, that of a page, and the widths of the integers.                   *)
(*                                                                         *)
(* The calls that make covers leave images that are accounted for, no      *)
(* empty file, and covers that keep their images, for every set of names   *)
(* and files; the last for names whose files are apart.                    *)
(***************************************************************************)
EXTENDS MovieLists, Covers, SequenceTheorems, FiniteSetTheorems, TLAPS

\* std::vector::erase at a position keeps the type, and every other element.
LEMMA RemoveAtSeq ==
  ASSUME NEW S, NEW s \in Seq(S), NEW i \in 1 .. Len(s) + 1
  PROVE  /\ RemoveAt(s, i) \in Seq(S)
         /\ Len(RemoveAt(s, i)) = IF i <= Len(s) THEN Len(s) - 1 ELSE Len(s)
         /\ \A j \in 1 .. Len(RemoveAt(s, i)) :
              RemoveAt(s, i)[j] = IF j < i THEN s[j] ELSE s[j + 1]
<1> DEFINE front == SubSeq(s, 1, i - 1)
           back == SubSeq(s, i + 1, Len(s))
<1>1. /\ front \in Seq(S)
      /\ Len(front) = i - 1
      /\ \A j \in 1 .. i - 1 : front[j] = s[j]
  OBVIOUS
<1>2. /\ back \in Seq(S)
      /\ Len(back) = IF i <= Len(s) THEN Len(s) - i ELSE 0
      /\ \A j \in 1 .. Len(back) : back[j] = s[i + j]
  OBVIOUS
<1>3. RemoveAt(s, i) = front \o back
  BY DEF RemoveAt
<1>. HIDE DEF front, back
<1>4. /\ front \o back \in Seq(S)
      /\ Len(front \o back) = Len(front) + Len(back)
      /\ \A j \in 1 .. Len(front) + Len(back) :
           (front \o back)[j] = IF j <= Len(front) THEN front[j]
                                                   ELSE back[j - Len(front)]
  BY <1>1, <1>2, ConcatProperties
<1>5. ASSUME NEW j \in 1 .. Len(RemoveAt(s, i))
      PROVE  RemoveAt(s, i)[j] = IF j < i THEN s[j] ELSE s[j + 1]
  <2>1. j \in 1 .. Len(front) + Len(back)
    BY <1>3, <1>4
  <2>2. CASE j < i
    BY <2>1, <2>2, <1>1, <1>3, <1>4
  <2>3. CASE j >= i
    <3>1. j - Len(front) \in 1 .. Len(back) /\ ~ (j <= Len(front))
      BY <2>1, <2>3, <1>1, <1>2
    <3>2. i + (j - Len(front)) = j + 1
      BY <1>1, <2>1
    <3>3. back[j - Len(front)] = s[j + 1]
      BY <3>1, <3>2, <1>2
    <3>4. RemoveAt(s, i)[j] = back[j - Len(front)]
      BY <2>1, <3>1, <1>3, <1>4
    <3>5. ~ (j < i)
      BY <2>1, <2>3
    <3>. QED  BY <3>3, <3>4, <3>5
  <2>. QED  BY <2>1, <2>2, <2>3, <1>1, <1>2
<1>. QED  BY <1>1, <1>2, <1>3, <1>4, <1>5

\* Each of the ten comparison functions is a strict total order of movies with
\* different titles: std::sort may use it, and has one result (sort.cpp:16-85).
THEOREM ComparisonsOrder ==
  ASSUME NEW f \in Fields, NEW asc \in BOOLEAN
  PROVE  IsStrictTotalOrder(f, asc)
<1>1. ASSUME NEW t \in Titles PROVE t \in Int /\ Value(f, t) \in Int
  <2>1. t \in Int
    BY TitlesAssumption
  <2>2. CASE f = "title"
    BY <2>1, <2>2 DEF Value
  <2>3. CASE f # "title"
    BY <2>1, <2>3, AttrAssumption DEF Value
  <2>. QED  BY <2>1, <2>2, <2>3
<1>2. ASSUME NEW t \in Titles PROVE ~ Before(f, asc, t, t)
  <2>1. t \in Int /\ Value(f, t) \in Int
    BY <1>1
  <2>. QED  BY <2>1 DEF Before
<1>3. \A t, u, v \in Titles :
        Before(f, asc, t, u) /\ Before(f, asc, u, v) => Before(f, asc, t, v)
  BY <1>1 DEF Before
<1>4. \A t, u \in Titles : t # u => Before(f, asc, t, u) \/ Before(f, asc, u, t)
  BY <1>1 DEF Before
<1>. QED  BY <1>2, <1>3, <1>4 DEF IsStrictTotalOrder

-----------------------------------------------------------------------------
\* Movies are where the catalog says, each in a place of its own: what bounds the
\* catalog, and with it the offsets.
Placed ==
  /\ heap \in [Addrs -> Titles \cup {Free}]
  /\ data \in Seq(Addrs)
  /\ \A i \in DOMAIN data : heap[data[i]] # Free
  /\ \A i, j \in DOMAIN data : data[i] = data[j] => i = j

Pages ==
  /\ offset \in Nat
  /\ PagesShowAll

PInv == Placed /\ Pages

(* The lengths and the page sizes are natural numbers. *)
LEMMA Sizes ==
  /\ PageSize \in Nat \ {0} /\ SizeMax \in Nat
  /\ Cardinality(Addrs) \in Nat
BY SizesAssumption, AddrsAssumption, FS_CardinalityType

\* A catalog has no more movies than there are places.
LEMMA CatalogFits ==
  ASSUME Placed
  PROVE  Len(data) + PageSize <= SizeMax
<1>1. Len(data) \in Nat /\ data \in Injection(1 .. Len(data), Addrs)
  BY DEF Placed, Injection, IsInjective
<1>2. Cardinality(1 .. Len(data)) = Len(data)
  <2>1. 1 \in Int /\ Len(data) \in Int
    BY <1>1
  <2>2. Cardinality(1 .. Len(data)) = IF 1 > Len(data) THEN 0 ELSE Len(data) - 1 + 1
    BY <2>1, FS_Interval, Zenon
  <2>. QED  BY <1>1, <2>2
<1>3. Len(data) <= Cardinality(Addrs)
  BY <1>1, <1>2, FS_Injection, AddrsAssumption
<1>. QED  BY <1>1, <1>3, Sizes, AddrsAssumption

\* add() and remove() keep the places apart.
LEMMA PlacedStays ==
  ASSUME Placed, [Next]_vars
  PROVE  Placed'
<1>1. ASSUME NEW t \in Titles, AddMovie(t)
      PROVE  Placed'
  <2>1. PICK p \in Addrs :
          /\ heap[p] = Free
          /\ heap' = [heap EXCEPT ![p] = t]
          /\ data' = Append(data, p)
    BY <1>1 DEF AddMovie
  <2>2. /\ data' \in Seq(Addrs)
        /\ Len(data') = Len(data) + 1 /\ Len(data) \in Nat
        /\ data'[Len(data) + 1] = p
        /\ \A i \in 1 .. Len(data) : data'[i] = data[i] /\ data[i] # p
    BY <2>1 DEF Placed
  <2>3. t # Free
    BY FreeAssumption
  <2>. QED  BY <2>1, <2>2, <2>3 DEF Placed
<1>2. ASSUME NEW t \in Titles, RemoveMovie(t)
      PROVE  Placed'
  <2>1. PICK i \in DOMAIN data :
          /\ heap' = [heap EXCEPT ![data[i]] = Free]
          /\ data' = RemoveAt(data, i)
    BY <1>2 DEF RemoveMovie
  <2>2. /\ data' \in Seq(Addrs)
        /\ Len(data) \in Nat /\ i \in 1 .. Len(data)
        /\ Len(data') = Len(data) - 1
        /\ \A j \in 1 .. Len(data') : data'[j] = IF j < i THEN data[j] ELSE data[j + 1]
    BY <2>1, RemoveAtSeq DEF Placed
  <2>3. heap' \in [Addrs -> Titles \cup {Free}]
    BY <2>1 DEF Placed
  <2>4. ASSUME NEW j \in DOMAIN data'
        PROVE  \E k \in DOMAIN data : /\ k = (IF j < i THEN j ELSE j + 1)
                                      /\ data'[j] = data[k] /\ k # i
    BY <2>2
  <2>5. \A j \in DOMAIN data' : heap'[data'[j]] # Free
    BY <2>1, <2>2, <2>4 DEF Placed
  <2>6. \A j, k \in DOMAIN data' : data'[j] = data'[k] => j = k
    BY <2>2, <2>4 DEF Placed
  <2>. QED  BY <2>2, <2>3, <2>5, <2>6 DEF Placed
<1>3. CASE UNCHANGED <<heap, data>>
  BY <1>3 DEF Placed
<1>4. [Next]_vars => \/ \E t \in Titles : AddMovie(t) \/ RemoveMovie(t)
                     \/ UNCHANGED <<heap, data>>
  BY DEF Next, vars, AllMovies, MoviesSlice, NextPage, Sort, Selected, SelectEqual,
         SelectWithin
<1>. QED  BY <1>1, <1>2, <1>3, <1>4

-----------------------------------------------------------------------------
\* A page and what was shown before it are the catalog up to the end of the page.
LEMMA PageJoins ==
  ASSUME NEW S, NEW s \in Seq(S), NEW from \in Nat, NEW to \in Nat,
         from <= to, to <= Len(s)
  PROVE  SubSeq(s, 1, from) \o SubSeq(s, from + 1, to) = SubSeq(s, 1, to)
<1> DEFINE a == SubSeq(s, 1, from)
           b == SubSeq(s, from + 1, to)
           c == SubSeq(s, 1, to)
<1>1. a \in Seq(S) /\ Len(a) = from /\ \A i \in 1 .. from : a[i] = s[i]
  OBVIOUS
<1>2. b \in Seq(S) /\ Len(b) = to - from /\ \A i \in 1 .. to - from : b[i] = s[from + i]
  OBVIOUS
<1>3. c \in Seq(S) /\ Len(c) = to /\ \A i \in 1 .. to : c[i] = s[i]
  OBVIOUS
<1>. HIDE DEF a, b, c
<1>4. /\ a \o b \in Seq(S)
      /\ Len(a \o b) = to
      /\ \A i \in 1 .. to : (a \o b)[i] = IF i <= from THEN a[i] ELSE b[i - from]
  <2>1. Len(a) + Len(b) = to
    BY <1>1, <1>2
  <2>2. /\ a \o b \in Seq(S)
        /\ Len(a \o b) = Len(a) + Len(b)
        /\ \A i \in 1 .. Len(a) + Len(b) :
             (a \o b)[i] = IF i <= Len(a) THEN a[i] ELSE b[i - Len(a)]
    BY <1>1, <1>2, ConcatProperties, Zenon
  <2>. QED  BY <1>1, <2>1, <2>2
<1>5. ASSUME NEW i \in 1 .. to PROVE (a \o b)[i] = c[i]
  <2>1. c[i] = s[i] /\ (a \o b)[i] = IF i <= from THEN a[i] ELSE b[i - from]
    BY <1>3, <1>4
  <2>2. CASE i <= from
    BY <1>1, <2>1, <2>2
  <2>3. CASE ~ (i <= from)
    <3>1. i - from \in 1 .. to - from /\ from + (i - from) = i
      BY <2>3
    <3>2. b[i - from] = s[from + (i - from)]
      BY <1>2, <3>1
    <3>. QED  BY <2>1, <2>3, <3>1, <3>2
  <2>. QED  BY <2>2, <2>3
<1>6. a \o b = c
  BY <1>3, <1>4, <1>5, SeqEqual
<1>. QED  BY <1>6 DEF a, b, c

\* The titles of a part of the catalog.
LEMMA TitlesOfPart ==
  ASSUME Placed, NEW from \in Nat, NEW to \in Nat, from <= to, to <= Len(data)
  PROVE  /\ TitlesAt(data) \in Seq(Titles) /\ Len(TitlesAt(data)) = Len(data)
         /\ TitlesAt(SubSeq(data, from + 1, to)) = SubSeq(TitlesAt(data), from + 1, to)
<1>1. /\ DOMAIN data = 1 .. Len(data) /\ Len(data) \in Nat
      /\ \A i \in 1 .. Len(data) : heap[data[i]] \in Titles
  BY DEF Placed
<1>2. /\ TitlesAt(data) \in Seq(Titles) /\ Len(TitlesAt(data)) = Len(data)
      /\ \A i \in 1 .. Len(data) : TitlesAt(data)[i] = heap[data[i]]
  BY <1>1 DEF TitlesAt
<1> DEFINE part == SubSeq(data, from + 1, to)
           names == SubSeq(TitlesAt(data), from + 1, to)
<1>3. /\ DOMAIN part = 1 .. to - from
      /\ \A i \in 1 .. to - from : part[i] = data[from + i]
  BY <1>1 DEF Placed
<1>4. /\ names \in Seq(Titles) /\ Len(names) = to - from
      /\ \A i \in 1 .. to - from : names[i] = TitlesAt(data)[from + i]
  BY <1>2
<1>. HIDE DEF part, names
<1>5. /\ TitlesAt(part) = [i \in 1 .. to - from |-> heap[part[i]]]
  BY <1>3 DEF TitlesAt
<1>6. names = [i \in 1 .. to - from |-> names[i]]
  BY <1>4
<1>7. ASSUME NEW i \in 1 .. to - from PROVE names[i] = heap[part[i]]
  <2>1. from + i \in 1 .. Len(data)
    BY <1>1
  <2>2. names[i] = TitlesAt(data)[from + i] /\ part[i] = data[from + i]
    BY <1>3, <1>4
  <2>. QED  BY <1>2, <2>1, <2>2
<1>8. TitlesAt(part) = names
  BY <1>5, <1>6, <1>7
<1>. QED  BY <1>2, <1>8 DEF part, names

\* The pages so far are followed by the next one.
LEMMA PagesStay ==
  ASSUME PInv, [Next]_vars
  PROVE  Pages'
<1>. USE Sizes
<1>1. CASE NextPage
  <2>1. /\ offset \in Nat /\ Len(data) \in Nat /\ offset < Len(data)
        /\ shown = SubSeq(TitlesAt(data), 1, offset)
    BY <1>1 DEF PInv, Placed, Pages, PagesShowAll, NextPage
  <2> DEFINE end == IF offset + PageSize < Len(data) THEN offset + PageSize ELSE Len(data)
  <2>2. End(offset, PageSize) = end
    <3>1. Len(data) + PageSize <= SizeMax
      BY CatalogFits DEF PInv
    <3>2. (offset + PageSize) % (SizeMax + 1) = offset + PageSize
      BY <2>1, <3>1
    <3>. QED  BY <3>2 DEF End
  <2>3. end \in Nat /\ offset <= end /\ end <= Len(data)
    BY <2>1
  <2>. HIDE DEF end
  <2>4. shown' = SubSeq(TitlesAt(data), 1, offset) \o SubSeq(TitlesAt(data), offset + 1, end)
    BY <1>1, <2>1, <2>2, <2>3, TitlesOfPart DEF NextPage, SliceOf, PInv
  <2>5. shown' = SubSeq(TitlesAt(data), 1, end)
    BY <2>1, <2>3, <2>4, TitlesOfPart, PageJoins DEF PInv
  <2>6. TitlesAt(data)' = TitlesAt(data) /\ data' = data /\ offset' = offset + PageSize
    BY <1>1 DEF NextPage, TitlesAt
  <2>. QED  BY <2>1, <2>5, <2>6 DEF Pages, PagesShowAll, end
<1>2. CASE FirstPage
  <2>1. SubSeq(TitlesAt(data), 1, 0)' = <<>> /\ Len(data)' \in Nat
    <3>1. Placed'
      BY PlacedStays DEF PInv
    <3>. QED  BY <3>1 DEF Placed
  <2>. QED  BY <1>2, <2>1 DEF FirstPage, Pages, PagesShowAll
<1>3. CASE UNCHANGED <<heap, data, pageVars>>
  BY <1>3 DEF PInv, Pages, PagesShowAll, TitlesAt, pageVars
<1>4. [Next]_vars => NextPage \/ FirstPage \/ UNCHANGED <<heap, data, pageVars>>
  BY DEF Next, vars, AddMovie, RemoveMovie, AllMovies, MoviesSlice, Sort, Selected,
         SelectEqual, SelectWithin
<1>. QED  BY <1>1, <1>2, <1>3, <1>4

(* The invariant of the pages holds initially. *)
LEMMA PagesInvInit == Init => PInv
<1>. SUFFICES ASSUME Init PROVE PInv
  OBVIOUS
<1>1. Placed
  BY DEF Init, Placed
<1>2. TitlesAt(data) = <<>>
  BY DEF Init, TitlesAt
<1>3. SubSeq(<<>>, 1, 0) = <<>>
  OBVIOUS
<1>4. Pages
  BY <1>2, <1>3 DEF Init, Pages, PagesShowAll
<1>. QED  BY <1>1, <1>4 DEF PInv

\* The pages a client has shown are the catalog up to the next page
\* (catalog.cpp:213-226).
THEOREM PagesComplete == Spec => []PagesShowAll
<1>1. PInv /\ [Next]_vars => PInv'
  BY PlacedStays, PagesStay DEF PInv
<1>2. PInv => PagesShowAll
  BY DEF PInv, Pages
<1>. QED  BY <1>1, <1>2, PagesInvInit, PTL DEF Spec

-----------------------------------------------------------------------------
(* Lists *)

\* Memory holds no movie but those of the catalog, and none of them twice: of
\* the places that list refers to no two hold one title.
Owned ==
  /\ \A p \in Addrs : heap[p] # Free => \E i \in DOMAIN data : data[i] = p
  /\ \A p, q \in Addrs : heap[p] # Free /\ heap[p] = heap[q] => p = q

\* A list remembers a title of each of its references.
ListTypes ==
  /\ list \in Seq(Addrs)
  /\ named \in Seq(Titles)
  /\ Len(named) = Len(list)
  /\ removed \subseteq Titles
  /\ sorted \in (Fields \X BOOLEAN) \cup {Unsorted}

Lists == ListTypes /\ ReferencesHold /\ SortedStrictly

LInv ==
  /\ PInv
  /\ Owned
  /\ Lists
  /\ offset \in 0 .. SizeMax
  /\ result \in {"ok", "threw"}

\* add() takes a place where no movie is, remove() leaves none.
LEMMA OwnedStays ==
  ASSUME Placed, Owned, [Next]_vars
  PROVE  Owned'
<1>1. ASSUME NEW t \in Titles, AddMovie(t)
      PROVE  Owned'
  <2>1. PICK p \in Addrs :
          /\ heap[p] = Free
          /\ heap' = [heap EXCEPT ![p] = t]
          /\ data' = Append(data, p)
    BY <1>1 DEF AddMovie
  <2>2. /\ DOMAIN data = 1 .. Len(data)
        /\ DOMAIN data' = 1 .. Len(data) + 1 /\ Len(data) \in Nat
        /\ data'[Len(data) + 1] = p
        /\ \A i \in 1 .. Len(data) : data'[i] = data[i]
    BY <2>1 DEF Placed
  <2>3. t # Free /\ \A q \in Addrs : heap'[q] = IF q = p THEN t ELSE heap[q]
    BY <2>1, FreeAssumption DEF Placed
  <2>4. ASSUME NEW q \in Addrs, heap'[q] # Free
        PROVE  \E i \in DOMAIN data' : data'[i] = q
    <3>1. CASE q = p
      BY <2>2, <3>1
    <3>2. CASE q # p
      <4>1. PICK i \in DOMAIN data : data[i] = q
        BY <2>3, <2>4, <3>2 DEF Owned
      <4>2. i \in DOMAIN data' /\ data'[i] = q
        BY <2>2, <4>1
      <4>. QED  BY <4>2
    <3>. QED  BY <3>1, <3>2
  <2>5. \A q \in Addrs : heap[q] # t
    BY <1>1, <2>3 DEF AddMovie, Owned
  <2>6. \A q, r \in Addrs : heap'[q] # Free /\ heap'[q] = heap'[r] => q = r
    BY <2>3, <2>5 DEF Owned
  <2>. QED  BY <2>4, <2>6 DEF Owned
<1>2. ASSUME NEW t \in Titles, RemoveMovie(t)
      PROVE  Owned'
  <2>1. PICK i \in DOMAIN data :
          /\ heap' = [heap EXCEPT ![data[i]] = Free]
          /\ data' = RemoveAt(data, i)
    BY <1>2 DEF RemoveMovie
  <2>2. /\ data' \in Seq(Addrs) /\ data[i] \in Addrs
        /\ Len(data) \in Nat /\ i \in 1 .. Len(data) /\ DOMAIN data = 1 .. Len(data)
        /\ Len(data') = Len(data) - 1
        /\ \A j \in 1 .. Len(data') : data'[j] = IF j < i THEN data[j] ELSE data[j + 1]
    <3>1. data \in Seq(Addrs) /\ Len(data) \in Nat /\ i \in 1 .. Len(data)
      BY <2>1 DEF Placed
    <3>2. data[i] \in Addrs /\ DOMAIN data = 1 .. Len(data) /\ i <= Len(data)
      BY <3>1
    <3>3. i \in 1 .. Len(data) + 1
      BY <3>1
    <3>4. /\ RemoveAt(data, i) \in Seq(Addrs)
          /\ Len(RemoveAt(data, i)) = IF i <= Len(data) THEN Len(data) - 1 ELSE Len(data)
          /\ \A j \in 1 .. Len(RemoveAt(data, i)) :
               RemoveAt(data, i)[j] = IF j < i THEN data[j] ELSE data[j + 1]
      BY <3>1, <3>3, RemoveAtSeq
    <3>. QED  BY <2>1, <3>1, <3>2, <3>4
  <2>3. \A q \in Addrs : heap'[q] = IF q = data[i] THEN Free ELSE heap[q]
    BY <2>1, <2>2 DEF Placed
  <2>4. ASSUME NEW q \in Addrs, heap'[q] # Free
        PROVE  \E j \in DOMAIN data' : data'[j] = q
    <3>1. PICK k \in DOMAIN data : data[k] = q
      BY <2>3, <2>4 DEF Owned
    <3>2. k # i /\ k \in 1 .. Len(data) /\ DOMAIN data' = 1 .. Len(data) - 1
      BY <2>2, <2>3, <2>4, <3>1
    <3>3. CASE k < i
      <4>1. k \in DOMAIN data' /\ data'[k] = q
        BY <2>2, <3>1, <3>2, <3>3
      <4>. QED  BY <4>1
    <3>4. CASE ~ (k < i)
      <4>1. k - 1 \in 1 .. Len(data') /\ ~ (k - 1 < i) /\ k - 1 + 1 = k
        BY <2>2, <3>2, <3>4
      <4>2. k - 1 \in DOMAIN data' /\ data'[k - 1] = q
        BY <2>2, <3>1, <3>2, <4>1
      <4>. QED  BY <4>2
    <3>. QED  BY <3>3, <3>4
  <2>5. \A q, r \in Addrs : heap'[q] # Free /\ heap'[q] = heap'[r] => q = r
    BY <2>3 DEF Owned
  <2>. QED  BY <2>4, <2>5 DEF Owned
<1>3. CASE UNCHANGED <<heap, data>>
  BY <1>3 DEF Owned
<1>4. [Next]_vars => \/ \E t \in Titles : AddMovie(t) \/ RemoveMovie(t)
                     \/ UNCHANGED <<heap, data>>
  BY DEF Next, vars, AllMovies, MoviesSlice, NextPage, Sort, Selected, SelectEqual,
         SelectWithin
<1>. QED  BY <1>1, <1>2, <1>3, <1>4

\* A list is a part of the catalog when it is obtained.
LEMMA ObtainedLists ==
  ASSUME Placed, UNCHANGED heap, NEW places \in Seq(Addrs), Obtained(places),
         \A i \in DOMAIN places : heap[places[i]] # Free
  PROVE  Lists'
<1>1. /\ list' = places /\ named' = TitlesAt(places)
      /\ removed' = {} /\ sorted' = Unsorted
  BY DEF Obtained
<1>2. DOMAIN places = 1 .. Len(places) /\ Len(places) \in Nat
  OBVIOUS
<1>3. \A i \in 1 .. Len(places) : heap[places[i]] \in Titles
  BY <1>2 DEF Placed
<1>4. /\ named' \in Seq(Titles) /\ Len(named') = Len(places)
      /\ \A i \in 1 .. Len(places) : named'[i] = heap[places[i]]
  BY <1>1, <1>2, <1>3 DEF TitlesAt
<1>. QED  BY <1>1, <1>2, <1>4 DEF Lists, ListTypes, ReferencesHold, SortedStrictly

\* A slice of the catalog refers to its movies.
LEMMA SliceRefers ==
  ASSUME Placed, NEW from \in Nat, NEW count \in Nat
  PROVE  /\ SliceOf(from, count) \in Seq(Addrs)
         /\ \A i \in DOMAIN SliceOf(from, count) : heap[SliceOf(from, count)[i]] # Free
<1> DEFINE to == End(from, count)
<1>1. data \in Seq(Addrs) /\ Len(data) \in Nat /\ DOMAIN data = 1 .. Len(data)
  BY DEF Placed
<1>2. to \in Int /\ to <= Len(data)
  <2>1. (from + count) % (SizeMax + 1) \in Int
    BY Sizes
  <2>. QED  BY <1>1, <2>1 DEF End
<1>. HIDE DEF to
<1>3. /\ SubSeq(data, from + 1, to) \in Seq(Addrs)
      /\ \A i \in DOMAIN SubSeq(data, from + 1, to) :
           from + i \in 1 .. Len(data) /\ SubSeq(data, from + 1, to)[i] = data[from + i]
  BY <1>1, <1>2
<1>. QED  BY <1>1, <1>3 DEF SliceOf, Placed, to

\* Movies that are usable are where their references say.
LEMMA UsablePlaces ==
  ASSUME Lists, Usable, NEW i \in DOMAIN list
  PROVE  /\ i \in DOMAIN named /\ list[i] \in Addrs
         /\ heap[list[i]] = named[i] /\ named[i] \in Titles /\ named[i] # Free
<1>1. i \in 1 .. Len(list) /\ i \in DOMAIN named /\ list[i] \in Addrs
  BY DEF Lists, ListTypes
<1>2. named[i] \in Titles
  BY <1>1 DEF Lists, ListTypes
<1>. QED  BY <1>1, <1>2, FreeAssumption DEF Lists, ReferencesHold, Usable

\* Sorting arranges the references: of movies of different titles no two are
\* equal for the comparison, so that none being out of order they are in order.
LEMMA SortLists ==
  ASSUME Placed, Owned, Lists, NEW f \in Fields, NEW asc \in BOOLEAN, Sort(f, asc)
  PROVE  Lists'
<1>1. /\ Usable
      /\ list' \in SetToSeqs(ToSet(list))
      /\ \A i, j \in DOMAIN list' :
           i < j => ~ Before(f, asc, heap[list'[j]], heap[list'[i]])
      /\ named' = [i \in DOMAIN list' |-> heap[list'[i]]]
      /\ sorted' = <<f, asc>> /\ removed' = removed /\ heap' = heap
  BY DEF Sort
<1> DEFINE n == Cardinality(ToSet(list))
<1>2. list \in Seq(Addrs) /\ DOMAIN list = 1 .. Len(list) /\ Len(list) \in Nat
  BY DEF Lists, ListTypes
<1>3. n \in Nat
  <2>1. IsFiniteSet(DOMAIN list)
    BY <1>2, FS_Interval
  <2>2. list \in Surjection(DOMAIN list, ToSet(list))
    BY <1>2 DEF Surjection, ToSet
  <2>3. IsFiniteSet(ToSet(list))
    BY <2>1, <2>2, FS_Surjection
  <2>. QED  BY <2>3, FS_CardinalityType
<1>4. /\ list' \in [1 .. n -> ToSet(list)]
      /\ \A i, j \in 1 .. n : i # j => list'[i] # list'[j]
  BY <1>1 DEF SetToSeqs
<1>. HIDE DEF n
<1>5. ASSUME NEW i \in 1 .. n
      PROVE  list'[i] \in Addrs /\ heap[list'[i]] \in Titles /\ heap[list'[i]] # Free
  <2>1. PICK k \in DOMAIN list : list'[i] = list[k]
    BY <1>4 DEF ToSet
  <2>. QED  BY <1>1, <2>1, UsablePlaces
<1>6. /\ list' \in Seq(Addrs) /\ Len(list') = n /\ DOMAIN list' = 1 .. n
  BY <1>3, <1>4, <1>5
<1>7. /\ named' \in Seq(Titles) /\ Len(named') = n
      /\ \A i \in 1 .. n : named'[i] = heap[list'[i]]
  BY <1>1, <1>3, <1>5, <1>6
<1>8. ASSUME NEW i \in 1 .. n, NEW j \in 1 .. n, i < j
      PROVE  Before(f, asc, named'[i], named'[j])
  <2>1. list'[i] # list'[j]
    BY <1>3, <1>4, <1>8
  <2>2. heap[list'[i]] # heap[list'[j]]
    BY <1>5, <2>1 DEF Owned
  <2>3. ~ Before(f, asc, named'[j], named'[i])
    BY <1>1, <1>6, <1>7, <1>8
  <2>. QED
    BY <1>5, <1>7, <2>2, <2>3, ComparisonsOrder DEF IsStrictTotalOrder
<1>9. ReferencesHold'
  BY <1>1, <1>6, <1>7 DEF ReferencesHold
<1>10. SortedStrictly'
  <2>1. DOMAIN named' = 1 .. n /\ sorted'[1] = f /\ sorted'[2] = asc
    BY <1>1, <1>3, <1>7
  <2>2. \A i, j \in DOMAIN named' : i < j => Before(f, asc, named'[i], named'[j])
    BY <1>8, <2>1
  <2>. QED  BY <2>1, <2>2 DEF SortedStrictly
<1>11. ListTypes'
  <2>1. sorted' \in Fields \X BOOLEAN
    BY <1>1
  <2>2. removed' \subseteq Titles
    BY <1>1 DEF Lists, ListTypes
  <2>. QED  BY <1>6, <1>7, <2>1, <2>2 DEF ListTypes
<1>. QED  BY <1>9, <1>10, <1>11 DEF Lists

\* Selecting keeps the order: the references that pass, each after those it came
\* after, and all of them.
LEMMA KeepPlaces ==
  ASSUME Lists, Usable, NEW passing, NEW places \in Keep(passing)
  PROVE  /\ places \in Seq(Addrs)
         /\ \A n \in DOMAIN places : \E i \in DOMAIN list :
              places[n] = list[i] /\ named[i] \in passing
         /\ \A m, n \in DOMAIN places : m < n =>
              \E i, j \in DOMAIN list :
                i < j /\ places[m] = list[i] /\ places[n] = list[j]
         /\ \A i \in DOMAIN list : named[i] \in passing =>
              \E n \in DOMAIN places : places[n] = list[i]
<1> DEFINE passed == { i \in DOMAIN list : heap[list[i]] \in passing }
           size == Cardinality(passed)
<1>1. PICK at \in [1 .. size -> passed] :
        /\ \A m, n \in DOMAIN at : m < n => at[m] < at[n]
        /\ places = [n \in DOMAIN at |-> list[at[n]]]
  BY DEF Keep
<1>2. list \in Seq(Addrs) /\ DOMAIN list = 1 .. Len(list) /\ Len(list) \in Nat
  BY DEF Lists, ListTypes
<1>3. IsFiniteSet(passed) /\ size \in Nat
  <2>1. IsFiniteSet(DOMAIN list)
    BY <1>2, FS_Interval
  <2>. QED  BY <2>1, FS_Subset, FS_CardinalityType
<1>4. \A i \in DOMAIN list : heap[list[i]] = named[i]
  BY UsablePlaces
<1>. HIDE DEF size
<1>5. DOMAIN at = 1 .. size /\ \A n \in 1 .. size : at[n] \in passed
  BY <1>1
<1>6. \A i \in passed : \E n \in 1 .. size : at[n] = i
  <2>1. at \in Injection(1 .. size, passed)
    <3>1. \A m, n \in 1 .. size : m # n => at[m] # at[n]
      <4>1. \A m, n \in 1 .. size : m < n => at[m] < at[n]
        BY <1>1, <1>5
      <4>2. \A m \in 1 .. size : at[m] \in Int
        BY <1>2, <1>5
      <4>3. \A m, n \in 1 .. size : m # n => m < n \/ n < m
        BY <1>3
      <4>. QED  BY <4>1, <4>2, <4>3
    <3>. QED  BY <1>1, <3>1 DEF Injection, IsInjective
  <2>2. IsFiniteSet(1 .. size) /\ Cardinality(1 .. size) = size
    <3>1. 1 \in Int /\ size \in Int
      BY <1>3
    <3>2. /\ IsFiniteSet(1 .. size)
          /\ Cardinality(1 .. size) = IF 1 > size THEN 0 ELSE size - 1 + 1
      BY <3>1, FS_Interval, Zenon
    <3>. QED  BY <1>3, <3>2
  <2>3. Cardinality(passed) = size
    BY DEF size
  <2>. HIDE DEF passed
  <2>4. at \in Surjection(1 .. size, passed)
    BY <1>3, <2>1, <2>2, <2>3, FS_Surjection, FS_Injection
  <2>. QED  BY <2>4 DEF Surjection
<1>7. /\ DOMAIN places = 1 .. size
      /\ \A n \in 1 .. size : places[n] = list[at[n]]
  BY <1>1, <1>5
<1>8. places \in Seq(Addrs)
  <2>1. \A n \in 1 .. size : places[n] \in Addrs
    BY <1>2, <1>5, <1>7
  <2>2. places \in [1 .. size -> Addrs]
    BY <1>1, <1>5, <1>7, <2>1
  <2>. QED  BY <1>3, <2>2
<1>9. \A m, n \in DOMAIN places : m < n =>
        \E i, j \in DOMAIN list :
          i < j /\ places[m] = list[i] /\ places[n] = list[j]
  BY <1>1, <1>5, <1>7
<1>10. \A n \in DOMAIN places : \E i \in DOMAIN list :
         places[n] = list[i] /\ named[i] \in passing
  BY <1>4, <1>5, <1>7
<1>11. \A i \in DOMAIN list : named[i] \in passing =>
         \E n \in DOMAIN places : places[n] = list[i]
  BY <1>4, <1>6, <1>7
<1>. QED  BY <1>8, <1>9, <1>10, <1>11

(* What a selection hands out are pointers of the list it was given, in its order. *)
LEMMA SelectLists ==
  ASSUME Lists, Usable, NEW passing, NEW places \in Keep(passing), Selected(places)
  PROVE  Lists'
<1>1. /\ list' = places /\ named' = TitlesAt(places)
      /\ removed' = removed /\ sorted' = sorted /\ heap' = heap
  BY DEF Selected
<1>2. /\ places \in Seq(Addrs) /\ DOMAIN places = 1 .. Len(places) /\ Len(places) \in Nat
      /\ \A n \in DOMAIN places : \E i \in DOMAIN list : places[n] = list[i]
      /\ \A m, n \in DOMAIN places : m < n =>
           \E i, j \in DOMAIN list :
             i < j /\ places[m] = list[i] /\ places[n] = list[j]
  BY KeepPlaces
<1>3. \A n \in 1 .. Len(places) : heap[places[n]] \in Titles
  BY <1>2, UsablePlaces
<1>4. /\ named' \in Seq(Titles) /\ Len(named') = Len(places)
      /\ \A n \in 1 .. Len(places) : named'[n] = heap[places[n]]
  BY <1>1, <1>2, <1>3 DEF TitlesAt
<1>5. ReferencesHold'
  BY <1>1, <1>2, <1>4 DEF ReferencesHold
<1>6. SortedStrictly'
  <2>. SUFFICES ASSUME sorted # Unsorted, NEW m \in DOMAIN named',
                       NEW n \in DOMAIN named', m < n
                PROVE  Before(sorted[1], sorted[2], named'[m], named'[n])
    BY <1>1 DEF SortedStrictly
  <2>1. m \in DOMAIN places /\ n \in DOMAIN places
    BY <1>2, <1>4
  <2>2. PICK i, j \in DOMAIN list :
          i < j /\ places[m] = list[i] /\ places[n] = list[j]
    BY <1>2, <2>1
  <2>3. /\ named'[m] = named[i] /\ named'[n] = named[j]
        /\ i \in DOMAIN named /\ j \in DOMAIN named
    BY <1>2, <1>4, <2>1, <2>2, UsablePlaces
  <2>4. Before(sorted[1], sorted[2], named[i], named[j])
    BY <2>2, <2>3 DEF Lists, SortedStrictly
  <2>. QED  BY <2>3, <2>4
<1>7. ListTypes'
  BY <1>1, <1>2, <1>4 DEF Lists, ListTypes
<1>. QED  BY <1>5, <1>6, <1>7 DEF Lists

\* One step per action.
LEMMA ListsStay ==
  ASSUME PInv, Owned, Lists, [Next]_vars
  PROVE  Lists'
<1>. USE DEF PInv
<1>1. ASSUME NEW t \in Titles, AddMovie(t)
      PROVE  Lists'
  <2>1. PICK p \in Addrs : heap[p] = Free /\ heap' = [heap EXCEPT ![p] = t]
    BY <1>1 DEF AddMovie
  <2>2. UNCHANGED listVars
    BY <1>1 DEF AddMovie
  <2>3. \A i \in DOMAIN list : list[i] \in Addrs /\ named[i] \in Titles
    BY DEF Lists, ListTypes
  <2>4. ReferencesHold'
    <3>1. \A q \in Addrs : heap[q] # Free => heap'[q] = heap[q]
      BY <2>1 DEF Placed
    <3>. QED  BY <2>2, <2>3, <3>1, FreeAssumption DEF listVars, Lists, ReferencesHold
  <2>. QED  BY <2>2, <2>4 DEF listVars, Lists, ListTypes, SortedStrictly
<1>2. ASSUME NEW t \in Titles, RemoveMovie(t)
      PROVE  Lists'
  <2>1. PICK i \in DOMAIN data :
          heap[data[i]] = t /\ heap' = [heap EXCEPT ![data[i]] = Free]
    BY <1>2 DEF RemoveMovie
  <2>2. UNCHANGED <<list, named, sorted>> /\ removed' = removed \cup {t}
    BY <1>2 DEF RemoveMovie
  <2>3. \A k \in DOMAIN list : list[k] \in Addrs
    BY DEF Lists, ListTypes
  <2>4. ReferencesHold'
    <3>1. \A q \in Addrs : heap[q] # t => heap'[q] = heap[q]
      BY <2>1 DEF Placed
    <3>. QED  BY <2>2, <2>3, <3>1 DEF Lists, ReferencesHold
  <2>. QED  BY <2>2, <2>4 DEF Lists, ListTypes, SortedStrictly
<1>3. CASE AllMovies
  <2>1. Obtained(data) /\ UNCHANGED heap
    BY <1>3 DEF AllMovies
  <2>. QED  BY <2>1, ObtainedLists DEF Placed
<1>4. ASSUME NEW s \in Slices, MoviesSlice(s[1], s[2])
      PROVE  Lists'
  <2>1. s[1] \in Nat /\ s[2] \in Nat /\ UNCHANGED heap
    BY <1>4, SizesAssumption DEF MoviesSlice
  <2>2. CASE UNCHANGED listVars
    BY <2>1, <2>2 DEF listVars, Lists, ListTypes, ReferencesHold, SortedStrictly
  <2>3. CASE Obtained(SliceOf(s[1], s[2]))
    BY <2>1, <2>3, SliceRefers, ObtainedLists
  <2>. QED  BY <1>4, <2>2, <2>3 DEF MoviesSlice
<1>5. CASE NextPage
  <2>1. Obtained(SliceOf(offset, PageSize)) /\ UNCHANGED heap /\ offset \in Nat
    BY <1>5 DEF NextPage, Pages
  <2>. QED  BY <2>1, Sizes, SliceRefers, ObtainedLists
<1>6. ASSUME NEW f \in Fields, NEW asc \in BOOLEAN, Sort(f, asc)
      PROVE  Lists'
  BY <1>6, SortLists
<1>7. ASSUME NEW f, NEW val, SelectEqual(f, val)
      PROVE  Lists'
  BY <1>7, SelectLists DEF SelectEqual
<1>8. ASSUME NEW f, NEW val, NEW delta, SelectWithin(f, val, delta)
      PROVE  Lists'
  BY <1>8, SelectLists DEF SelectWithin
<1>9. CASE UNCHANGED vars
  BY <1>9 DEF vars, listVars, Lists, ListTypes, ReferencesHold, SortedStrictly
<1>. QED
  BY <1>1, <1>2, <1>3, <1>4, <1>5, <1>6, <1>7, <1>8, <1>9 DEF Next

\* The offset is a size_t: a page begins inside the catalog, and SizeMax leaves
\* room for one more page than there can be movies.
LEMMA OffsetFits ==
  ASSUME PInv, offset \in 0 .. SizeMax, [Next]_vars
  PROVE  offset' \in 0 .. SizeMax
<1>. USE Sizes
<1>1. CASE NextPage
  <2>1. offset < Len(data) /\ offset' = offset + PageSize
    BY <1>1 DEF NextPage
  <2>2. Len(data) + PageSize <= SizeMax /\ Len(data) \in Nat
    BY CatalogFits DEF PInv, Placed
  <2>. QED  BY <2>1, <2>2
<1>2. CASE offset' = 0
  BY <1>2
<1>3. CASE offset' = offset
  BY <1>3
<1>4. [Next]_vars => NextPage \/ offset' = 0 \/ offset' = offset
  BY DEF Next, vars, pageVars, FirstPage, AddMovie, RemoveMovie, AllMovies,
         MoviesSlice, Sort, Selected, SelectEqual, SelectWithin
<1>. QED  BY <1>1, <1>2, <1>3, <1>4

(* The postcondition of a selection speaks of list and result only. *)
LEMMA ResultStays ==
  ASSUME result \in {"ok", "threw"}, [Next]_vars
  PROVE  result' \in {"ok", "threw"}
BY DEF Next, vars, AddMovie, RemoveMovie, AllMovies, MoviesSlice, NextPage, Sort,
       Selected, SelectEqual, SelectWithin

(* The invariant of the lists holds before the first call. *)
LEMMA ListsInvInit == Init => LInv
<1>. SUFFICES ASSUME Init PROVE LInv
  OBVIOUS
<1>1. PInv
  BY PagesInvInit
<1>2. Owned
  BY DEF Init, Owned
<1>3. Lists
  BY DEF Init, Lists, ListTypes, ReferencesHold, SortedStrictly
<1>. QED  BY <1>1, <1>2, <1>3, Sizes DEF Init, LInv

(* Every step keeps it. *)
LEMMA ListsInvNext == LInv /\ [Next]_vars => LInv'
BY PlacedStays, PagesStay, OwnedStays, ListsStay, OffsetFits, ResultStays
   DEF LInv, PInv

\* The invariant of catalog, memory, lists and pages.
THEOREM ListInvariance == Spec => []LInv
BY ListsInvInit, ListsInvNext, PTL DEF Spec

\* A reference denotes the movie it denoted when it was obtained, until that
\* movie is removed, through everything that is added, removed, sorted and
\* selected meanwhile, and lists hold nothing but references of movies
\* (catalog.cpp:170-182, 213-234, sort.cpp:16-142).
THEOREM ReferencesStay == Spec => []ListsHold
<1>1. ASSUME LInv PROVE ListsHold
  <2>1. shown \in Seq(Titles)
    <3>1. TitlesAt(data) \in Seq(Titles) /\ Len(TitlesAt(data)) = Len(data)
      BY <1>1 DEF LInv, PInv, Placed, TitlesAt
    <3> DEFINE end == IF offset < Len(data) THEN offset ELSE Len(data)
    <3>2. end \in Nat /\ end <= Len(data)
      BY <1>1 DEF LInv, PInv, Placed, Pages
    <3>3. shown = SubSeq(TitlesAt(data), 1, end)
      BY <1>1 DEF LInv, PInv, Pages, PagesShowAll
    <3>. HIDE DEF end
    <3>. QED  BY <3>1, <3>2, <3>3
  <2>. QED
    BY <1>1, <2>1 DEF LInv, PInv, Placed, Lists, ListTypes, ListsHold, TypeOK
<1>. QED  BY <1>1, ListInvariance, PTL

\* A sorted list is strictly increasing by the function it was sorted with, and
\* stays so while movies are selected from it (sort.cpp:16-84, 89-142).
THEOREM SortedListsStaySorted == Spec => []SortedStrictly
<1>1. LInv => SortedStrictly
  BY DEF LInv, Lists
<1>. QED  BY <1>1, ListInvariance, PTL

\* A slice whose end is a size_t has the movies from its offset on, as many as
\* are asked for or as there are, of a catalog of any size (catalog.cpp:213-226).
THEOREM SlicesAreReturned == Spec => SlicesReturn
<1> DEFINE asked(s) == { i \in DOMAIN data : s[1] < i /\ i <= s[1] + s[2] }
           slice(s) ==
             /\ result' = "ok"
             /\ Len(named') = Cardinality(asked(s))
             /\ \A i \in asked(s) : named'[i - s[1]] = heap[data[i]]
<1>1. ASSUME Placed, NEW s \in Slices, MoviesSlice(s[1], s[2]), s[1] + s[2] <= SizeMax
      PROVE  slice(s)
  <2> DEFINE from == s[1]
             to == End(from, s[2])
             sum == from + s[2]
  <2>1. from \in Nat /\ s[2] \in Nat /\ sum \in Nat /\ SizeMax \in Nat
    BY SizesAssumption
  <2>2. data \in Seq(Addrs) /\ Len(data) \in Nat /\ DOMAIN data = 1 .. Len(data)
    BY <1>1 DEF Placed
  <2>3. sum % (SizeMax + 1) = sum
    BY <1>1, <2>1
  <2>4. to = IF sum < Len(data) THEN sum ELSE Len(data)
    BY <2>3 DEF End
  <2>5. ~ SliceThrows(from, s[2])
    BY <2>1, <2>2, <2>4 DEF SliceThrows
  <2>6. result' = "ok" /\ named' = TitlesAt(SubSeq(data, from + 1, to))
    BY <1>1, <2>5 DEF MoviesSlice, Obtained, SliceOf
  <2>7. to \in Nat /\ to <= Len(data)
    BY <2>1, <2>2, <2>4
  <2>8. asked(s) = from + 1 .. to
    BY <2>1, <2>2, <2>4
  <2>. HIDE DEF to, from, sum, asked
  <2>9. Cardinality(from + 1 .. to) = IF from < to THEN to - from ELSE 0
    <3>1. Cardinality(from + 1 .. to) = IF from + 1 > to THEN 0 ELSE to - (from + 1) + 1
      BY <2>1, <2>7, FS_Interval
    <3>. QED  BY <2>1, <2>7, <3>1
  <2>10. CASE from < to
    <3> DEFINE part == SubSeq(data, from + 1, to)
    <3>1. /\ DOMAIN part = 1 .. to - from
          /\ \A i \in 1 .. to - from : part[i] = data[from + i]
      BY <2>1, <2>2, <2>7, <2>10
    <3>. HIDE DEF part
    <3>2. named' = [i \in 1 .. to - from |-> heap[part[i]]]
      BY <2>6, <3>1 DEF TitlesAt, part
    <3>3. Len(named') = to - from
      BY <2>1, <2>7, <2>10, <3>2
    <3>4. ASSUME NEW i \in from + 1 .. to
          PROVE  named'[i - from] = heap[data[i]]
      <4>1. i - from \in 1 .. to - from /\ from + (i - from) = i
        BY <2>1, <2>7
      <4>. QED  BY <3>1, <3>2, <4>1
    <3>. QED  BY <2>6, <2>8, <2>9, <2>10, <3>3, <3>4 DEF from
  <2>11. CASE ~ (from < to)
    <3>1. SubSeq(data, from + 1, to) = <<>>
      BY <2>1, <2>2, <2>7, <2>11
    <3>2. named' = <<>>
      <4>1. TitlesAt(<<>>) = <<>>
        BY DEF TitlesAt
      <4>. QED  BY <2>6, <3>1, <4>1
    <3>3. from + 1 .. to = {}
      BY <2>1, <2>7, <2>11
    <3>. QED  BY <2>6, <2>8, <2>9, <2>11, <3>2, <3>3
  <2>. QED  BY <2>10, <2>11
<1>2. LInv => [\A s \in Slices : MoviesSlice(s[1], s[2]) /\ s[1] + s[2] <= SizeMax
                                   => slice(s)]_vars
  BY <1>1 DEF LInv, PInv
<1>. QED  BY <1>2, ListInvariance, PTL DEF SlicesReturn

\* Both ends of an interval belong to it, whenever they are of type int: of the
\* list a selection keeps the movies of the interval and no others
\* (sort.cpp:99-109, 129-142).
THEOREM IntervalsAreSelected == Spec => SelectsInterval
<1> DEFINE interval(d) == (d[1] - d[2]) .. (d[1] + d[2])
           selects(f, d) ==
             \A i \in DOMAIN list :
               Value(f, named[i]) \in interval(d)
                 <=> \E j \in DOMAIN list' : list'[j] = list[i]
<1>1. ASSUME LInv, NEW f \in NumberFields, NEW d \in Deltas,
             SelectWithin(f, d[1], d[2]),
             {d[1] - d[2], d[1] + d[2]} \subseteq IntMin .. IntMax
      PROVE  selects(f, d)
  <2> DEFINE passing == { t \in Titles : Within(f, d[1], d[2], t) }
  <2>1. PICK places \in Keep(passing) : list' = places /\ Usable
    BY <1>1 DEF SelectWithin, Selected
  <2>2. d[1] \in Int /\ d[2] \in Int /\ IntMin \in Int /\ IntMax \in Int
    BY SizesAssumption, IntAssumption
  <2>3. /\ Wrapped(d[1] - d[2]) = d[1] - d[2]
        /\ Wrapped(d[1] + d[2]) = d[1] + d[2]
    <3>1. ASSUME NEW x \in IntMin .. IntMax
          PROVE  Wrapped(x) = x
      <4>1. /\ x - IntMin \in Nat /\ x - IntMin < IntMax - IntMin + 1
            /\ IntMax - IntMin + 1 \in Nat
        BY <2>2
      <4>2. (x - IntMin) % (IntMax - IntMin + 1) = x - IntMin
        BY <4>1
      <4>. QED  BY <2>2, <4>2 DEF Wrapped
    <3>. QED  BY <1>1, <3>1
  <2>4. ASSUME NEW t \in Titles
        PROVE  t \in passing <=> Value(f, t) \in interval(d)
    <3>1. Value(f, t) \in Int
      BY AttrAssumption, <1>1 DEF Value, Fields, NumberFields, TextFields
    <3>2. Within(f, d[1], d[2], t)
            <=> d[1] - d[2] <= Value(f, t) /\ Value(f, t) <= d[1] + d[2]
      BY <2>3 DEF Within
    <3>. QED  BY <2>2, <3>1, <3>2
  <2>. HIDE DEF passing, interval
  <2>5. Lists
    BY <1>1 DEF LInv
  <2>6. \A i \in DOMAIN list : named[i] \in Titles /\ heap[list[i]] = named[i]
    BY <2>1, <2>5, UsablePlaces
  <2>7. /\ \A n \in DOMAIN places : \E i \in DOMAIN list :
             places[n] = list[i] /\ named[i] \in passing
        /\ \A i \in DOMAIN list : named[i] \in passing =>
             \E n \in DOMAIN places : places[n] = list[i]
    BY <2>1, <2>5, KeepPlaces
  <2>8. ASSUME NEW i \in DOMAIN list, NEW n \in DOMAIN places, places[n] = list[i]
        PROVE  named[i] \in passing
    <3>1. PICK k \in DOMAIN list : places[n] = list[k] /\ named[k] \in passing
      BY <2>7
    <3>. QED  BY <2>6, <2>8, <3>1
  <2>. QED  BY <2>1, <2>4, <2>6, <2>7, <2>8
<1>. HIDE DEF selects
<1>2. LInv => [\A f \in NumberFields, d \in Deltas :
                 /\ SelectWithin(f, d[1], d[2])
                 /\ {d[1] - d[2], d[1] + d[2]} \subseteq IntMin .. IntMax
                 => selects(f, d)]_vars
  BY <1>1
<1>. QED  BY <1>2, ListInvariance, PTL DEF SelectsInterval, selects

-----------------------------------------------------------------------------
(* The covers, and what create_covers() leaves behind.                     *)

USE PathAssumption, MaxFailuresAssumption

\* No two covers, of a name or of two names, have a file in common.
FilesApart ==
  \A n, m \in Names, k, l \in Kinds : PathOf[n][k] = PathOf[m][l] => n = m /\ k = l

\* The images a call holds at each of its stages.
Held ==
  [s \in Stages |-> IF s = "idle" THEN 0 ELSE IF s = "opened" THEN 1 ELSE 3]

ImagesHeld == images = 2 * failures + Held[stage]

\* The files a call has created and not written yet, at each of its stages.
Created ==
  CASE stage = "standard" -> {File("standard")}
    [] stage = "square"   -> {File("standard"), File("square")}
    [] OTHER              -> {}

NewFilesCreated == ~ crashed => \A p \in Paths : disk[p] = NewFile => p \in Created

CoversInv ==
  /\ CoversTypeOK
  /\ ImagesHeld
  /\ NewFilesCreated

-----------------------------------------------------------------------------
\* The file of a kind of cover is a file.
LEMMA FileIsPath ==
  ASSUME CoversTypeOK, NEW k \in Kinds
  PROVE  File(k) \in Paths
BY DEF CoversTypeOK, File

\* The image of a cover is neither a missing nor an empty file.
LEMMA ImageIsNoMark ==
  ASSUME NEW n, NEW k \in Kinds
  PROVE  Image(n, k) # NewFile /\ Image(n, k) # NoFile
BY DEF Image, NewFile, NoFile, Kinds

\* resize_exact touches no file and no cover, whatever it does to its image.
LEMMA ResizeTouchesNothing ==
  ASSUME [\/ \E s \in Resizes : ResizeToWidth(s[1], s[2], s[3])
          \/ \E s \in Scales : ScaleImage(s[1], s[2], s[3], s[4])]_coversVars,
         fault \in BOOLEAN
  PROVE  /\ UNCHANGED <<disk, stage, name, images, failures, covers, crashed>>
         /\ fault' \in BOOLEAN
<1>1. ASSUME NEW w, NEW h, ResizeExact(w, h)
      PROVE  /\ UNCHANGED <<disk, stage, name, images, failures, covers, crashed>>
             /\ fault' \in BOOLEAN
  <2>1. fault' = ~ Creatable(w, h)
    BY <1>1 DEF ResizeExact
  <2>2. Creatable(w, h) \in BOOLEAN
    BY DEF Creatable
  <2>. QED  BY <1>1, <2>1, <2>2 DEF ResizeExact
<1>2. CASE UNCHANGED coversVars
  BY <1>2 DEF coversVars
<1>. QED  BY <1>1, <1>2 DEF ResizeToWidth, ScaleImage

-----------------------------------------------------------------------------
\* What a stage is to the invariants.
LEMMA HeldOf ==
  /\ Held["idle"] = 0 /\ Held["opened"] = 1
  /\ \A s \in {"resized", "standard", "square", "written"} : Held[s] = 3
BY DEF Held, Stages

LEMMA CoversInitInv == CoversInit => CoversInv
<1>. SUFFICES ASSUME CoversInit PROVE CoversInv
  OBVIOUS
<1>1. CoversTypeOK
  <2>1. disk \in [Paths -> (Names \X Kinds) \cup {NoFile, NewFile}]
    BY DEF CoversInit
  <2>2. stage \in Stages /\ name \in Names /\ crashed \in BOOLEAN /\ fault \in BOOLEAN
    BY DEF CoversInit, Stages
  <2>3. images \in 0 .. 2 * MaxFailures + 3 /\ failures \in 0 .. MaxFailures
    BY DEF CoversInit
  <2>4. covers \subseteq Names
    BY DEF CoversInit
  <2>. QED  BY <2>1, <2>2, <2>3, <2>4 DEF CoversTypeOK
<1>2. ImagesHeld
  BY HeldOf DEF CoversInit, ImagesHeld
<1>3. NewFilesCreated
  BY DEF CoversInit, NewFilesCreated, NoFile, NewFile
<1>. QED  BY <1>1, <1>2, <1>3 DEF CoversInv

\* Every step keeps the count of the images, and the types with it.
LEMMA ImagesStay ==
  ASSUME CoversInv, [CoversNext]_coversVars
  PROVE  CoversTypeOK' /\ ImagesHeld'
<1>. USE HeldOf DEF CoversInv, CoversTypeOK, ImagesHeld, Stages
<1>1. ASSUME NEW n \in Names, OpenSource(n) PROVE CoversTypeOK' /\ ImagesHeld'
  BY <1>1 DEF OpenSource
<1>2. CASE ResizeBoth
  BY <1>2 DEF ResizeBoth
<1>3. CASE OpenStandard
  BY <1>3, FileIsPath DEF OpenStandard
<1>4. CASE OpenStandardFails
  BY <1>4 DEF OpenStandardFails
<1>5. CASE OpenSquare
  BY <1>5, FileIsPath DEF OpenSquare
<1>6. CASE OpenSquareFails
  <2>1. disk' \in [Paths -> (Names \X Kinds) \cup {NoFile, NewFile}]
    BY <1>6, FileIsPath DEF OpenSquareFails
  <2>2. images' = 2 * failures' + Held[stage'] /\ images' \in 0 .. 2 * MaxFailures + 3
    BY <1>6 DEF OpenSquareFails
  <2>. QED  BY <1>6, <2>1, <2>2 DEF OpenSquareFails
<1>7. CASE WriteBoth
  <2>1. \A k \in {"standard", "square"} : Image(name, k) \in Names \X Kinds
    BY DEF Image, Kinds
  <2>. QED  BY <1>7, <2>1 DEF WriteBoth
<1>8. CASE ReturnCover
  BY <1>8 DEF ReturnCover
<1>9. CASE \/ \E s \in Resizes : ResizeToWidth(s[1], s[2], s[3])
           \/ \E s \in Scales : ScaleImage(s[1], s[2], s[3], s[4])
           \/ UNCHANGED coversVars
  BY <1>9, ResizeTouchesNothing
<1>10. CASE Crash
  <2>1. (crashed \/ stage \in {"standard", "square"}) \in BOOLEAN
    OBVIOUS
  <2>2. crashed' \in BOOLEAN /\ fault' \in BOOLEAN
    BY <1>10, <2>1 DEF Crash
  <2>3. images' \in 0 .. 2 * MaxFailures + 3 /\ failures' \in 0 .. MaxFailures
    BY <1>10 DEF Crash
  <2>. QED  BY <1>10, <2>2, <2>3 DEF Crash
<1>. QED  BY <1>1, <1>2, <1>3, <1>4, <1>5, <1>6, <1>7, <1>8, <1>9, <1>10
          DEF CoversNext, CreateCoversStep

\* A file is new only while a call is about to write it.
LEMMA NewFilesStay ==
  ASSUME CoversInv, [CoversNext]_coversVars
  PROVE  NewFilesCreated'
<1>. USE DEF CoversInv, CoversTypeOK, NewFilesCreated, Created, File
<1>1. ASSUME NEW n \in Names, OpenSource(n) PROVE NewFilesCreated'
  BY <1>1 DEF OpenSource
<1>2. CASE ResizeBoth
  BY <1>2 DEF ResizeBoth
<1>3. CASE OpenStandard
  BY <1>3, FileIsPath DEF OpenStandard, Kinds
<1>4. CASE OpenStandardFails
  BY <1>4 DEF OpenStandardFails
<1>5. CASE OpenSquare
  BY <1>5, FileIsPath DEF OpenSquare, Kinds
<1>6. CASE OpenSquareFails
  BY <1>6, FileIsPath DEF OpenSquareFails, Kinds, NoFile, NewFile
<1>7. CASE WriteBoth
  BY <1>7, FileIsPath, ImageIsNoMark DEF WriteBoth, Kinds
<1>8. CASE ReturnCover
  BY <1>8 DEF ReturnCover
<1>9. CASE \/ \E s \in Resizes : ResizeToWidth(s[1], s[2], s[3])
           \/ \E s \in Scales : ScaleImage(s[1], s[2], s[3], s[4])
           \/ UNCHANGED coversVars
  BY <1>9, ResizeTouchesNothing
<1>10. CASE Crash
  BY <1>10 DEF Crash
<1>. QED  BY <1>1, <1>2, <1>3, <1>4, <1>5, <1>6, <1>7, <1>8, <1>9, <1>10
          DEF CoversNext, CreateCoversStep

\* The inductive invariant: the images of a call, and the files it has created,
\* are those of its stage.
THEOREM CoversInvariance == CoversSpec => []CoversInv
<1>1. CoversInv /\ [CoversNext]_coversVars => CoversInv'
  BY ImagesStay, NewFilesStay DEF CoversInv
<1>. QED  BY <1>1, CoversInitInv, PTL DEF CoversSpec

\* Between two calls the images left are the two of each output that could not
\* be opened, and no file is empty unless the program died
\* (img_format.cpp:16-54).
THEOREM CallsLeaveNothingElse == CoversSpec => []CallsAccounted
<1>1. CoversInv => CallsAccounted
  <2>. SUFFICES ASSUME CoversInv PROVE CallsAccounted
    OBVIOUS
  <2>1. ImagesAccounted
    BY HeldOf DEF CoversInv, CoversTypeOK, ImagesHeld, ImagesAccounted
  <2>2. NoEmptyFiles
    BY DEF CoversInv, NewFilesCreated, Created, NoEmptyFiles
  <2>. QED  BY <2>1, <2>2 DEF CoversInv, CallsAccounted
<1>. QED  BY <1>1, CoversInvariance, PTL

-----------------------------------------------------------------------------
(* The covers *)

\* While a call runs there is no cover of its name, and the two files are its
\* images once they are written.
CallsOwnFiles ==
  /\ stage # "idle" => name \notin covers
  /\ stage = "written" => \A k \in Kinds : disk[File(k)] = Image(name, k)

CInv ==
  /\ CoversTypeOK
  /\ CallsOwnFiles
  /\ CoversHaveImages

\* A call writes the files of its own name only.
LEMMA OthersKept ==
  ASSUME FilesApart, CoversTypeOK, NEW n \in Names, NEW k \in Kinds, n # name
  PROVE  PathOf[n][k] \in Paths /\ \A l \in Kinds : PathOf[n][k] # File(l)
BY DEF FilesApart, CoversTypeOK, File

\* Every step keeps the covers' images.
LEMMA CoversStay ==
  ASSUME FilesApart, CInv, CoversTypeOK', [CoversNext]_coversVars
  PROVE  CallsOwnFiles' /\ CoversHaveImages'
<1>. USE DEF CInv, CoversTypeOK, CallsOwnFiles, CoversHaveImages
<1>1. ASSUME NEW n \in Names, OpenSource(n) PROVE CallsOwnFiles' /\ CoversHaveImages'
  BY <1>1 DEF OpenSource
<1>2. CASE ResizeBoth
  BY <1>2 DEF ResizeBoth
<1>3. CASE OpenStandard
  <2>1. \A n \in covers, k \in Kinds : disk'[PathOf[n][k]] = disk[PathOf[n][k]]
    BY <1>3, OthersKept DEF OpenStandard, Kinds
  <2>. QED  BY <1>3, <2>1 DEF OpenStandard
<1>4. CASE OpenStandardFails
  BY <1>4 DEF OpenStandardFails
<1>5. CASE OpenSquare
  <2>1. \A n \in covers, k \in Kinds : disk'[PathOf[n][k]] = disk[PathOf[n][k]]
    BY <1>5, OthersKept DEF OpenSquare, Kinds
  <2>. QED  BY <1>5, <2>1 DEF OpenSquare
<1>6. CASE OpenSquareFails
  <2>1. \A n \in covers, k \in Kinds : disk'[PathOf[n][k]] = disk[PathOf[n][k]]
    BY <1>6, OthersKept DEF OpenSquareFails, Kinds
  <2>. QED  BY <1>6, <2>1 DEF OpenSquareFails
<1>7. CASE WriteBoth
  <2>1. \A n \in covers, k \in Kinds : disk'[PathOf[n][k]] = disk[PathOf[n][k]]
    BY <1>7, OthersKept DEF WriteBoth, Kinds
  <2>2. \A k \in Kinds : disk'[File(k)] = Image(name, k)
    <3>1. File("standard") # File("square")
      BY DEF FilesApart, File, Kinds
    <3>. QED  BY <1>7, <3>1, FileIsPath DEF WriteBoth, Kinds
  <2>. QED  BY <1>7, <2>1, <2>2 DEF WriteBoth, File
<1>8. CASE ReturnCover
  BY <1>8 DEF ReturnCover, File
<1>9. CASE \/ \E s \in Resizes : ResizeToWidth(s[1], s[2], s[3])
           \/ \E s \in Scales : ScaleImage(s[1], s[2], s[3], s[4])
           \/ UNCHANGED coversVars
  BY <1>9, ResizeTouchesNothing DEF File
<1>10. CASE Crash
  BY <1>10 DEF Crash
<1>. QED  BY <1>1, <1>2, <1>3, <1>4, <1>5, <1>6, <1>7, <1>8, <1>9, <1>10
          DEF CoversNext, CreateCoversStep

\* A cover that was returned has both its images, whatever calls for other names
\* fail or die later, if the files of names are apart: the output names are the
\* movie's, with and without _square (img_format.cpp:24-56).
THEOREM CoversKeepImages == FilesApart /\ CoversSpec => []CoversHaveImages
<1>1. CoversInit => CInv
  BY CoversInitInv DEF CoversInit, CoversInv, CInv, CallsOwnFiles, CoversHaveImages
<1>2. FilesApart /\ CInv /\ CoversTypeOK' /\ [CoversNext]_coversVars => CInv'
  BY CoversStay DEF CInv
<1>3. CInv => CoversHaveImages
  BY DEF CInv
<1>4. CoversInv => CoversTypeOK
  BY DEF CoversInv
<1>5. FilesApart /\ CoversSpec => []CInv
  <2>. SUFFICES ASSUME FilesApart PROVE CoversSpec => []CInv
    OBVIOUS
  <2>1. CInv /\ CoversTypeOK' /\ [CoversNext]_coversVars => CInv'
    BY <1>2
  <2>. QED  BY <1>1, <2>1, <1>4, CoversInvariance, PTL DEF CoversSpec
<1>. QED  BY <1>3, <1>5, PTL

=============================================================================

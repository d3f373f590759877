------------------------- MODULE CatalogData_proofs -------------------------
(***************************************************************************)
(* What the operations on the shared state of the catalogs do, for every   *)
(* set of titles and texts: lemmas for the proofs about the catalogs.      *)
(***************************************************************************)
EXTENDS CatalogData, SequenceTheorems, FiniteSetTheorems, TLAPS

-----------------------------------------------------------------------------
(* The operators on sequences that stand for std::vector *)

\* std::vector::erase at a position keeps the type, and every other element.
LEMMA RemoveAtSeq ==
  ASSUME NEW S, NEW s \in Seq(S), NEW i \in 1 .. Len(s) + 1
  PROVE  /\ RemoveAt(s, i) \in Seq(S)
         /\ Len(RemoveAt(s, i)) = IF i <= Len(s) THEN Len(s) - 1 ELSE Len(s)
         /\ \A j \in 1 .. Len(RemoveAt(s, i)) :
              RemoveAt(s, i)[j] = IF j < i THEN s[j] ELSE s[j + 1]
<1> DEFINE front == SubSeq(s, 1, i - 1)
           back == SubSeq(s, i + 1, Len(s))
<1>1. /\ front \in Seq(S)
      /\ Len(front) = i - 1
      /\ \A j \in 1 .. i - 1 : front[j] = s[j]
  OBVIOUS
<1>2. /\ back \in Seq(S)
      /\ Len(back) = IF i <= Len(s) THEN Len(s) - i ELSE 0
      /\ \A j \in 1 .. Len(back) : back[j] = s[i + j]
  OBVIOUS
<1>3. RemoveAt(s, i) = front \o back
  BY DEF RemoveAt
<1>. HIDE DEF front, back
<1>4. /\ front \o back \in Seq(S)
      /\ Len(front \o back) = Len(front) + Len(back)
      /\ \A j \in 1 .. Len(front) + Len(back) :
           (front \o back)[j] = IF j <= Len(front) THEN front[j]
                                                   ELSE back[j - Len(front)]
  BY <1>1, <1>2, ConcatProperties
<1>5. ASSUME NEW j \in 1 .. Len(RemoveAt(s, i))
      PROVE  RemoveAt(s, i)[j] = IF j < i THEN s[j] ELSE s[j + 1]
  <2>1. j \in 1 .. Len(front) + Len(back)
    BY <1>3, <1>4
  <2>2. CASE j < i
    BY <2>1, <2>2, <1>1, <1>3, <1>4
  <2>3. CASE j >= i
    <3>1. j - Len(front) \in 1 .. Len(back) /\ ~ (j <= Len(front))
      BY <2>1, <2>3, <1>1, <1>2
    <3>2. i + (j - Len(front)) = j + 1
      BY <1>1, <2>1
    <3>3. back[j - Len(front)] = s[j + 1]
      BY <3>1, <3>2, <1>2
    <3>4. RemoveAt(s, i)[j] = back[j - Len(front)]
      BY <2>1, <3>1, <1>3, <1>4
    <3>5. ~ (j < i)
      BY <2>1, <2>3
    <3>. QED  BY <3>3, <3>4, <3>5
  <2>. QED  BY <2>1, <2>2, <2>3, <1>1, <1>2
<1>. QED  BY <1>1, <1>2, <1>3, <1>4, <1>5

\* A sequence of a set is a sequence of any set that holds it.
LEMMA SeqOfMore ==
  ASSUME NEW S, NEW T, S \subseteq T, NEW s \in Seq(S)
  PROVE  s \in Seq(T)
<1>1. Len(s) \in Nat /\ s \in [1 .. Len(s) -> S]
  OBVIOUS
<1>2. s \in [1 .. Len(s) -> T]
  BY <1>1
<1>. QED  BY <1>1, <1>2

-----------------------------------------------------------------------------
(* A vector that lists a set: each of its members, at one position. *)

IsListing(s, S) ==
  /\ s \in Seq(S)
  /\ \A x \in S : \E i \in DOMAIN s : s[i] = x
  /\ \A i, j \in DOMAIN s : s[i] = s[j] => i = j

\* The set is as large as the vector is long.
LEMMA ListingCardinality ==
  ASSUME NEW s, NEW S, IsListing(s, S)
  PROVE  /\ IsFiniteSet(S)
         /\ Cardinality(S) = Len(s)
         /\ S = {} <=> s = <<>>
<1>1. /\ s \in Seq(S)
      /\ DOMAIN s = 1 .. Len(s) /\ Len(s) \in Nat
      /\ s \in [1 .. Len(s) -> S]
  BY DEF IsListing
<1>2. s \in Bijection(1 .. Len(s), S)
  BY <1>1 DEF IsListing, Bijection, Injection, Surjection, IsInjective
<1>3. ExistsBijection(1 .. Len(s), S)
  BY <1>2 DEF ExistsBijection
<1>4. IsFiniteSet(1 .. Len(s)) /\ Cardinality(1 .. Len(s)) = Len(s)
  BY <1>1, FS_Interval
<1>5. IsFiniteSet(S) /\ Cardinality(S) = Len(s)
  BY <1>3, <1>4, FS_Bijection
<1>6. S = {} <=> s = <<>>
  BY <1>1 DEF IsListing
<1>. QED  BY <1>5, <1>6

\* push_back of a new member.
LEMMA ListingAppend ==
  ASSUME NEW s, NEW S, IsListing(s, S), NEW x, x \notin S
  PROVE  IsListing(Append(s, x), S \cup {x})
<1> DEFINE T == S \cup {x}
           a == Append(s, x)
<1>1. s \in Seq(S) /\ DOMAIN s = 1 .. Len(s) /\ Len(s) \in Nat
  BY DEF IsListing
<1>2. s \in Seq(T) /\ x \in T
  BY <1>1
<1>3. /\ a \in Seq(T)
      /\ DOMAIN a = 1 .. Len(s) + 1
      /\ \A j \in 1 .. Len(s) : a[j] = s[j]
      /\ a[Len(s) + 1] = x
  BY <1>1, <1>2, AppendProperties
<1>4. \A j \in 1 .. Len(s) : s[j] \in S /\ s[j] # x
  BY <1>1
<1>. HIDE DEF a
<1>5. ASSUME NEW y \in T PROVE \E i \in DOMAIN a : a[i] = y
  BY <1>1, <1>3 DEF IsListing
<1>6. ASSUME NEW i \in DOMAIN a, NEW j \in DOMAIN a, a[i] = a[j]
      PROVE  i = j
  BY <1>1, <1>3, <1>4, <1>6 DEF IsListing
<1>7. IsListing(a, T)
  BY <1>3, <1>5, <1>6 DEF IsListing
<1>. QED  BY <1>7 DEF a

\* erase of an element.
LEMMA ListingRemove ==
  ASSUME NEW s, NEW S, IsListing(s, S), NEW i \in DOMAIN s
  PROVE  IsListing(RemoveAt(s, i), S \ {s[i]})
<1> DEFINE T == S \ {s[i]}
           r == RemoveAt(s, i)
<1>1. s \in Seq(S) /\ DOMAIN s = 1 .. Len(s) /\ Len(s) \in Nat /\ i \in 1 .. Len(s)
  BY DEF IsListing
<1>2. /\ r \in Seq(S)
      /\ Len(r) = Len(s) - 1
      /\ \A j \in 1 .. Len(r) : r[j] = IF j < i THEN s[j] ELSE s[j + 1]
  <2>1. i \in 1 .. Len(s) + 1 /\ i <= Len(s)
    BY <1>1
  <2>2. /\ r \in Seq(S)
        /\ Len(r) = IF i <= Len(s) THEN Len(s) - 1 ELSE Len(s)
        /\ \A j \in 1 .. Len(r) : r[j] = IF j < i THEN s[j] ELSE s[j + 1]
    BY <1>1, <2>1, RemoveAtSeq
  <2>. QED  BY <2>1, <2>2
<1>. HIDE DEF r
<1>3. DOMAIN r = 1 .. Len(s) - 1
  BY <1>2
<1>4. ASSUME NEW j \in DOMAIN r
      PROVE  \E k \in DOMAIN s : r[j] = s[k] /\ k = (IF j < i THEN j ELSE j + 1)
  BY <1>1, <1>2, <1>3
<1>5. \A j \in DOMAIN r : r[j] \in T
  <2>. TAKE j \in DOMAIN r
  <2>1. PICK k \in DOMAIN s : r[j] = s[k] /\ k = (IF j < i THEN j ELSE j + 1)
    BY <1>4
  <2>2. k # i
    BY <1>1, <1>3, <2>1
  <2>3. s[k] # s[i] /\ s[k] \in S
    BY <1>1, <2>2 DEF IsListing
  <2>. QED  BY <2>1, <2>3
<1>6. r \in Seq(T)
  <2>1. Len(r) \in Nat /\ DOMAIN r = 1 .. Len(r) /\ r = [j \in DOMAIN r |-> r[j]]
    BY <1>2
  <2>2. r \in [1 .. Len(r) -> T]
    BY <1>5, <2>1
  <2>. QED  BY <2>1, <2>2, SeqDef
<1>7. ASSUME NEW y \in T PROVE \E j \in DOMAIN r : r[j] = y
  <2>1. PICK k \in DOMAIN s : s[k] = y /\ k # i
    BY <1>7 DEF IsListing
  <2>2. CASE k < i
    BY <1>1, <1>2, <1>3, <2>1, <2>2
  <2>3. CASE k > i
    <3>1. k - 1 \in DOMAIN r /\ ~ (k - 1 < i) /\ (k - 1) + 1 = k
      BY <1>1, <1>3, <2>3
    <3>2. r[k - 1] = y
      BY <1>2, <1>3, <2>1, <3>1
    <3>. QED  BY <3>1, <3>2
  <2>. QED  BY <1>1, <2>1, <2>2, <2>3
<1>8. ASSUME NEW j \in DOMAIN r, NEW k \in DOMAIN r, r[j] = r[k]
      PROVE  j = k
  <2>1. PICK jj \in DOMAIN s : r[j] = s[jj] /\ jj = (IF j < i THEN j ELSE j + 1)
    BY <1>4
  <2>2. PICK kk \in DOMAIN s : r[k] = s[kk] /\ kk = (IF k < i THEN k ELSE k + 1)
    BY <1>4
  <2>3. jj = kk
    BY <1>8, <2>1, <2>2 DEF IsListing
  <2>. QED  BY <1>1, <1>3, <2>1, <2>2, <2>3
<1>9. IsListing(r, T)
  BY <1>6, <1>7, <1>8 DEF IsListing
<1>. QED  BY <1>9 DEF r

\* erase of the front.
LEMMA ListingTail ==
  ASSUME NEW s, NEW S, IsListing(s, S), s # <<>>
  PROVE  Head(s) \in S /\ IsListing(Tail(s), S \ {Head(s)})
<1>1. s \in Seq(S) /\ 1 \in DOMAIN s /\ Head(s) = s[1]
  BY DEF IsListing
<1>2. RemoveAt(s, 1) = Tail(s)
  <2>1. SubSeq(s, 1, 0) = <<>>
    BY <1>1
  <2>2. SubSeq(s, 2, Len(s)) = Tail(s) /\ Tail(s) \in Seq(S)
    BY <1>1
  <2>3. RemoveAt(s, 1) = SubSeq(s, 1, 1 - 1) \o SubSeq(s, 1 + 1, Len(s))
    BY DEF RemoveAt
  <2>4. <<>> \o Tail(s) = Tail(s)
    BY <2>2
  <2>. QED  BY <2>1, <2>2, <2>3, <2>4
<1>3. Head(s) \in S
  BY <1>1
<1>4. IsListing(RemoveAt(s, 1), S \ {s[1]})
  BY <1>1, ListingRemove
<1>5. IsListing(Tail(s), S \ {Head(s)})
  BY <1>1, <1>2, <1>4, Zenon
<1>. QED  BY <1>3, <1>5

-----------------------------------------------------------------------------
(* Scans *)

\* A scan from the front that has something to find finds it.
LEMMA FirstHitExists ==
  ASSUME NEW S, NEW s \in Seq(S), NEW t, NEW k \in DOMAIN s, s[k].title = t
  PROVE  \E i \in FirstHits(s, t) : i <= k
<1> DEFINE T == { i \in Nat : i \in DOMAIN s /\ s[i].title = t }
           R == OpToRel(<, Nat)
<1>1. DOMAIN s = 1 .. Len(s) /\ Len(s) \in Nat
  OBVIOUS
<1>2. T \subseteq Nat /\ k \in T
  BY <1>1
<1>3. PICK i \in T : \A j \in T : <<j, i>> \notin R
  <2>. HIDE DEF T, R
  <2>1. IsWellFoundedOn(R, Nat)
    BY NatLessThanWellFounded DEF R
  <2>. QED  BY <1>2, <2>1, WFMin
<1>4. ASSUME NEW j \in T PROVE ~ (j < i)
  BY <1>3, <1>2 DEF OpToRel
<1>5. i \in FirstHits(s, t)
  BY <1>1, <1>4 DEF FirstHits
<1>. QED  BY <1>2, <1>4, <1>5

\* There is at most one such position, and it holds the title.
LEMMA FirstHitUnique ==
  ASSUME NEW S, NEW s \in Seq(S), NEW t, NEW i \in FirstHits(s, t),
         NEW j \in FirstHits(s, t)
  PROVE  i = j /\ i \in DOMAIN s /\ s[i].title = t
BY DEF FirstHits

-----------------------------------------------------------------------------
(* Rows and texts *)

\* get_field returns a text, whatever the rows.
LEMMA GetFieldType ==
  ASSUME NEW rows \in Seq(Row), NEW t
  PROVE  GetField(rows, t) \in Synopses
<1> DEFINE hits == FirstHits(rows, t)
<1>1. hits \subseteq DOMAIN rows
  BY DEF FirstHits
<1>2. CASE hits = {}
  BY <1>2, EmptyAssumption DEF GetField, SynopsisAt
<1>3. CASE hits # {}
  <2> DEFINE i == CHOOSE i \in hits : TRUE
  <2>1. i \in DOMAIN rows
    BY <1>1, <1>3
  <2>2. rows[i] \in Row
    BY <2>1
  <2>3. GetField(rows, t) = rows[i].synopsis
    BY <1>3 DEF GetField, SynopsisAt
  <2>. QED  BY <2>2, <2>3 DEF Row
<1>. QED  BY <1>2, <1>3

\* edit_field keeps every row and every title.
LEMMA EditFieldRows ==
  ASSUME NEW rows \in Seq(Row), NEW t, NEW s \in Synopses
  PROVE  /\ EditField(rows, t, s) \in Seq(Row)
         /\ DOMAIN EditField(rows, t, s) = DOMAIN rows
         /\ \A i \in DOMAIN rows : EditField(rows, t, s)[i].title = rows[i].title
<1> DEFINE new(i) == IF i \in FirstHits(rows, t)
                     THEN [rows[i] EXCEPT !.synopsis = s] ELSE rows[i]
           edited == [i \in DOMAIN rows |-> new(i)]
<1>1. DOMAIN rows = 1 .. Len(rows) /\ Len(rows) \in Nat
  OBVIOUS
<1>2. ASSUME NEW i \in DOMAIN rows
      PROVE  new(i) \in Row /\ new(i).title = rows[i].title
  <2>1. rows[i] \in Row
    OBVIOUS
  <2>. QED  BY <2>1 DEF Row
<1>3. edited \in [1 .. Len(rows) -> Row]
  <2>. HIDE DEF new
  <2>. QED  BY <1>1, <1>2
<1>4. edited \in Seq(Row)
  <2>. HIDE DEF edited
  <2>. QED  BY <1>1, <1>3
<1>5. EditField(rows, t, s) = edited
  BY DEF EditField
<1>. HIDE DEF new
<1>. QED  BY <1>2, <1>4, <1>5

-----------------------------------------------------------------------------
(* Movies *)

\* get_index finds the only movie with an existing title; its text is a text.
LEMMA MovieOf ==
  ASSUME DataTypeOK, UniqueTitles, NEW t, Exists(t)
  PROVE  /\ IndexOf(t) \in DOMAIN data
         /\ data[IndexOf(t)].title = t
         /\ \A i \in DOMAIN data : data[i].title = t => i = IndexOf(t)
         /\ BaseText(t) \in Synopses
<1>1. PICK k \in DOMAIN data : data[k].title = t
  BY DEF Exists
<1>2. data \in Seq(Movie)
  BY DEF DataTypeOK
<1>3. PICK i \in FirstHits(data, t) : i <= k
  BY <1>1, <1>2, FirstHitExists
<1>4. IndexOf(t) \in FirstHits(data, t)
  BY <1>3 DEF IndexOf
<1>5. IndexOf(t) \in DOMAIN data /\ data[IndexOf(t)].title = t
  BY <1>2, <1>4, FirstHitUnique
<1>6. BaseText(t) \in Synopses
  <2>1. data[IndexOf(t)] \in Movie
    BY <1>2, <1>5
  <2>2. CASE data[IndexOf(t)].base = FromCsv
    <3>1. csv \in Seq(Row)
      BY DEF DataTypeOK, csv, Files
    <3>. QED  BY <2>2, <3>1, GetFieldType DEF BaseText
  <2>3. CASE data[IndexOf(t)].base # FromCsv
    BY <2>1, <2>3 DEF BaseText, Movie
  <2>. QED  BY <2>2, <2>3
<1>. QED  BY <1>5, <1>6 DEF UniqueTitles

\* add() adds the title if it is new and nothing else.
LEMMA PushMovieData ==
  ASSUME DataTypeOK, UniqueTitles,
         NEW t \in Titles, NEW base \in Synopses \cup {FromCsv},
         PushMovie(t, base)
  PROVE  /\ data' \in Seq(Movie)
         /\ UniqueTitles'
         /\ \A u : Exists(u)' <=> Exists(u) \/ u = t
         /\ \A j \in DOMAIN data' :
              \/ \E i \in DOMAIN data : data'[j] = data[i]
              \/ data'[j] = [title |-> t, base |-> base]
<1> DEFINE m == [title |-> t, base |-> base]
<1>1. data \in Seq(Movie) /\ m \in Movie
  BY DEF DataTypeOK, Movie
<1>2. CASE Exists(t)
  <2>1. data' = data
    BY <1>2 DEF PushMovie
  <2>. QED  BY <1>1, <1>2, <2>1 DEF UniqueTitles, Exists
<1>3. CASE ~ Exists(t)
  <2>1. data' = Append(data, m)
    BY <1>3 DEF PushMovie
  <2>2. /\ data' \in Seq(Movie)
        /\ Len(data) \in Nat
        /\ DOMAIN data = 1 .. Len(data)
        /\ DOMAIN data' = 1 .. Len(data) + 1
        /\ \A i \in DOMAIN data : data'[i] = data[i]
        /\ data'[Len(data) + 1] = m
    <3>. HIDE DEF m
    <3>. QED  BY <1>1, <2>1, AppendProperties
  <2>3. \A i \in DOMAIN data : data'[i].title # t
    BY <1>3, <2>2 DEF Exists
  <2>4. UniqueTitles'
    BY <2>2, <2>3 DEF UniqueTitles
  <2>5. \A u : Exists(u)' <=> Exists(u) \/ u = t
    BY <2>2 DEF Exists
  <2>6. \A j \in DOMAIN data' :
          (\E i \in DOMAIN data : data'[j] = data[i]) \/ data'[j] = m
    BY <2>2
  <2>. QED  BY <2>2, <2>4, <2>5, <2>6
<1>. QED  BY <1>2, <1>3

\* remove() takes the title away and nothing else.
LEMMA EraseMovieData ==
  ASSUME DataTypeOK, UniqueTitles, NEW t \in Titles, EraseMovie(t)
  PROVE  /\ data' \in Seq(Movie)
         /\ UniqueTitles'
         /\ \A u : Exists(u)' <=> Exists(u) /\ u # t
         /\ \A j \in DOMAIN data' : \E i \in DOMAIN data : data'[j] = data[i]
<1>1. data \in Seq(Movie)
  BY DEF DataTypeOK
<1>2. CASE ~ Exists(t)
  <2>1. data' = data
    BY <1>2 DEF EraseMovie
  <2>. QED  BY <1>1, <1>2, <2>1 DEF UniqueTitles, Exists
<1>3. CASE Exists(t)
  <2> DEFINE k == IndexOf(t)
             from(j) == IF j < k THEN j ELSE j + 1
  <2>1. /\ k \in DOMAIN data
        /\ data[k].title = t
        /\ \A i \in DOMAIN data : data[i].title = t => i = k
    BY <1>3, MovieOf
  <2>2. data' = RemoveAt(data, k)
    BY <1>3 DEF EraseMovie
  <2>. HIDE DEF k
  <2>3. /\ Len(data) \in Nat
        /\ DOMAIN data = 1 .. Len(data)
        /\ k \in 1 .. Len(data)
    BY <1>1, <2>1
  <2>4. /\ data' \in Seq(Movie)
        /\ DOMAIN data' = 1 .. Len(data) - 1
        /\ \A j \in DOMAIN data' : data'[j] = data[from(j)]
    BY <1>1, <2>2, <2>3, RemoveAtSeq
  <2>5. \A j \in DOMAIN data' : from(j) \in DOMAIN data /\ from(j) # k
    BY <2>3, <2>4
  <2>6. \A i, j \in DOMAIN data' : from(i) = from(j) => i = j
    BY <2>3, <2>4
  <2>7. \A i \in DOMAIN data \ {k} : \E j \in DOMAIN data' : from(j) = i
    <3>1. ASSUME NEW i \in DOMAIN data \ {k}
          PROVE  \E j \in DOMAIN data' : from(j) = i
      <4>1. CASE i < k
        BY <2>3, <2>4, <4>1
      <4>2. CASE i > k
        <5>1. i - 1 \in DOMAIN data' /\ from(i - 1) = i
          BY <2>3, <2>4, <4>2
        <5>. QED  BY <5>1
      <4>. QED  BY <2>3, <4>1, <4>2
    <3>. QED  BY <3>1
  <2>. HIDE DEF from
  <2>8. UniqueTitles'
    BY <2>4, <2>5, <2>6 DEF UniqueTitles
  <2>9. \A u : Exists(u)' <=> Exists(u) /\ u # t
    BY <2>1, <2>4, <2>5, <2>7 DEF Exists
  <2>10. \A j \in DOMAIN data' : \E i \in DOMAIN data : data'[j] = data[i]
    BY <2>4, <2>5
  <2>. QED  BY <2>4, <2>8, <2>9, <2>10
<1>. QED  BY <1>2, <1>3

\* Whatever the provider, set_synopsis() changes one text: titles, their
\* positions and the providers stay.
LEMMA SetBaseData ==
  ASSUME DataTypeOK, UniqueTitles,
         NEW t \in Titles, NEW s \in Synopses, Exists(t), SetBase(t, s)
  PROVE  /\ data' \in Seq(Movie)
         /\ file' \in [Files -> Seq(Row)]
         /\ DOMAIN data' = DOMAIN data
         /\ \A i \in DOMAIN data :
              /\ data'[i].title = data[i].title
              /\ data'[i].base = FromCsv => data[i].base = FromCsv
         /\ UniqueTitles'
         /\ \A u : Exists(u)' <=> Exists(u)
<1> DEFINE i == IndexOf(t)
<1>1. i \in DOMAIN data /\ data[i].title = t
  BY MovieOf
<1>2. data \in Seq(Movie) /\ file \in [Files -> Seq(Row)] /\ csv \in Seq(Row)
  BY DEF DataTypeOK, csv, Files
<1>. HIDE DEF i
<1>3. CASE data[i].base = FromCsv
  <2>1. /\ file' = [file EXCEPT !["own"] = EditField(csv, t, s)]
        /\ data' = data
    BY <1>3 DEF SetBase, i
  <2>2. EditField(csv, t, s) \in Seq(Row)
    BY <1>2, EditFieldRows
  <2>3. file' \in [Files -> Seq(Row)]
    BY <1>2, <2>1, <2>2
  <2>. QED  BY <1>2, <2>1, <2>3 DEF UniqueTitles, Exists
<1>4. CASE data[i].base # FromCsv
  <2>1. /\ file' = file
        /\ data' = [data EXCEPT ![i].base = s]
    BY <1>4 DEF SetBase, i
  <2>2. data[i] \in Movie
    BY <1>1, <1>2
  <2>3. /\ [data[i] EXCEPT !.base = s] \in Movie
        /\ [data[i] EXCEPT !.base = s].title = data[i].title
        /\ [data[i] EXCEPT !.base = s].base = s
    BY <2>2 DEF Movie
  <2>4. /\ data' \in Seq(Movie)
        /\ DOMAIN data' = DOMAIN data
        /\ \A j \in DOMAIN data :
             data'[j] = IF j = i THEN [data[i] EXCEPT !.base = s] ELSE data[j]
    BY <1>1, <1>2, <2>1, <2>3, ExceptSeq
  <2>5. \A j \in DOMAIN data :
          /\ data'[j].title = data[j].title
          /\ data'[j].base = FromCsv => data[j].base = FromCsv
    BY <2>3, <2>4, FromCsvAssumption
  <2>. QED  BY <1>2, <2>1, <2>4, <2>5 DEF UniqueTitles, Exists
<1>. QED  BY <1>3, <1>4

-----------------------------------------------------------------------------
(* The file being written *)

\* While save() runs, the file it writes holds the titles of the movies before
\* pos, in order.
SavePrefix ==
  phase = "save" =>
    /\ pos <= Len(data) + 1
    /\ Len(file[target]) = pos - 1
    /\ \A i \in 1 .. pos - 1 : file[target][i].title = data[i].title

\* The invariant of the shared state: its type, and what the operations on it
\* need from each other.
DataInv == DataTypeOK /\ UniqueTitles /\ LazyRowsPresent /\ SavePrefix

\* The constructor starts with an empty catalog beside any file.
LEMMA DataInitInv == DataInit => DataInv
<1>. SUFFICES ASSUME DataInit PROVE DataInv
  OBVIOUS
<1>1. PICK rows \in InitialCsv :
        file = [f \in Files |-> IF f = "own" THEN rows ELSE <<>>]
  BY DEF DataInit
<1>2. rows \in Seq(Row)
  BY InitialCsvAssumption
<1>3. data = <<>> /\ phase = "load" /\ pos = 1 /\ target = "own"
  BY DEF DataInit
<1>4. DataTypeOK
  BY <1>1, <1>2, <1>3 DEF DataTypeOK, Files
<1>. QED  BY <1>3, <1>4 DEF DataInv, UniqueTitles, LazyRowsPresent, SavePrefix

\* A lazy movie whose title is in the file has a row to scan for.
LEMMA RowFound ==
  ASSUME DataTypeOK, NEW k \in DOMAIN csv
  PROVE  FirstHits(csv, csv[k].title) # {}
<1>1. csv \in Seq(Row)
  BY DEF DataTypeOK, csv, Files
<1>2. \E i \in FirstHits(csv, csv[k].title) : i <= k
  BY <1>1, FirstHitExists
<1>. QED  BY <1>2

\* add(): the new movie has its text in memory.
LEMMA AddInv ==
  ASSUME DataInv, phase = "idle", NEW t \in Titles, NEW s \in Synopses,
         PushMovie(t, s), UNCHANGED <<file, phase, pos, target>>
  PROVE  DataInv' /\ \A u : Exists(u)' <=> Exists(u) \/ u = t
<1>1. /\ data' \in Seq(Movie)
      /\ UniqueTitles'
      /\ \A u : Exists(u)' <=> Exists(u) \/ u = t
      /\ \A j \in DOMAIN data' :
           \/ \E i \in DOMAIN data : data'[j] = data[i]
           \/ data'[j] = [title |-> t, base |-> s]
  BY PushMovieData DEF DataInv
<1>2. DataTypeOK'
  BY <1>1 DEF DataInv, DataTypeOK
<1>3. csv' = csv
  BY DEF csv
<1>4. ASSUME NEW j \in DOMAIN data', data'[j].base = FromCsv
      PROVE  FirstHits(csv', data'[j].title) # {}
  <2>1. PICK i \in DOMAIN data : data'[j] = data[i]
    BY <1>1, <1>4, FromCsvAssumption
  <2>. QED  BY <1>3, <1>4, <2>1 DEF DataInv, LazyRowsPresent
<1>. QED  BY <1>1, <1>2, <1>4 DEF DataInv, LazyRowsPresent, SavePrefix

\* remove(): a lazy movie that stays keeps its row.
LEMMA RemoveInv ==
  ASSUME DataInv, phase = "idle", NEW t \in Titles,
         EraseMovie(t), UNCHANGED <<file, phase, pos, target>>
  PROVE  DataInv' /\ \A u : Exists(u)' <=> Exists(u) /\ u # t
<1>1. /\ data' \in Seq(Movie)
      /\ UniqueTitles'
      /\ \A u : Exists(u)' <=> Exists(u) /\ u # t
      /\ \A j \in DOMAIN data' : \E i \in DOMAIN data : data'[j] = data[i]
  BY EraseMovieData DEF DataInv
<1>2. DataTypeOK'
  BY <1>1 DEF DataInv, DataTypeOK
<1>3. csv' = csv
  BY DEF csv
<1>4. ASSUME NEW j \in DOMAIN data', data'[j].base = FromCsv
      PROVE  FirstHits(csv', data'[j].title) # {}
  <2>1. PICK i \in DOMAIN data : data'[j] = data[i]
    BY <1>1
  <2>. QED  BY <1>3, <1>4, <2>1 DEF DataInv, LazyRowsPresent
<1>. QED  BY <1>1, <1>2, <1>4 DEF DataInv, LazyRowsPresent, SavePrefix

\* edit_field moves no row: a scan for any title ends where it did.
LEMMA EditKeepsHits ==
  ASSUME NEW rows \in Seq(Row), NEW t, NEW s \in Synopses, NEW u
  PROVE  FirstHits(EditField(rows, t, s), u) = FirstHits(rows, u)
<1>1. /\ DOMAIN EditField(rows, t, s) = DOMAIN rows
      /\ \A i \in DOMAIN rows : EditField(rows, t, s)[i].title = rows[i].title
  BY EditFieldRows
<1>2. DOMAIN rows = 1 .. Len(rows) /\ Len(rows) \in Nat
  OBVIOUS
<1>3. \A i \in DOMAIN rows : \A j \in 1 .. i - 1 : j \in DOMAIN rows
  BY <1>2
<1>. QED  BY <1>1, <1>3 DEF FirstHits

\* set_synopsis(): titles, rows and providers stay.
LEMMA SetInv ==
  ASSUME DataInv, phase = "idle", NEW t \in Titles, NEW s \in Synopses,
         Exists(t), SetBase(t, s), UNCHANGED <<phase, pos, target>>
  PROVE  DataInv' /\ \A u : Exists(u)' <=> Exists(u)
<1>1. /\ data' \in Seq(Movie)
      /\ file' \in [Files -> Seq(Row)]
      /\ DOMAIN data' = DOMAIN data
      /\ \A i \in DOMAIN data :
           /\ data'[i].title = data[i].title
           /\ data'[i].base = FromCsv => data[i].base = FromCsv
      /\ UniqueTitles'
      /\ \A u : Exists(u)' <=> Exists(u)
  BY SetBaseData DEF DataInv
<1>2. DataTypeOK'
  BY <1>1 DEF DataInv, DataTypeOK
<1>3. csv \in Seq(Row)
  BY DEF DataInv, DataTypeOK, csv, Files
<1>4. csv' = csv \/ csv' = EditField(csv, t, s)
  BY DEF SetBase, csv, DataInv, DataTypeOK, Files
<1>5. \A u : FirstHits(csv', u) = FirstHits(csv, u)
  BY <1>3, <1>4, EditKeepsHits
<1>6. LazyRowsPresent'
  BY <1>1, <1>5 DEF DataInv, LazyRowsPresent
<1>. QED  BY <1>1, <1>2, <1>6 DEF DataInv, SavePrefix

\* One row of the constructor.
LEMMA LoadInv ==
  ASSUME DataInv, NEW base \in Synopses \cup {FromCsv}, LoadMovie(base)
  PROVE  DataInv' /\ \A u : Exists(u) => Exists(u)'
<1> DEFINE t == csv[pos].title
<1>1. csv \in Seq(Row) /\ pos \in Nat \ {0} /\ pos <= Len(csv)
  BY DEF LoadMovie, DataInv, DataTypeOK, csv, Files
<1>2. pos \in DOMAIN csv /\ csv[pos] \in Row
  BY <1>1
<1>3. t \in Titles
  BY <1>2 DEF Row
<1>4. /\ PushMovie(t, base)
      /\ phase = "load"
      /\ pos' = pos + 1
      /\ UNCHANGED <<file, phase, target>>
  BY DEF LoadMovie
<1>5. /\ data' \in Seq(Movie)
      /\ UniqueTitles'
      /\ \A u : Exists(u)' <=> Exists(u) \/ u = t
      /\ \A j \in DOMAIN data' :
           \/ \E i \in DOMAIN data : data'[j] = data[i]
           \/ data'[j] = [title |-> t, base |-> base]
  BY <1>3, <1>4, PushMovieData DEF DataInv
<1>6. DataTypeOK'
  BY <1>1, <1>4, <1>5 DEF DataInv, DataTypeOK
<1>7. csv' = csv
  BY <1>4 DEF csv
<1>8. FirstHits(csv, t) # {}
  BY <1>2, RowFound DEF DataInv
<1>9. ASSUME NEW j \in DOMAIN data', data'[j].base = FromCsv
      PROVE  FirstHits(csv', data'[j].title) # {}
  <2>1. CASE \E i \in DOMAIN data : data'[j] = data[i]
    BY <1>4, <1>7, <1>9, <2>1 DEF DataInv, LazyRowsPresent
  <2>2. CASE data'[j] = [title |-> t, base |-> base]
    BY <1>7, <1>8, <2>2
  <2>. QED  BY <1>5, <2>1, <2>2
<1>. QED  BY <1>4, <1>5, <1>6, <1>9 DEF DataInv, LazyRowsPresent, SavePrefix

\* The end of the constructor.
LEMMA LoadDoneInv ==
  ASSUME DataInv, LoadDone
  PROVE  DataInv' /\ \A u : Exists(u)' <=> Exists(u)
BY DEF DataInv, LoadDone, DataTypeOK, UniqueTitles, LazyRowsPresent, SavePrefix,
       Exists, csv

\* Opening the output: nothing is written yet, and a copy leaves the file alone.
LEMMA OpenInv ==
  ASSUME DataInv, NEW f \in Files, OpenOutput(f)
  PROVE  DataInv' /\ \A u : Exists(u)' <=> Exists(u)
<1>1. /\ phase = "idle" /\ phase' = "save"
      /\ target' = f
      /\ pos' = 1
      /\ file' = [file EXCEPT ![f] = <<>>]
      /\ data' = data
  BY DEF OpenOutput
<1>2. file \in [Files -> Seq(Row)]
  BY DEF DataInv, DataTypeOK
<1>3. file' \in [Files -> Seq(Row)] /\ file'[f] = <<>>
  BY <1>1, <1>2
<1>4. DataTypeOK'
  BY <1>1, <1>3 DEF DataInv, DataTypeOK
<1>5. f # "own" => csv' = csv
  BY <1>1, <1>2 DEF csv, Files
<1>6. LazyRowsPresent'
  BY <1>1, <1>5 DEF DataInv, LazyRowsPresent
<1>7. SavePrefix'
  <2>1. Len(data') \in Nat
    BY <1>1 DEF DataInv, DataTypeOK
  <2>. QED  BY <1>1, <1>3, <2>1 DEF SavePrefix
<1>. QED  BY <1>1, <1>4, <1>6, <1>7 DEF DataInv, UniqueTitles, Exists

\* One row of save().
LEMMA WriteInv ==
  ASSUME DataInv, phase = "save", pos <= Len(data),
         NEW text \in Synopses, WriteMovie(text)
  PROVE  DataInv' /\ \A u : Exists(u)' <=> Exists(u)
<1> DEFINE row == [title |-> data[pos].title, synopsis |-> text]
           old == file[target]
<1>1. /\ file' = [file EXCEPT ![target] = Append(old, row)]
      /\ pos' = pos + 1
      /\ UNCHANGED <<data, phase, target>>
  BY DEF WriteMovie
<1>2. /\ file \in [Files -> Seq(Row)] /\ target \in Files /\ old \in Seq(Row)
      /\ data \in Seq(Movie) /\ pos \in Nat \ {0}
  BY DEF DataInv, DataTypeOK
<1>3. row \in Row
  <2>1. data[pos] \in Movie
    BY <1>2
  <2>. QED  BY <2>1 DEF Movie, Row
<1>4. /\ Append(old, row) \in Seq(Row)
      /\ Len(Append(old, row)) = Len(old) + 1
      /\ \A i \in 1 .. Len(old) : Append(old, row)[i] = old[i]
      /\ Append(old, row)[Len(old) + 1] = row
  <2>. HIDE DEF row, old
  <2>. QED  BY <1>2, <1>3, AppendProperties
<1>5. file' \in [Files -> Seq(Row)] /\ file'[target] = Append(old, row)
  <2>. HIDE DEF row, old
  <2>. QED  BY <1>1, <1>2, <1>4
<1>6. DataTypeOK'
  BY <1>1, <1>2, <1>5 DEF DataInv, DataTypeOK
<1>7. target # "own" => csv' = csv
  BY <1>1, <1>2 DEF csv, Files
<1>8. LazyRowsPresent'
  BY <1>1, <1>7 DEF DataInv, LazyRowsPresent
<1>9. SavePrefix'
  <2>1. /\ Len(old) = pos - 1
        /\ \A i \in 1 .. pos - 1 : old[i].title = data[i].title
    BY DEF DataInv, SavePrefix
  <2>2. row.title = data[pos].title
    OBVIOUS
  <2>. HIDE DEF row, old
  <2>3. \A i \in 1 .. pos : file'[target][i].title = data[i].title
    BY <1>2, <1>4, <1>5, <2>1, <2>2
  <2>. QED  BY <1>1, <1>2, <1>4, <1>5, <2>1, <2>3 DEF SavePrefix
<1>. QED  BY <1>1, <1>6, <1>8, <1>9 DEF DataInv, UniqueTitles, Exists

\* The end of save(): of its own file, every title has its row again.
LEMMA CloseInv ==
  ASSUME DataInv, CloseOutput
  PROVE  DataInv' /\ \A u : Exists(u)' <=> Exists(u)
<1>1. /\ phase = "save" /\ phase' = "idle"
      /\ pos > Len(data) /\ pos' = 1
      /\ target' = "own"
      /\ file' = [file EXCEPT !["copy"] = <<>>]
      /\ data' = data
  BY DEF CloseOutput, ForgetCopy
<1>2. file \in [Files -> Seq(Row)] /\ data \in Seq(Movie) /\ csv \in Seq(Row)
  BY DEF DataInv, DataTypeOK, csv, Files
<1>3. file' \in [Files -> Seq(Row)] /\ csv' = csv
  BY <1>1, <1>2 DEF csv, Files
<1>4. DataTypeOK'
  BY <1>1, <1>3 DEF DataInv, DataTypeOK, Files
<1>5. CASE target # "own"
  BY <1>1, <1>3, <1>4, <1>5
     DEF DataInv, LazyRowsPresent, SavePrefix, UniqueTitles, Exists
<1>6. CASE target = "own"
  <2>1. /\ Len(csv) = Len(data)
        /\ \A i \in DOMAIN data : csv[i].title = data[i].title
    BY <1>1, <1>2, <1>6 DEF DataInv, DataTypeOK, SavePrefix, csv
  <2>2. \A i \in DOMAIN data : FirstHits(csv, data[i].title) # {}
    BY <1>2, <2>1, RowFound DEF DataInv
  <2>. QED
    BY <1>1, <1>3, <1>4, <2>2
       DEF DataInv, LazyRowsPresent, SavePrefix, UniqueTitles, Exists
<1>. QED  BY <1>5, <1>6

\* A new process starts from whatever rows its file holds.
LEMMA ReopenInv ==
  ASSUME DataInv, Reopen
  PROVE  DataInv' /\ data' = <<>>
<1>1. /\ data' = <<>> /\ phase' = "load" /\ pos' = 1 /\ target' = "own"
      /\ file' = [file EXCEPT !["copy"] = <<>>]
  BY DEF Reopen, ForgetCopy
<1>2. DataTypeOK'
  BY <1>1 DEF DataInv, DataTypeOK, Files
<1>. QED  BY <1>1, <1>2 DEF DataInv, UniqueTitles, LazyRowsPresent, SavePrefix

-----------------------------------------------------------------------------
(* The text behind the caches *)

\* An edit is what the next read of the file returns, if the title has a row.
LEMMA EditedFieldRead ==
  ASSUME NEW rows \in Seq(Row), NEW t, NEW s \in Synopses,
         FirstHits(rows, t) # {}
  PROVE  GetField(EditField(rows, t, s), t) = s
<1> DEFINE new == EditField(rows, t, s)
           i == CHOOSE k \in FirstHits(rows, t) : TRUE
<1>1. i \in FirstHits(rows, t) /\ i \in DOMAIN rows
  BY DEF FirstHits
<1>2. new[i] = [rows[i] EXCEPT !.synopsis = s]
  BY <1>1 DEF EditField
<1>3. new[i].synopsis = s
  <2>1. rows[i] \in Row
    BY <1>1
  <2>. QED  BY <1>2, <2>1 DEF Row
<1>4. FirstHits(new, t) = FirstHits(rows, t)
  BY EditKeepsHits
<1>5. GetField(new, t) = new[i].synopsis
  <2>. HIDE DEF new
  <2>. QED  BY <1>4 DEF GetField, SynopsisAt
<1>. QED  BY <1>3, <1>5

\* set_synopsis() of an idle catalog reaches the provider.
LEMMA SetBaseText ==
  ASSUME DataInv, phase = "idle", NEW t \in Titles, NEW s \in Synopses,
         Exists(t), SetBase(t, s)
  PROVE  BaseText(t)' = s
<1> DEFINE i == IndexOf(t)
<1>1. i \in DOMAIN data /\ data[i].title = t
  BY MovieOf DEF DataInv
<1>2. data \in Seq(Movie) /\ file \in [Files -> Seq(Row)] /\ csv \in Seq(Row)
  BY DEF DataInv, DataTypeOK, csv, Files
<1>3. CASE data[i].base = FromCsv
  <2>1. /\ file' = [file EXCEPT !["own"] = EditField(csv, t, s)]
        /\ data' = data
    BY <1>3 DEF SetBase
  <2>2. csv' = EditField(csv, t, s)
    BY <1>2, <2>1 DEF csv, Files
  <2>3. FirstHits(csv, t) # {}
    BY <1>1, <1>3 DEF DataInv, LazyRowsPresent
  <2>4. GetField(csv', t) = s
    BY <1>2, <2>2, <2>3, EditedFieldRead
  <2>. QED  BY <1>3, <2>1, <2>4 DEF BaseText, IndexOf
<1>4. CASE data[i].base # FromCsv
  <2>1. data' = [data EXCEPT ![i].base = s]
    BY <1>4 DEF SetBase
  <2>2. /\ DOMAIN data' = DOMAIN data
        /\ \A j \in DOMAIN data : data'[j].title = data[j].title
    BY <1>1, <1>2, SetBaseData DEF DataInv
  <2>3. DOMAIN data = 1 .. Len(data) /\ Len(data) \in Nat
    BY <1>2
  <2>4. FirstHits(data', t) = FirstHits(data, t)
    BY <2>2, <2>3 DEF FirstHits
  <2>5. IndexOf(t)' = i
    BY <2>4 DEF IndexOf
  <2>6. data'[i].base = s
    <3>1. data[i] \in Movie
      BY <1>1, <1>2
    <3>2. data'[i] = [data[i] EXCEPT !.base = s]
      <4>. HIDE DEF i
      <4>. QED  BY <1>1, <2>1
    <3>. QED  BY <3>1, <3>2 DEF Movie
  <2>. QED  BY <2>5, <2>6, FromCsvAssumption DEF BaseText
<1>. QED  BY <1>3, <1>4

\* The movie add() appends has the provider it was given.
LEMMA PushBase ==
  ASSUME DataTypeOK, NEW t \in Titles, NEW base \in Synopses \cup {FromCsv},
         ~ Exists(t), PushMovie(t, base)
  PROVE  data'[IndexOf(t)'].base = base
<1> DEFINE m == [title |-> t, base |-> base]
           n == Len(data) + 1
<1>1. data \in Seq(Movie) /\ m \in Movie
  BY DEF DataTypeOK, Movie
<1>2. data' = Append(data, m)
  BY DEF PushMovie
<1>3. /\ Len(data) \in Nat
      /\ DOMAIN data = 1 .. Len(data)
      /\ DOMAIN data' = 1 .. n
      /\ \A j \in DOMAIN data : data'[j] = data[j]
      /\ data'[n] = m
  <2>. HIDE DEF m
  <2>. QED  BY <1>1, <1>2, AppendProperties
<1>4. \A j \in DOMAIN data : data'[j].title # t
  BY <1>3 DEF Exists
<1>5. FirstHits(data', t) = {n}
  BY <1>3, <1>4 DEF FirstHits
<1>6. IndexOf(t)' = n
  BY <1>5 DEF IndexOf
<1>. QED  BY <1>3, <1>6

\* add() of a new title: its text is the one given.
LEMMA PushText ==
  ASSUME DataTypeOK, NEW t \in Titles, NEW s \in Synopses,
         ~ Exists(t), PushMovie(t, s)
  PROVE  BaseText(t)' = s
<1>1. data'[IndexOf(t)'].base = s
  BY PushBase
<1>. QED  BY <1>1, FromCsvAssumption DEF BaseText

-----------------------------------------------------------------------------
(* Texts that stay *)

\* A scan ends at the only element with the title.
LEMMA OnlyHit ==
  ASSUME NEW S, NEW s \in Seq(S), NEW t, NEW k \in DOMAIN s, s[k].title = t,
         \A i \in DOMAIN s : s[i].title = t => i = k
  PROVE  (CHOOSE i \in FirstHits(s, t) : TRUE) = k
<1>1. FirstHits(s, t) # {} /\ FirstHits(s, t) \subseteq DOMAIN s
  BY FirstHitExists DEF FirstHits
<1>2. \A i \in FirstHits(s, t) : i = k
  BY <1>1 DEF FirstHits
<1>. QED  BY <1>1, <1>2

\* A movie that is still there with the same provider has the same text, if
\* the file has.
LEMMA SameText ==
  ASSUME DataTypeOK, UniqueTitles, NEW u, Exists(u),
         data' \in Seq(Movie), UniqueTitles',
         NEW k \in DOMAIN data', data'[k] = data[IndexOf(u)],
         GetField(csv', u) = GetField(csv, u)
  PROVE  BaseText(u)' = BaseText(u)
<1>1. data[IndexOf(u)].title = u
  BY MovieOf
<1>2. \A i \in DOMAIN data' : data'[i].title = u => i = k
  BY <1>1 DEF UniqueTitles
<1>3. IndexOf(u)' = k
  BY <1>1, <1>2, OnlyHit DEF IndexOf
<1>. QED  BY <1>3 DEF BaseText

\* add() leaves the texts of the movies that are there.
LEMMA PushTexts ==
  ASSUME DataTypeOK, UniqueTitles, csv' = csv,
         NEW t \in Titles, NEW base \in Synopses \cup {FromCsv},
         PushMovie(t, base), NEW u, Exists(u)
  PROVE  BaseText(u)' = BaseText(u)
<1> DEFINE m == [title |-> t, base |-> base]
<1>1. data \in Seq(Movie) /\ m \in Movie
  BY DEF DataTypeOK, Movie
<1>2. data' \in Seq(Movie) /\ UniqueTitles'
  BY PushMovieData
<1>3. IndexOf(u) \in DOMAIN data
  BY MovieOf
<1>4. data' = data \/ data' = Append(data, m)
  BY DEF PushMovie
<1>. HIDE DEF m
<1>5. IndexOf(u) \in DOMAIN data' /\ data'[IndexOf(u)] = data[IndexOf(u)]
  BY <1>1, <1>3, <1>4, AppendProperties
<1>. QED  BY <1>2, <1>5, SameText

\* remove() leaves the texts of the other movies, which it may shift.
LEMMA EraseTexts ==
  ASSUME DataTypeOK, UniqueTitles, csv' = csv,
         NEW t \in Titles, EraseMovie(t), NEW u, Exists(u), u # t
  PROVE  BaseText(u)' = BaseText(u)
<1>1. /\ data' \in Seq(Movie) /\ UniqueTitles'
      /\ Exists(u)'
      /\ \A j \in DOMAIN data' : \E i \in DOMAIN data : data'[j] = data[i]
  BY EraseMovieData
<1>2. PICK k \in DOMAIN data' : data'[k].title = u
  BY <1>1 DEF Exists
<1>3. PICK i \in DOMAIN data : data'[k] = data[i]
  BY <1>1
<1>4. i = IndexOf(u)
  BY <1>2, <1>3, MovieOf
<1>. QED  BY <1>1, <1>3, <1>4, SameText

\* An edit of the file leaves the texts of the other titles.
LEMMA EditedFieldKept ==
  ASSUME NEW rows \in Seq(Row), NEW t, NEW s \in Synopses, NEW u, u # t
  PROVE  GetField(EditField(rows, t, s), u) = GetField(rows, u)
<1> DEFINE new == EditField(rows, t, s)
           i == CHOOSE k \in FirstHits(rows, u) : TRUE
<1>1. FirstHits(new, u) = FirstHits(rows, u)
  BY EditKeepsHits
<1>2. CASE FirstHits(rows, u) = {}
  BY <1>1, <1>2 DEF GetField, SynopsisAt
<1>3. CASE FirstHits(rows, u) # {}
  <2>1. i \in DOMAIN rows /\ rows[i].title = u
    BY <1>3 DEF FirstHits
  <2>2. new[i] = rows[i]
    BY <2>1 DEF EditField, FirstHits
  <2>3. GetField(rows, u) = rows[i].synopsis
    BY <1>3 DEF GetField, SynopsisAt
  <2>4. GetField(new, u) = new[i].synopsis
    <3>. HIDE DEF new
    <3>. QED  BY <1>1, <1>3 DEF GetField, SynopsisAt
  <2>. QED  BY <2>2, <2>3, <2>4
<1>. QED  BY <1>2, <1>3

\* set_synopsis() leaves the texts of the other movies.
LEMMA SetTexts ==
  ASSUME DataTypeOK, UniqueTitles, NEW t \in Titles, NEW s \in Synopses,
         Exists(t), SetBase(t, s), NEW u, Exists(u), u # t
  PROVE  BaseText(u)' = BaseText(u)
<1> DEFINE i == IndexOf(t)
           k == IndexOf(u)
<1>1. /\ i \in DOMAIN data /\ data[i].title = t
      /\ k \in DOMAIN data /\ data[k].title = u
  BY MovieOf
<1>2. data \in Seq(Movie) /\ file \in [Files -> Seq(Row)] /\ csv \in Seq(Row)
  BY DEF DataTypeOK, csv, Files
<1>3. data' \in Seq(Movie) /\ UniqueTitles' /\ DOMAIN data' = DOMAIN data
  BY SetBaseData
<1>4. data'[k] = data[k]
  <2>1. data' = data \/ data' = [data EXCEPT ![i].base = s]
    BY DEF SetBase
  <2>2. i # k
    BY <1>1
  <2>. HIDE DEF i, k
  <2>. QED  BY <1>1, <2>1, <2>2
<1>5. csv' = csv \/ csv' = EditField(csv, t, s)
  <2>1. file' = file \/ file' = [file EXCEPT !["own"] = EditField(csv, t, s)]
    BY DEF SetBase
  <2>. QED  BY <1>2, <2>1 DEF csv, Files
<1>6. GetField(csv', u) = GetField(csv, u)
  BY <1>2, <1>5, EditedFieldKept
<1>. QED  BY <1>1, <1>3, <1>4, <1>6, SameText

-----------------------------------------------------------------------------
(* Places that stay *)

\* add() appends: every movie stays where it is.
LEMMA PushPlaces ==
  ASSUME DataTypeOK, UniqueTitles,
         NEW t \in Titles, NEW base \in Synopses \cup {FromCsv},
         PushMovie(t, base), NEW u, Exists(u)
  PROVE  IndexOf(u)' = IndexOf(u) /\ data'[IndexOf(u)] = data[IndexOf(u)]
<1> DEFINE m == [title |-> t, base |-> base]
           k == IndexOf(u)
<1>1. data \in Seq(Movie) /\ m \in Movie
  BY DEF DataTypeOK, Movie
<1>2. data' \in Seq(Movie) /\ UniqueTitles'
  BY PushMovieData
<1>3. k \in DOMAIN data /\ data[k].title = u
  BY MovieOf
<1>4. data' = data \/ data' = Append(data, m)
  BY DEF PushMovie
<1>5. k \in DOMAIN data' /\ data'[k] = data[k]
  <2>. HIDE DEF m, k
  <2>. QED  BY <1>1, <1>3, <1>4, AppendProperties
<1>6. \A i \in DOMAIN data' : data'[i].title = u => i = k
  <2>. HIDE DEF k
  <2>. QED  BY <1>2, <1>3, <1>5 DEF UniqueTitles
<1>7. (CHOOSE i \in FirstHits(data', u) : TRUE) = k
  <2>. HIDE DEF k
  <2>. QED  BY <1>2, <1>3, <1>5, <1>6, OnlyHit
<1>8. IndexOf(u)' = k
  BY <1>7 DEF IndexOf
<1>. QED  BY <1>5, <1>8

\* set_synopsis() moves no movie and no provider but that of its own.
LEMMA SetPlaces ==
  ASSUME DataTypeOK, UniqueTitles, NEW t \in Titles, NEW s \in Synopses,
         Exists(t), SetBase(t, s), NEW u, Exists(u)
  PROVE  /\ IndexOf(u)' = IndexOf(u)
         /\ u # t => data'[IndexOf(u)] = data[IndexOf(u)]
<1> DEFINE i == IndexOf(t)
           k == IndexOf(u)
<1>1. /\ i \in DOMAIN data /\ data[i].title = t
      /\ k \in DOMAIN data /\ data[k].title = u
  BY MovieOf
<1>2. data \in Seq(Movie)
  BY DEF DataTypeOK
<1>3. /\ data' \in Seq(Movie) /\ UniqueTitles' /\ DOMAIN data' = DOMAIN data
      /\ \A j \in DOMAIN data : data'[j].title = data[j].title
  BY SetBaseData
<1>4. u # t => data'[k] = data[k]
  <2>1. data' = data \/ data' = [data EXCEPT ![i].base = s]
    BY DEF SetBase
  <2>2. u # t => i # k
    BY <1>1
  <2>. HIDE DEF i, k
  <2>. QED  BY <1>1, <2>1, <2>2
<1>5. (CHOOSE j \in FirstHits(data', u) : TRUE) = k
  <2>1. data'[k].title = u /\ \A j \in DOMAIN data' : data'[j].title = u => j = k
    <3>. HIDE DEF k
    <3>. QED  BY <1>1, <1>3 DEF UniqueTitles
  <2>. HIDE DEF k
  <2>. QED  BY <1>1, <1>3, <2>1, OnlyHit
<1>6. IndexOf(u)' = k
  BY <1>5 DEF IndexOf
<1>. QED  BY <1>4, <1>6

\* remove() moves the movies behind the one it erases, by one.
LEMMA ErasePlaces ==
  ASSUME DataTypeOK, UniqueTitles, NEW t \in Titles, EraseMovie(t),
         NEW u, Exists(u), u # t
  PROVE  /\ data'[IndexOf(u)'] = data[IndexOf(u)]
         /\ IndexOf(u)' \in {IndexOf(u), IndexOf(u) - 1}
         /\ IndexOf(u)' \in DOMAIN data'
<1> DEFINE k == IndexOf(u)
<1>1. k \in DOMAIN data /\ data[k].title = u
  BY MovieOf
<1>2. data \in Seq(Movie) /\ DOMAIN data = 1 .. Len(data) /\ Len(data) \in Nat
  BY DEF DataTypeOK
<1>3. data' \in Seq(Movie) /\ UniqueTitles'
  BY EraseMovieData
<1>4. ASSUME NEW j \in DOMAIN data', data'[j] = data[k]
      PROVE  IndexOf(u)' = j
  <2>1. data'[j].title = u /\ \A i \in DOMAIN data' : data'[i].title = u => i = j
    <3>. HIDE DEF k
    <3>. QED  BY <1>1, <1>3, <1>4 DEF UniqueTitles
  <2>2. (CHOOSE i \in FirstHits(data', u) : TRUE) = j
    <3>1. DOMAIN data' = 1 .. Len(data') /\ Len(data') \in Nat
      BY <1>3
    <3>2. FirstHits(data', u) = {j}
      BY <2>1, <3>1 DEF FirstHits
    <3>. QED  BY <3>2
  <2>. QED  BY <2>2 DEF IndexOf
<1>5. CASE ~ Exists(t)
  <2>1. data' = data
    BY <1>5 DEF EraseMovie
  <2>. QED  BY <1>1, <1>4, <2>1
<1>6. CASE Exists(t)
  <2> DEFINE i == IndexOf(t)
  <2>1. i \in DOMAIN data /\ data[i].title = t
    BY <1>6, MovieOf
  <2>2. data' = RemoveAt(data, i)
    BY <1>6 DEF EraseMovie
  <2>3. i # k
    BY <1>1, <2>1
  <2>. HIDE DEF i, k
  <2>4. /\ DOMAIN data' = 1 .. Len(data) - 1
        /\ \A j \in DOMAIN data' : data'[j] = IF j < i THEN data[j] ELSE data[j + 1]
    <3>1. i \in 1 .. Len(data) + 1 /\ i <= Len(data)
      BY <1>2, <2>1
    <3>. QED  BY <1>2, <2>2, <3>1, RemoveAtSeq
  <2>5. CASE k < i
    <3>1. k \in DOMAIN data' /\ data'[k] = data[k]
      BY <1>1, <1>2, <2>1, <2>4, <2>5
    <3>. QED  BY <1>4, <3>1 DEF k
  <2>6. CASE k > i
    <3>1. k - 1 \in DOMAIN data' /\ data'[k - 1] = data[(k - 1) + 1] /\ (k - 1) + 1 = k
      BY <1>1, <1>2, <2>1, <2>4, <2>6
    <3>2. data'[k - 1] = data[k]
      BY <3>1
    <3>. QED  BY <1>4, <3>1, <3>2 DEF k
  <2>. QED  BY <1>1, <1>2, <2>1, <2>3, <2>5, <2>6
<1>. QED  BY <1>5, <1>6

-----------------------------------------------------------------------------
(* Rows that are written *)

\* get_field stops at the first row of its title.
LEMMA FirstRow ==
  ASSUME NEW rows \in Seq(Row), NEW k \in DOMAIN rows,
         \A i \in 1 .. k - 1 : rows[i].title # rows[k].title
  PROVE  GetField(rows, rows[k].title) = rows[k].synopsis
<1>1. DOMAIN rows = 1 .. Len(rows) /\ Len(rows) \in Nat
  OBVIOUS
<1>2. FirstHits(rows, rows[k].title) = {k}
  BY <1>1 DEF FirstHits
<1>. QED  BY <1>2 DEF GetField, SynopsisAt

\* A row at the end counts if it is the first of its title.
LEMMA AppendedRow ==
  ASSUME NEW rows \in Seq(Row), NEW r \in Row, NEW u
  PROVE  /\ (\E i \in DOMAIN rows : rows[i].title = u)
              => GetField(Append(rows, r), u) = GetField(rows, u)
         /\ (\A i \in DOMAIN rows : rows[i].title # u) /\ r.title = u
              => GetField(Append(rows, r), u) = r.synopsis
<1> DEFINE new == Append(rows, r)
           n == Len(rows)
<1>1. /\ n \in Nat /\ DOMAIN rows = 1 .. n
      /\ DOMAIN new = 1 .. n + 1 /\ new \in Seq(Row)
      /\ \A i \in 1 .. n : new[i] = rows[i]
      /\ new[n + 1] = r
  BY AppendProperties
<1>. HIDE DEF new
<1>2. ASSUME NEW k \in DOMAIN rows, rows[k].title = u
      PROVE  GetField(new, u) = GetField(rows, u)
  <2>1. PICK i \in FirstHits(rows, u) : i <= k
    BY <1>2, FirstHitExists
  <2>2. FirstHits(rows, u) = {i} /\ i \in DOMAIN rows
    BY <2>1, FirstHitUnique
  <2>3. FirstHits(new, u) = {i}
    BY <1>1, <2>1 DEF FirstHits
  <2>. QED  BY <1>1, <2>2, <2>3 DEF GetField, SynopsisAt
<1>3. ASSUME \A i \in DOMAIN rows : rows[i].title # u, r.title = u
      PROVE  GetField(new, u) = r.synopsis
  <2>1. n + 1 \in DOMAIN new /\ new[n + 1] = r
    BY <1>1
  <2>2. \A i \in 1 .. (n + 1) - 1 : new[i].title # new[n + 1].title
    BY <1>1, <1>3
  <2>. QED  BY <1>1, <1>3, <2>1, <2>2, FirstRow
<1>. QED  BY <1>2, <1>3 DEF new

\* No two rows have one title.
UniqueIn(rows) == \A i, j \in DOMAIN rows : rows[i].title = rows[j].title => i = j

\* Then the last row of a title is its first.
LEMMA UniqueParsed ==
  ASSUME NEW rows \in Seq(Row), UniqueIn(rows), NEW u
  PROVE  ParsedField(rows, u) = GetField(rows, u)
<1>1. DOMAIN rows = 1 .. Len(rows) /\ Len(rows) \in Nat
  OBVIOUS
<1>2. LastHits(rows, u) = FirstHits(rows, u)
  BY <1>1 DEF UniqueIn, LastHits, FirstHits
<1>. QED  BY <1>2 DEF ParsedField, GetField

=============================================================================

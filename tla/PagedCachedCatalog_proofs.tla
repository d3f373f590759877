--------------------- MODULE PagedCachedCatalog_proofs ---------------------
(***************************************************************************)
(* What holds of PagedCachedCatalog for every set of titles and texts,     *)
(* every file and client, every size of cache and of page.                 *)
(*                                                                         *)
(* The inductive invariant is that of the movies (DataInv) beside that of  *)
(* the cache: the order lists the cached pages, each once.  From it a page *)
(* that is cached is found in the order, a full cache has a front to evict *)
(* and what is evicted from the one container is in the other; it is the   *)
(* reason why the capacity is kept, although a stale page is erased and    *)
(* inserted again on the way.                                              *)
(*                                                                         *)
(* Of PagedUsage there is a second invariant: until the client breaks the  *)
(* promise, what a cached page has for a movie of the catalog is what      *)
(* load_page would read for it now.  It speaks of pages by what they hold, *)
(* never by where their movies stand, and so survives every remove().  And *)
(* until then that text is the movie's own: a movie that was added has no  *)
(* row, and the row of one that was read is what its provider reads.       *)
(***************************************************************************)
EXTENDS PagedUsage, CatalogData_proofs

PageTexts ==
  \A p \in CachedPages :
    /\ DOMAIN cache[p] \subseteq Titles
    /\ \A t \in DOMAIN cache[p] : cache[p][t] \in Synopses

CacheInv ==
  /\ CachedPages \subseteq Nat
  /\ PageTexts
  /\ IsListing(order, CachedPages)
  /\ WithinCapacity
  /\ cacheSize \in CacheSizes
  /\ fault \in BOOLEAN
  /\ FaultOnlyWhenZero

IInv == DataInv /\ CacheInv

-----------------------------------------------------------------------------
(* Pages *)

\* The last of several rows has a text, too.
LEMMA ParsedFieldType ==
  ASSUME NEW rows \in Seq(Row), NEW t
  PROVE  ParsedField(rows, t) \in Synopses
<1> DEFINE hits == LastHits(rows, t)
<1>1. hits \subseteq DOMAIN rows
  BY DEF LastHits
<1>2. CASE hits = {}
  BY <1>2, EmptyAssumption DEF ParsedField, SynopsisAt
<1>3. CASE hits # {}
  <2> DEFINE i == CHOOSE i \in hits : TRUE
  <2>1. i \in DOMAIN rows
    BY <1>1, <1>3
  <2>2. rows[i] \in Row
    BY <2>1
  <2>3. ParsedField(rows, t) = rows[i].synopsis
    BY <1>3 DEF ParsedField, SynopsisAt
  <2>. QED  BY <2>2, <2>3 DEF Row
<1>. QED  BY <1>2, <1>3

\* A position belongs to a page.
LEMMA PageNumber ==
  ASSUME NEW i \in Nat \ {0}
  PROVE  PageAt(i) \in Nat
<1>1. i - 1 \in Nat /\ PageSize \in Nat /\ PageSize > 0
  BY PageSizeAssumption
<1>2. (i - 1) \div PageSize \in Nat
  BY <1>1
<1>. QED  BY <1>2 DEF PageAt

\* A page that is read has titles and texts, and every movie that stands on it.
LEMMA ReadPageTexts ==
  ASSUME DataInv, NEW p
  PROVE  /\ DOMAIN ReadPage(p) \subseteq Titles
         /\ \A t \in DOMAIN ReadPage(p) : ReadPage(p)[t] \in Synopses
<1>1. data \in Seq(Movie) /\ csv \in Seq(Row)
  BY DEF DataInv, DataTypeOK, csv, Files
<1>2. ASSUME NEW t \in TitlesOf(p)
      PROVE  t \in Titles /\ PageText(t) \in Synopses
  <2>1. PICK i \in DOMAIN data : data[i].title = t
    BY DEF TitlesOf
  <2>2. data[i] \in Movie
    BY <1>1
  <2>3. Exists(t) /\ t \in Titles
    BY <2>1, <2>2 DEF Exists, Movie
  <2>4. BaseText(t) \in Synopses
    BY <2>3, MovieOf DEF DataInv
  <2>5. ParsedField(csv, t) \in Synopses
    BY <1>1, ParsedFieldType
  <2>. QED  BY <2>3, <2>4, <2>5 DEF PageText
<1>. QED  BY <1>2 DEF ReadPage

\* A movie stands on its page.
LEMMA OnItsPage ==
  ASSUME DataInv, NEW t, Exists(t)
  PROVE  PageOf(t) \in Nat /\ t \in DOMAIN ReadPage(PageOf(t))
<1>1. IndexOf(t) \in DOMAIN data /\ data[IndexOf(t)].title = t
  BY MovieOf DEF DataInv
<1>2. DOMAIN data = 1 .. Len(data) /\ Len(data) \in Nat
  BY DEF DataInv, DataTypeOK
<1>3. IndexOf(t) \in Nat \ {0}
  BY <1>1, <1>2
<1>4. PageOf(t) \in Nat
  BY <1>3, PageNumber DEF PageOf
<1>5. t \in TitlesOf(PageOf(t))
  BY <1>1 DEF TitlesOf, PageOf
<1>. QED  BY <1>4, <1>5 DEF ReadPage

\* A text that is read, from a page or for one, is a text.
LEMMA ServedType ==
  ASSUME IInv, NEW t, Exists(t)
  PROVE  Served(t) \in Synopses
<1>1. CASE OnPage(t)
  BY <1>1 DEF IInv, CacheInv, PageTexts, OnPage, Served
<1>2. CASE ~ OnPage(t)
  <2>1. BaseText(t) \in Synopses
    BY MovieOf DEF IInv, DataInv
  <2>2. csv \in Seq(Row)
    BY DEF IInv, DataInv, DataTypeOK, csv, Files
  <2>. QED  BY <1>2, <2>1, <2>2, ParsedFieldType DEF Served, PageText
<1>. QED  BY <1>1, <1>2

-----------------------------------------------------------------------------
(* The cache *)

\* A cached page is found in the order: erase(end()) does not run.
LEMMA Found ==
  ASSUME CacheInv, NEW p \in CachedPages, NEW i, FindsAt(p, i)
  PROVE  /\ i \in DOMAIN order /\ order[i] = p
         /\ (i = Len(order) + 1) = FALSE
         /\ IsListing(RemoveAt(order, i), CachedPages \ {p})
<1>1. IsListing(order, CachedPages)
  BY DEF CacheInv
<1>2. DOMAIN order = 1 .. Len(order) /\ Len(order) \in Nat
  BY <1>1 DEF IsListing
<1>3. PICK k \in DOMAIN order : order[k] = p
  BY <1>1 DEF IsListing
<1>4. i \in DOMAIN order /\ order[i] = p /\ i # Len(order) + 1
  BY <1>2, <1>3 DEF FindsAt
<1>5. IsListing(RemoveAt(order, i), CachedPages \ {order[i]})
  BY <1>1, <1>4, ListingRemove
<1>. QED  BY <1>4, <1>5

\* A new page beside those that are kept, with room for it.
LEMMA InsertInv ==
  ASSUME CacheInv, DataInv, NEW p \in Nat, NEW kept, NEW rest,
         kept \subseteq CachedPages, p \notin kept,
         IsListing(rest, kept), Cardinality(kept) < cacheSize,
         Insert(p, kept, rest, FALSE)
  PROVE  CacheInv' /\ p \in CachedPages' /\ cache'[p] = ReadPage(p)
<1>1. /\ cache' = [q \in kept \cup {p} |-> IF q = p THEN ReadPage(p) ELSE cache[q]]
      /\ order' = Append(rest, p)
      /\ fault' = FALSE
      /\ cacheSize' = cacheSize
  BY DEF Insert
<1>2. CachedPages' = kept \cup {p} /\ cache'[p] = ReadPage(p)
  BY <1>1 DEF CachedPages
<1>3. IsListing(order', CachedPages')
  BY <1>1, <1>2, ListingAppend
<1>4. WithinCapacity'
  <2>1. IsFiniteSet(kept) /\ Cardinality(kept) \in Nat
    BY ListingCardinality, FS_CardinalityType
  <2>2. Cardinality(kept \cup {p}) = Cardinality(kept) + 1
    BY <2>1, FS_AddElement
  <2>3. cacheSize \in Nat
    BY CacheSizesAssumption DEF CacheInv
  <2>. QED  BY <1>1, <1>2, <2>1, <2>2, <2>3 DEF WithinCapacity
<1>5. PageTexts'
  <2>. SUFFICES ASSUME NEW q \in CachedPages'
                PROVE  /\ DOMAIN cache'[q] \subseteq Titles
                       /\ \A t \in DOMAIN cache'[q] : cache'[q][t] \in Synopses
    BY DEF PageTexts
  <2>1. CASE q = p
    BY <1>2, <2>1, ReadPageTexts
  <2>2. CASE q # p
    <3>1. q \in CachedPages /\ cache'[q] = cache[q]
      BY <1>1, <1>2, <2>2
    <3>. QED  BY <3>1 DEF CacheInv, PageTexts
  <2>. QED  BY <2>1, <2>2
<1>6. CachedPages' \subseteq Nat
  BY <1>2 DEF CacheInv
<1>. QED
  BY <1>1, <1>2, <1>3, <1>4, <1>5, <1>6 DEF CacheInv, FaultOnlyWhenZero

\* load_page, once the page itself is gone from both containers.
LEMMA LoadPageInv ==
  ASSUME CacheInv, DataInv, NEW p \in Nat, NEW rest,
         IsListing(rest, CachedPages \ {p}), LoadPage(p, rest, FALSE)
  PROVE  /\ CacheInv'
         /\ \/ fault'
            \/ p \in CachedPages' /\ cache'[p] = ReadPage(p)
<1> DEFINE kept == CachedPages \ {p}
<1>1. /\ IsFiniteSet(kept)
      /\ Cardinality(kept) = Len(rest)
      /\ rest \in Seq(kept)
      /\ kept = {} <=> rest = <<>>
  BY ListingCardinality DEF IsListing
<1>2. cacheSize \in Nat
  BY CacheSizesAssumption DEF CacheInv
<1>3. Cardinality(kept) <= cacheSize
  <2>1. IsFiniteSet(CachedPages) /\ Cardinality(CachedPages) <= cacheSize
    BY ListingCardinality DEF CacheInv, WithinCapacity
  <2>2. /\ Cardinality(kept) <= Cardinality(CachedPages)
        /\ Cardinality(kept) \in Nat /\ Cardinality(CachedPages) \in Nat
    BY <1>1, <2>1, FS_Subset, FS_CardinalityType
  <2>. QED  BY <1>2, <2>1, <2>2
<1>4. CASE Cardinality(kept) < cacheSize /\ Insert(p, kept, rest, FALSE)
  <2>1. kept \subseteq CachedPages /\ p \notin kept
    OBVIOUS
  <2>. HIDE DEF kept
  <2>. QED  BY <1>4, <2>1, InsertInv DEF kept
<1>5. CASE /\ Cardinality(kept) >= cacheSize
           /\ rest # <<>>
           /\ Insert(p, kept \ {Head(rest)}, Tail(rest), FALSE)
  <2> DEFINE left == kept \ {Head(rest)}
  <2>1. IsListing(Tail(rest), left)
    BY <1>5, ListingTail
  <2>2. Cardinality(left) = Len(Tail(rest))
    BY <2>1, ListingCardinality
  <2>3. Len(Tail(rest)) = Len(rest) - 1 /\ Len(rest) \in Nat
    BY <1>1, <1>5
  <2>4. Cardinality(left) < cacheSize
    <3>. HIDE DEF kept, left
    <3>. QED  BY <1>1, <1>2, <1>3, <2>2, <2>3
  <2>5. left \subseteq CachedPages /\ p \notin left
    OBVIOUS
  <2>6. Insert(p, left, Tail(rest), FALSE)
    BY <1>5
  <2>. HIDE DEF left
  <2>. QED  BY <2>1, <2>4, <2>5, <2>6, InsertInv
<1>6. CASE /\ Cardinality(kept) >= cacheSize
           /\ rest = <<>>
           /\ fault' = TRUE
           /\ UNCHANGED <<cache, order, cacheSize>>
  <2>1. Cardinality(kept) = 0
    BY <1>1, <1>6
  <2>2. cacheSize = 0
    BY <1>2, <1>6, <2>1
  <2>. QED  BY <1>6, <2>2 DEF CacheInv, PageTexts, CachedPages, WithinCapacity,
                              FaultOnlyWhenZero
<1>. QED  BY <1>4, <1>5, <1>6 DEF LoadPage

\* Every way through get_synopsis_using_cache; without a fault the movie is on
\* its page afterwards.
LEMMA UseCacheInv ==
  ASSUME IInv, NEW t, Exists(t), UseCache(t)
  PROVE  /\ CacheInv'
         /\ \/ fault'
            \/ PageOf(t) \in CachedPages' /\ t \in DOMAIN cache'[PageOf(t)]
<1> DEFINE p == PageOf(t)
<1>1. p \in Nat /\ t \in DOMAIN ReadPage(p)
  BY OnItsPage DEF IInv
<1>2. DataInv /\ CacheInv
  BY DEF IInv
<1>. HIDE DEF p
<1>3. CASE Hit(t)
  <2>1. /\ p \in CachedPages /\ t \in DOMAIN cache[p]
        /\ UNCHANGED <<cache, cacheSize>>
    BY <1>3 DEF Hit, OnPage, p
  <2>2. PICK i \in 1 .. Len(order) + 1 :
          /\ FindsAt(p, i)
          /\ order' = Append(RemoveAt(order, i), p)
          /\ fault' = (i = Len(order) + 1)
    BY <1>3 DEF Hit, p
  <2>3. /\ IsListing(RemoveAt(order, i), CachedPages \ {p})
        /\ (i = Len(order) + 1) = FALSE
    BY <1>2, <2>1, <2>2, Found
  <2>4. fault' = FALSE
    BY <2>2, <2>3, Zenon
  <2>5. IsListing(order', (CachedPages \ {p}) \cup {p})
    BY <2>2, <2>3, ListingAppend
  <2>6. (CachedPages \ {p}) \cup {p} = CachedPages /\ CachedPages' = CachedPages
    BY <2>1 DEF CachedPages
  <2>7. IsListing(order', CachedPages')
    BY <2>5, <2>6, Zenon
  <2>. QED
    BY <1>2, <2>1, <2>4, <2>6, <2>7
       DEF CacheInv, PageTexts, WithinCapacity, FaultOnlyWhenZero, p
<1>4. CASE Reload(t)
  <2>1. p \in CachedPages
    BY <1>4 DEF Reload, p
  <2>2. PICK i \in 1 .. Len(order) + 1 :
          /\ FindsAt(p, i)
          /\ LoadPage(p, RemoveAt(order, i), i = Len(order) + 1)
    BY <1>4 DEF Reload, p
  <2>3. /\ IsListing(RemoveAt(order, i), CachedPages \ {p})
        /\ (i = Len(order) + 1) = FALSE
    BY <1>2, <2>1, <2>2, Found
  <2>4. LoadPage(p, RemoveAt(order, i), FALSE)
    BY <2>2, <2>3, Zenon
  <2>. QED  BY <1>1, <1>2, <2>3, <2>4, LoadPageInv DEF p
<1>5. CASE Fetch(t)
  <2>1. p \notin CachedPages /\ LoadPage(p, order, FALSE)
    BY <1>5 DEF Fetch, p
  <2>2. CachedPages \ {p} = CachedPages
    BY <2>1
  <2>3. IsListing(order, CachedPages \ {p})
    BY <1>2, <2>2 DEF CacheInv
  <2>. QED  BY <1>1, <1>2, <2>1, <2>3, LoadPageInv DEF p
<1>. QED  BY <1>3, <1>4, <1>5 DEF UseCache

\* A step that leaves the cache alone leaves its invariant alone.
LEMMA UnchangedCache ==
  ASSUME CacheInv, UNCHANGED cacheVars
  PROVE  CacheInv'
BY DEF CacheInv, PageTexts, CachedPages, WithinCapacity, FaultOnlyWhenZero,
       cacheVars

\* An empty cache, of a program that starts.
LEMMA EmptyListing == IsListing(<<>>, {}) /\ Cardinality({}) = 0
<1>1. <<>> \in Seq({}) /\ DOMAIN <<>> = {}
  OBVIOUS
<1>. QED  BY <1>1, FS_EmptySet DEF IsListing

-----------------------------------------------------------------------------
(* The invariant *)

\* Nothing is cached and nothing is in the catalog.
LEMMA InitInv == Init => IInv
<1>. SUFFICES ASSUME Init PROVE IInv
  OBVIOUS
<1>1. DataInv
  BY DataInitInv DEF Init
<1>2. CachedPages = {} /\ order = <<>> /\ cacheSize \in CacheSizes
  BY DEF Init, CachedPages
<1>3. fault \in BOOLEAN /\ ~ fault
  BY Zenon DEF Init
<1>4. WithinCapacity
  BY <1>2, EmptyListing, CacheSizesAssumption DEF WithinCapacity
<1>. QED
  BY <1>1, <1>2, <1>3, <1>4, EmptyListing
     DEF IInv, CacheInv, PageTexts, FaultOnlyWhenZero

\* One step per action; what the movies do is in CatalogData_proofs.
LEMMA NextInv == IInv /\ [Next]_vars => IInv'
<1>. SUFFICES ASSUME IInv, [Next]_vars PROVE IInv'
  OBVIOUS
<1>. USE DEF IInv
<1>1. CASE Load
  <2>1. LoadMovie(FromCsv) /\ UNCHANGED cacheVars
    BY <1>1 DEF Load
  <2>. QED  BY <2>1, LoadInv, UnchangedCache
<1>2. CASE LoadEnd
  <2>1. LoadDone /\ UNCHANGED cacheVars
    BY <1>2 DEF LoadEnd
  <2>. QED  BY <2>1, LoadDoneInv, UnchangedCache
<1>3. ASSUME NEW t \in Titles, NEW s \in Synopses, AddMovie(t, s)
      PROVE  IInv'
  <2>1. /\ phase = "idle" /\ PushMovie(t, s)
        /\ UNCHANGED <<file, phase, pos, target>>
        /\ UNCHANGED cacheVars
    BY <1>3 DEF AddMovie
  <2>. QED  BY <2>1, AddInv, UnchangedCache
<1>4. ASSUME NEW t \in Titles, NEW s \in Synopses, SetSynopsis(t, s)
      PROVE  IInv'
  <2>1. /\ phase = "idle" /\ Exists(t) /\ SetBase(t, s)
        /\ UNCHANGED <<phase, pos, target>>
        /\ UNCHANGED cacheVars
    BY <1>4 DEF SetSynopsis
  <2>. QED  BY <2>1, SetInv, UnchangedCache
<1>5. ASSUME NEW t \in Titles, RemoveMovie(t)
      PROVE  IInv'
  <2>1. /\ phase = "idle" /\ EraseMovie(t)
        /\ UNCHANGED <<file, phase, pos, target>>
        /\ UNCHANGED cacheVars
    BY <1>5 DEF RemoveMovie
  <2>. QED  BY <2>1, RemoveInv, UnchangedCache
<1>6. ASSUME NEW t \in Titles, GetSynopsis(t)
      PROVE  IInv'
  <2>1. Exists(t) /\ UseCache(t) /\ UNCHANGED dataVars
    BY <1>6 DEF GetSynopsis
  <2>2. DataInv'
    BY <2>1 DEF dataVars, DataInv, DataTypeOK, UniqueTitles, LazyRowsPresent,
                SavePrefix, csv
  <2>. QED  BY <2>1, <2>2, UseCacheInv
<1>7. ASSUME NEW f \in Files, Save(f)
      PROVE  IInv'
  <2>1. OpenOutput(f) /\ UNCHANGED cacheVars
    BY <1>7 DEF Save
  <2>. QED  BY <2>1, OpenInv, UnchangedCache
<1>8. CASE SaveRow
  <2> DEFINE t == data[pos].title
  <2>1. /\ phase = "save" /\ pos <= Len(data)
        /\ UseCache(t)
        /\ IF fault' THEN UNCHANGED dataVars ELSE WriteMovie(Served(t))
    BY <1>8 DEF SaveRow
  <2>2. Exists(t)
    <3>1. data \in Seq(Movie) /\ pos \in 1 .. Len(data)
      BY <2>1 DEF DataInv, DataTypeOK
    <3>. QED  BY <3>1 DEF Exists
  <2>3. DataInv'
    <3>1. CASE fault'
      <4>1. UNCHANGED dataVars
        BY <2>1, <3>1
      <4>. QED  BY <4>1 DEF dataVars, DataInv, DataTypeOK, UniqueTitles,
                            LazyRowsPresent, SavePrefix, csv
    <3>2. CASE ~ fault'
      <4>1. WriteMovie(Served(t))
        BY <2>1, <3>2
      <4>2. Served(t) \in Synopses
        BY <2>2, ServedType
      <4>. QED  BY <2>1, <4>1, <4>2, WriteInv
    <3>. QED  BY <3>1, <3>2
  <2>. QED  BY <2>1, <2>2, <2>3, UseCacheInv
<1>9. CASE SaveEnd
  <2>1. CloseOutput /\ UNCHANGED cacheVars
    BY <1>9 DEF SaveEnd
  <2>. QED  BY <2>1, CloseInv, UnchangedCache
<1>10. CASE Restart
  <2>1. /\ Reopen
        /\ CachedPages' = {}
        /\ order' = <<>>
        /\ cacheSize' \in CacheSizes
    BY <1>10 DEF Restart, CachedPages
  <2>2. fault' \in BOOLEAN /\ ~ fault'
    BY <1>10, Zenon DEF Restart
  <2>3. DataInv'
    BY <2>1, ReopenInv
  <2>4. WithinCapacity'
    BY <2>1, EmptyListing, CacheSizesAssumption DEF WithinCapacity
  <2>. QED
    BY <2>1, <2>2, <2>3, <2>4, EmptyListing
       DEF CacheInv, PageTexts, FaultOnlyWhenZero
<1>11. CASE UNCHANGED vars
  <2>1. UNCHANGED dataVars /\ UNCHANGED cacheVars
    BY <1>11 DEF vars
  <2>2. DataInv'
    BY <2>1 DEF dataVars, DataInv, DataTypeOK, UniqueTitles, LazyRowsPresent,
                SavePrefix, csv
  <2>. QED  BY <2>1, <2>2, UnchangedCache
<1>. QED
  BY <1>1, <1>2, <1>3, <1>4, <1>5, <1>6, <1>7, <1>8, <1>9, <1>10, <1>11 DEF Next

\* The inductive invariant holds throughout.
THEOREM Invariance == Spec => []IInv
BY InitInv, NextInv, PTL DEF Spec

-----------------------------------------------------------------------------
(* What it gives *)

\* The variables have their types: pages hold titles and texts, whatever rows
\* they are read from, also while save() rewrites them.
THEOREM TypeCorrect == Spec => []TypeOK
<1>1. IInv => TypeOK
  <2>1. ASSUME IInv PROVE order \in Seq(Nat)
    <3>1. order \in Seq(CachedPages) /\ CachedPages \subseteq Nat
      BY <2>1 DEF IInv, CacheInv, IsListing
    <3>. QED  BY <3>1, SeqOfMore
  <2>. QED  BY <2>1 DEF IInv, DataInv, CacheInv, PageTexts, TypeOK
<1>. QED  BY <1>1, Invariance, PTL

\* No undefined statement runs in a cache of at least one page, whatever
\* removing does to the pages behind the cache's back.
THEOREM NoFault == Spec => []FaultOnlyWhenZero
<1>1. IInv => FaultOnlyWhenZero
  BY DEF IInv, CacheInv
<1>. QED  BY <1>1, Invariance, PTL

\* The order and the map hold the same pages, each once: the three places that
\* change them agree.
THEOREM OrderAndMapAgree == Spec => []OrderIsPages
<1>1. IInv => OrderIsPages
  <2>. SUFFICES ASSUME IsListing(order, CachedPages) PROVE OrderIsPages
    BY DEF IInv, CacheInv
  <2>1. Len(order) = Cardinality(CachedPages)
    BY ListingCardinality
  <2>2. ToSet(order) = CachedPages
    BY DEF IsListing, ToSet
  <2>. QED  BY <2>1, <2>2 DEF OrderIsPages
<1>. QED  BY <1>1, Invariance, PTL

\* The vector, the map, the order and the file agree, whatever the client does
\* and whenever the program dies (catalog.cpp:365-506).
THEOREM RecordsStayAgreed == Spec => []RecordsAgree
<1>1. TypeOK /\ OrderIsPages /\ IInv => RecordsAgree
  BY DEF IInv, DataInv, RecordsAgree
<1>. QED  BY <1>1, TypeCorrect, OrderAndMapAgree, Invariance, PTL

\* There are never more cached pages than configured, also while a stale page
\* is loaded again: unlike the cache of single synopses, whose remove() leaves
\* titles in the order, this one needs no condition on the client.
THEOREM CapacityKept == Spec => []WithinCapacity
<1>1. IInv => WithinCapacity
  BY DEF IInv, CacheInv
<1>. QED  BY <1>1, Invariance, PTL

\* A movie that left its text on disk has a row there, also after saves over
\* that file that were cut short and reopened.
THEOREM LazyMoviesHaveRows == Spec => []LazyRowsPresent
<1>1. IInv => LazyRowsPresent
  BY DEF IInv, DataInv
<1>. QED  BY <1>1, Invariance, PTL

\* A movie that was read is on its page: the page loaded for it, or kept, is
\* the one the next read looks at.
THEOREM ReadsStay == Spec => ReadIsOnPage
<1>1. ASSUME IInv, NEW t \in Titles, GetSynopsis(t), ~ fault'
      PROVE  OnPage(t)'
  <2>1. Exists(t) /\ UseCache(t) /\ UNCHANGED dataVars
    BY <1>1 DEF GetSynopsis
  <2>2. PageOf(t) \in CachedPages' /\ t \in DOMAIN cache'[PageOf(t)]
    BY <1>1, <2>1, UseCacheInv
  <2>3. PageOf(t)' = PageOf(t)
    BY <2>1 DEF dataVars, PageOf, IndexOf
  <2>. QED  BY <2>2, <2>3 DEF OnPage
<1>2. IInv => [\A t \in Titles : GetSynopsis(t) /\ ~ fault' => OnPage(t)']_vars
  BY <1>1
<1>. QED  BY <1>2, Invariance, PTL DEF ReadIsOnPage

\* A finished save leaves one row per movie, in order.
THEOREM SavesEveryTitle == Spec => SavedTitles
<1>1. ASSUME IInv, SaveEnd
      PROVE  /\ Len(file[target]) = Len(data)
             /\ \A i \in DOMAIN data : file[target][i].title = data[i].title
  <2>1. phase = "save" /\ pos > Len(data)
    BY <1>1 DEF SaveEnd, CloseOutput
  <2>2. data \in Seq(Movie) /\ pos \in Nat /\ pos <= Len(data) + 1
    BY <1>1, <2>1 DEF IInv, DataInv, DataTypeOK, SavePrefix
  <2>3. pos - 1 = Len(data)
    BY <2>1, <2>2
  <2>. QED  BY <1>1, <2>1, <2>2, <2>3 DEF IInv, DataInv, SavePrefix
<1>2. IInv => [SaveEnd =>
                 /\ Len(file[target]) = Len(data)
                 /\ \A i \in DOMAIN data : file[target][i].title = data[i].title]_vars
  BY <1>1
<1>. QED  BY <1>2, Invariance, PTL DEF SavedTitles

-----------------------------------------------------------------------------
(* As long as the promise of PagedUsage holds *)

\* Until the client breaks the promise, what a cached page has for a movie of
\* the catalog is what load_page would read for it.
PagesCurrent ==
  current => \A p \in CachedPages : \A t \in DOMAIN cache[p] :
               Exists(t) => cache[p][t] = PageText(t)

\* The constructor reads no synopsis.
EmptyWhileLoading == phase = "load" => CachedPages = {}

\* The rows written to another file have the texts of their movies.
SavedTexts ==
  phase = "save" /\ current =>
    /\ target # "own"
    /\ \A i \in 1 .. pos - 1 : file[target][i].synopsis = PageText(data[i].title)

UInv == IInv /\ PagesCurrent /\ EmptyWhileLoading /\ SavedTexts

\* Of movies load_page reads a text.
LEMMA PageTextType ==
  ASSUME DataInv, NEW t, Exists(t)
  PROVE  PageText(t) \in Synopses
<1>1. BaseText(t) \in Synopses
  BY MovieOf DEF DataInv
<1>2. csv \in Seq(Row)
  BY DEF DataInv, DataTypeOK, csv, Files
<1>. QED  BY <1>1, <1>2, ParsedFieldType DEF PageText

\* Movies have texts.
TextsTyped == \A t : Exists(t) => PageText(t) \in Synopses

(* What PageText reads is a synopsis. *)
LEMMA TextsInv == IInv => TextsTyped
BY PageTextType DEF IInv, TextsTyped

(* The same after a step. *)
LEMMA TextsInvNext == IInv' => TextsTyped'
BY TextsInv, PTL

\* The texts of movies are a matter of the vector and of the own file.
LEMMA SameData ==
  ASSUME data' = data, csv' = csv, NEW u
  PROVE  (Exists(u)' <=> Exists(u)) /\ PageText(u)' = PageText(u)
BY DEF Exists, PageText, BaseText, IndexOf

\* Of the own file, as it is, the text of a movie is its base's or its row's.
LEMMA SamePageText ==
  ASSUME csv' = csv, NEW u, BaseText(u)' = BaseText(u)
  PROVE  PageText(u)' = PageText(u)
BY DEF PageText

\* A read leaves cached pages as they are, evicts some or reads one anew.
LEMMA UseCachePages ==
  ASSUME NEW t, UseCache(t), NEW p \in CachedPages'
  PROVE  \/ p \in CachedPages /\ cache'[p] = cache[p]
         \/ cache'[p] = ReadPage(p)
<1>1. ASSUME NEW q, NEW kept, kept \subseteq CachedPages, NEW rest, NEW broken,
             Insert(q, kept, rest, broken)
      PROVE  \/ p \in CachedPages /\ cache'[p] = cache[p]
             \/ cache'[p] = ReadPage(p)
  <2>1. cache' = [r \in kept \cup {q} |-> IF r = q THEN ReadPage(q) ELSE cache[r]]
    BY <1>1 DEF Insert
  <2>2. p \in kept \cup {q}
    BY <2>1 DEF CachedPages
  <2>. QED  BY <1>1, <2>1, <2>2
<1>2. ASSUME NEW q, NEW rest, NEW broken, LoadPage(q, rest, broken)
      PROVE  \/ p \in CachedPages /\ cache'[p] = cache[p]
             \/ cache'[p] = ReadPage(p)
  <2> DEFINE kept == CachedPages \ {q}
  <2>1. kept \subseteq CachedPages /\ kept \ {Head(rest)} \subseteq CachedPages
    OBVIOUS
  <2>2. CASE Insert(q, kept, rest, broken)
    BY <1>1, <2>1, <2>2
  <2>3. CASE Insert(q, kept \ {Head(rest)}, Tail(rest), broken)
    BY <1>1, <2>1, <2>3
  <2>4. CASE cache' = cache
    BY <2>4 DEF CachedPages
  <2>. QED  BY <1>2, <2>2, <2>3, <2>4 DEF LoadPage
<1>3. CASE Hit(t)
  BY <1>3 DEF Hit, CachedPages
<1>4. CASE Reload(t)
  BY <1>2, <1>4 DEF Reload
<1>5. CASE Fetch(t)
  BY <1>2, <1>5 DEF Fetch
<1>. QED  BY <1>3, <1>4, <1>5 DEF UseCache

\* Pages stay current when what they take in is what load_page reads, and the
\* movies they have keep their texts.
LEMMA CurrentKept ==
  ASSUME PagesCurrent, current' => current,
         \A p \in CachedPages' : current' =>
           \/ p \in CachedPages /\ cache'[p] = cache[p]
           \/ cache'[p] = ReadPage(p),
         \A p \in CachedPages : \A u \in DOMAIN cache[p] :
           current' /\ Exists(u)' => Exists(u) /\ PageText(u)' = PageText(u),
         \A p \in CachedPages' :
           \/ p \in CachedPages /\ cache'[p] = cache[p]
           \/ \A u : current' => PageText(u)' = PageText(u)
  PROVE  PagesCurrent'
<1>. SUFFICES ASSUME current', NEW p \in CachedPages',
                     NEW u \in DOMAIN cache'[p], Exists(u)'
              PROVE  cache'[p][u] = PageText(u)'
  BY DEF PagesCurrent
<1>1. CASE p \in CachedPages /\ cache'[p] = cache[p]
  BY <1>1 DEF PagesCurrent
<1>2. CASE ~ (p \in CachedPages /\ cache'[p] = cache[p])
  <2>1. cache'[p] = ReadPage(p) /\ PageText(u)' = PageText(u)
    BY <1>2
  <2>. QED  BY <2>1 DEF ReadPage
<1>. QED  BY <1>1, <1>2

\* What is served from current pages.
LEMMA ServedText ==
  ASSUME PagesCurrent, current, NEW t, Exists(t)
  PROVE  Served(t) = PageText(t)
BY DEF PagesCurrent, OnPage, Served

-----------------------------------------------------------------------------
(* The abstract store *)

\* The text the store has.
Shown(t) == IF current /\ Exists(t) THEN PageText(t) ELSE FromCsv

\* A step of the store: nothing, or a reset, add or remove.
StoreStep ==
  \/ \A u \in Titles : Shown(u)' = Shown(u)
  \/ \A u \in Titles : Shown(u)' = FromCsv
  \/ \E t \in Titles, s \in Synopses :
       /\ Shown(t) = FromCsv
       /\ \A u \in Titles : Shown(u)' = IF u = t THEN s ELSE Shown(u)
  \/ \E t \in Titles :
       \A u \in Titles : Shown(u)' = IF u = t THEN FromCsv ELSE Shown(u)

\* A step that keeps the movies and their texts, or ends the promise.
LEMMA KeptStore ==
  ASSUME current' => current,
         \A u \in Titles : current' =>
           /\ Exists(u)' <=> Exists(u)
           /\ Exists(u) => PageText(u)' = PageText(u)
  PROVE  StoreStep
<1>1. CASE current'
  BY <1>1 DEF StoreStep, Shown
<1>2. CASE ~ current'
  BY <1>2 DEF StoreStep, Shown
<1>. QED  BY <1>1, <1>2

\* What a step that does not read does to the second invariant.
LEMMA QuietStep ==
  ASSUME UInv, UNCHANGED cacheVars, current' => current,
         \A p \in CachedPages : \A u \in DOMAIN cache[p] :
           current' /\ Exists(u)' => Exists(u) /\ PageText(u)' = PageText(u),
         phase' = "load" => phase = "load"
  PROVE  PagesCurrent' /\ EmptyWhileLoading'
<1>1. UNCHANGED <<cache, order, cacheSize>> /\ CachedPages' = CachedPages
  BY DEF cacheVars, CachedPages
<1>2. PagesCurrent'
  BY <1>1, CurrentKept DEF UInv
<1>. QED  BY <1>1, <1>2 DEF UInv, EmptyWhileLoading

\* A read of a synopsis, between calls or by save().
LEMMA ReadStep ==
  ASSUME UInv, NEW t, UseCache(t), current' => current,
         \A u : current => (Exists(u)' <=> Exists(u)) /\ PageText(u)' = PageText(u),
         phase' # "load"
  PROVE  PagesCurrent' /\ EmptyWhileLoading' /\ StoreStep
<1>1. PagesCurrent'
  BY UseCachePages, CurrentKept DEF UInv
<1>2. StoreStep
  BY KeptStore
<1>. QED  BY <1>1, <1>2 DEF EmptyWhileLoading

(* The invariant of the clients holds before the first call. *)
LEMMA UsageInitInv == UsageInit => UInv
<1>. SUFFICES ASSUME UsageInit PROVE UInv
  OBVIOUS
<1>1. Init /\ IInv
  BY InitInv DEF UsageInit
<1>2. CachedPages = {} /\ phase = "load"
  BY <1>1 DEF Init, DataInit, CachedPages
<1>. QED
  BY <1>1, <1>2 DEF UInv, PagesCurrent, EmptyWhileLoading, SavedTexts

\* A movie that is added or loaded: no page has its title, so that its text is
\* nobody's but its own.
LEMMA AddStep ==
  ASSUME UInv, TextsTyped', NEW t \in Titles, NEW base \in Synopses \cup {FromCsv},
         PushMovie(t, base), UNCHANGED file, UNCHANGED cacheVars,
         current' => current /\ (Exists(t) \/ phase = "load" \/ ~ LeftBehind(t)),
         phase' # "save", phase' = "load" => phase = "load"
  PROVE  PagesCurrent' /\ EmptyWhileLoading' /\ SavedTexts' /\ StoreStep
<1>1. DataTypeOK /\ UniqueTitles /\ csv' = csv
  BY DEF UInv, IInv, DataInv, csv
<1>2. /\ \A u : Exists(u)' <=> Exists(u) \/ u = t
      /\ \A u : Exists(u) => PageText(u)' = PageText(u)
  BY <1>1, PushMovieData, PushTexts, SamePageText
<1>3. \A p \in CachedPages : \A u \in DOMAIN cache[p] :
        current' /\ Exists(u)' => Exists(u) /\ PageText(u)' = PageText(u)
  BY <1>2 DEF UInv, EmptyWhileLoading, LeftBehind
<1>4. PagesCurrent' /\ EmptyWhileLoading'
  BY <1>3, QuietStep
<1>5. StoreStep
  <2>1. CASE Exists(t) \/ ~ current'
    BY <1>2, <2>1, KeptStore
  <2>2. CASE ~ Exists(t) /\ current'
    <3>1. PageText(t)' \in Synopses
      BY <1>2 DEF TextsTyped
    <3>2. /\ Shown(t) = FromCsv
          /\ \A u \in Titles :
               Shown(u)' = IF u = t THEN PageText(t)' ELSE Shown(u)
      BY <1>2, <2>2 DEF Shown
    <3>. QED  BY <3>1, <3>2 DEF StoreStep
  <2>. QED  BY <2>1, <2>2
<1>. QED  BY <1>4, <1>5 DEF SavedTexts

\* A row of save(): the text of its movie, read through the cache.
LEMMA RowStep ==
  ASSUME UInv, SaveRow, current' = current
  PROVE  PagesCurrent' /\ EmptyWhileLoading' /\ SavedTexts' /\ StoreStep
<1> DEFINE t == data[pos].title
           row == [title |-> t, synopsis |-> Served(t)]
<1>1. /\ phase = "save" /\ pos <= Len(data) /\ UseCache(t)
      /\ IF fault' THEN UNCHANGED dataVars ELSE WriteMovie(Served(t))
  BY DEF SaveRow
<1>2. /\ IInv /\ DataInv /\ DataTypeOK
      /\ file \in [Files -> Seq(Row)] /\ data \in Seq(Movie) /\ pos \in Nat \ {0}
      /\ target \in Files
  BY DEF UInv, IInv, DataInv, DataTypeOK
<1>3. pos \in 1 .. Len(data) /\ t \in Titles /\ Exists(t)
  <2>1. pos \in 1 .. Len(data)
    BY <1>1, <1>2
  <2>2. data[pos] \in Movie
    BY <1>2, <2>1
  <2>. QED  BY <1>2, <2>1, <2>2 DEF Movie, Exists
<1>4. data' = data /\ target' = target /\ phase' = phase
  BY <1>1 DEF dataVars, WriteMovie
<1>5. current => target # "own" /\ csv' = csv
  <2>1. current => target # "own"
    BY <1>1 DEF UInv, SavedTexts
  <2>2. target # "own" => csv' = csv
    BY <1>1, <1>2 DEF dataVars, WriteMovie, csv, Files
  <2>. QED  BY <2>1, <2>2
<1>6. \A u : current => (Exists(u)' <=> Exists(u)) /\ PageText(u)' = PageText(u)
  BY <1>4, <1>5, SameData
<1>7. PagesCurrent' /\ EmptyWhileLoading' /\ StoreStep
  <2>. HIDE DEF t
  <2>. QED  BY <1>1, <1>4, <1>6, ReadStep
<1>8. SavedTexts'
  <2>1. CASE fault'
    <3>1. UNCHANGED <<file, pos>>
      BY <1>1, <2>1 DEF dataVars
    <3>. QED  BY <1>1, <1>4, <1>5, <1>6, <3>1 DEF UInv, SavedTexts
  <2>2. CASE ~ fault'
    <3> DEFINE old == file[target]
    <3>1. /\ file' = [file EXCEPT ![target] = Append(old, row)]
          /\ pos' = pos + 1
      BY <1>1, <2>2 DEF WriteMovie
    <3>2. old \in Seq(Row) /\ Len(old) = pos - 1 /\ pos \in Nat
      BY <1>1, <1>2 DEF DataInv, SavePrefix
    <3>3. row \in Row
      BY <1>2, <1>3, ServedType DEF Row
    <3>4. /\ file'[target] = Append(old, row)
          /\ \A i \in 1 .. pos - 1 : Append(old, row)[i] = old[i]
          /\ Append(old, row)[pos] = row
      <4>. HIDE DEF row, old
      <4>1. file'[target] = Append(old, row)
        BY <1>2, <3>1
      <4>. QED  BY <3>2, <3>3, <4>1, AppendProperties
    <3>5. current => row.synopsis = PageText(t)
      BY <1>3, ServedText DEF UInv
    <3>6. current => \A i \in 1 .. pos - 1 : old[i].synopsis = PageText(data[i].title)
      BY <1>1 DEF UInv, SavedTexts
    <3>. HIDE DEF row, old
    <3>7. current =>
            \A i \in 1 .. pos : file'[target][i].synopsis = PageText(data[i].title)
      BY <3>2, <3>4, <3>5, <3>6
    <3>. QED  BY <1>4, <1>5, <1>6, <3>1, <3>2, <3>7 DEF SavedTexts
  <2>. QED  BY <2>1, <2>2
<1>. QED  BY <1>7, <1>8

\* One step per action.
LEMMA UsageNextInv ==
  ASSUME UInv, [UsageNext]_usageVars
  PROVE  UInv' /\ StoreStep
<1>1. IInv /\ DataTypeOK /\ UniqueTitles
  BY DEF UInv, IInv, DataInv
<1>2. [Next]_vars
  BY Zenon DEF UsageNext, usageVars, Next
<1>3. IInv' /\ TextsTyped'
  BY <1>1, <1>2, NextInv, TextsInvNext
<1>4. SUFFICES PagesCurrent' /\ EmptyWhileLoading' /\ SavedTexts' /\ StoreStep
  BY <1>3 DEF UInv
<1>5. file \in [Files -> Seq(Row)] /\ csv \in Seq(Row)
  BY <1>1 DEF DataTypeOK, csv, Files
<1>6. CASE Load /\ UNCHANGED current
  <2> DEFINE t == csv[pos].title
  <2>1. /\ PushMovie(t, FromCsv) /\ pos <= Len(csv)
        /\ UNCHANGED <<file, phase>> /\ phase = "load"
        /\ UNCHANGED cacheVars
    BY <1>6 DEF Load, LoadMovie
  <2>2. t \in Titles
    <3>1. pos \in 1 .. Len(csv)
      BY <1>1, <1>5, <2>1 DEF DataTypeOK
    <3>2. csv[pos] \in Row
      BY <1>5, <3>1
    <3>. QED  BY <3>2 DEF Row
  <2>. HIDE DEF t
  <2>. QED  BY <1>3, <1>6, <2>1, <2>2, AddStep
<1>7. CASE LoadEnd /\ UNCHANGED current
  <2>1. /\ UNCHANGED <<file, data>> /\ phase' = "idle" /\ UNCHANGED cacheVars
        /\ (current' => current)
    BY <1>7 DEF LoadEnd, LoadDone
  <2>2. \A u : (Exists(u)' <=> Exists(u)) /\ PageText(u)' = PageText(u)
    BY <2>1, SameData DEF csv
  <2>. QED  BY <2>1, <2>2, QuietStep, KeptStore DEF SavedTexts
<1>8. ASSUME NEW t \in Titles, NEW s \in Synopses, AddMovie(t, s),
             current' = (current /\ (Exists(t) \/ ~ LeftBehind(t)))
      PROVE  PagesCurrent' /\ EmptyWhileLoading' /\ SavedTexts' /\ StoreStep
  <2>1. /\ PushMovie(t, s) /\ UNCHANGED file /\ UNCHANGED cacheVars
        /\ phase' = "idle"
    BY <1>8 DEF AddMovie
  <2>2. current' => current /\ (Exists(t) \/ ~ LeftBehind(t))
    BY <1>8, Zenon
  <2>. QED  BY <1>3, <2>1, <2>2, AddStep
<1>9. ASSUME NEW t \in Titles, NEW s \in Synopses, SetSynopsis(t, s),
             current' = FALSE
      PROVE  PagesCurrent' /\ EmptyWhileLoading' /\ SavedTexts' /\ StoreStep
  <2>1. phase' = "idle"
    BY <1>9 DEF SetSynopsis
  <2>2. ~ current'
    BY <1>9, Zenon
  <2>. QED
    BY <2>1, <2>2, KeptStore DEF PagesCurrent, EmptyWhileLoading, SavedTexts
<1>10. ASSUME NEW t \in Titles, RemoveMovie(t), UNCHANGED current
       PROVE  PagesCurrent' /\ EmptyWhileLoading' /\ SavedTexts' /\ StoreStep
  <2>1. /\ phase' = "idle" /\ EraseMovie(t) /\ csv' = csv /\ UNCHANGED cacheVars
    BY <1>10 DEF RemoveMovie, csv
  <2>2. \A u : Exists(u)' <=> Exists(u) /\ u # t
    BY <1>1, <2>1, EraseMovieData
  <2>3. \A u : Exists(u) /\ u # t => PageText(u)' = PageText(u)
    BY <1>1, <2>1, EraseTexts, SamePageText
  <2>4. PagesCurrent' /\ EmptyWhileLoading'
    BY <1>10, <2>1, <2>2, <2>3, QuietStep
  <2>5. \A u \in Titles : Shown(u)' = IF u = t THEN FromCsv ELSE Shown(u)
    BY <1>10, <2>2, <2>3 DEF Shown
  <2>. QED  BY <2>1, <2>4, <2>5 DEF SavedTexts, StoreStep
<1>11. ASSUME NEW t \in Titles, GetSynopsis(t), UNCHANGED current
       PROVE  PagesCurrent' /\ EmptyWhileLoading' /\ SavedTexts' /\ StoreStep
  <2>1. Exists(t) /\ UseCache(t) /\ UNCHANGED dataVars /\ phase = "idle"
    BY <1>11 DEF GetSynopsis
  <2>2. data' = data /\ csv' = csv /\ phase' = "idle"
    BY <2>1 DEF dataVars, csv
  <2>3. PagesCurrent' /\ EmptyWhileLoading' /\ StoreStep
    BY <1>11, <2>1, <2>2, SameData, ReadStep
  <2>. QED  BY <2>2, <2>3 DEF SavedTexts
<1>12. ASSUME NEW f \in Files, Save(f), current' = (current /\ f # "own")
       PROVE  PagesCurrent' /\ EmptyWhileLoading' /\ SavedTexts' /\ StoreStep
  <2>1. /\ data' = data /\ target' = f /\ pos' = 1 /\ phase' = "save"
        /\ file' = [file EXCEPT ![f] = <<>>]
        /\ UNCHANGED cacheVars
    BY <1>12 DEF Save, OpenOutput
  <2>2. current' => current /\ f # "own"
    BY <1>12, Zenon
  <2>3. f # "own" => csv' = csv
    BY <1>5, <2>1 DEF csv, Files
  <2>4. \A u : current' => (Exists(u)' <=> Exists(u)) /\ PageText(u)' = PageText(u)
    BY <2>1, <2>2, <2>3, SameData
  <2>5. PagesCurrent' /\ EmptyWhileLoading'
    BY <2>1, <2>2, <2>4, QuietStep
  <2>6. SavedTexts'
    BY <2>1, <2>2 DEF SavedTexts
  <2>. QED  BY <2>2, <2>4, <2>5, <2>6, KeptStore
<1>13. CASE SaveRow /\ UNCHANGED current
  BY <1>13, RowStep
<1>14. CASE SaveEnd /\ UNCHANGED current
  <2>1. /\ data' = data /\ phase' = "idle" /\ UNCHANGED cacheVars
        /\ file' = [file EXCEPT !["copy"] = <<>>]
        /\ (current' => current)
    BY <1>14 DEF SaveEnd, CloseOutput, ForgetCopy
  <2>2. csv' = csv
    BY <1>5, <2>1 DEF csv, Files
  <2>3. \A u : (Exists(u)' <=> Exists(u)) /\ PageText(u)' = PageText(u)
    BY <2>1, <2>2, SameData
  <2>. QED  BY <2>1, <2>3, QuietStep, KeptStore DEF SavedTexts
<1>15. CASE Restart
  <2>1. data' = <<>> /\ phase' = "load" /\ CachedPages' = {}
    BY <1>15 DEF Restart, Reopen, CachedPages
  <2>2. \A u \in Titles : Shown(u)' = FromCsv
    BY <2>1 DEF Shown, Exists
  <2>. QED
    BY <2>1, <2>2 DEF PagesCurrent, EmptyWhileLoading, SavedTexts, StoreStep
<1>16. CASE UNCHANGED usageVars
  <2>1. UNCHANGED dataVars /\ UNCHANGED cacheVars /\ current' = current
    BY <1>16 DEF usageVars, vars
  <2>2. data' = data /\ csv' = csv /\ UNCHANGED <<file, phase, pos, target>>
    BY <2>1 DEF dataVars, csv
  <2>3. \A u : (Exists(u)' <=> Exists(u)) /\ PageText(u)' = PageText(u)
    BY <2>2, SameData
  <2>4. PagesCurrent' /\ EmptyWhileLoading'
    BY <2>1, <2>2, <2>3, QuietStep
  <2>5. SavedTexts'
    BY <2>1, <2>2, <2>3 DEF UInv, SavedTexts
  <2>. QED  BY <2>1, <2>3, <2>4, <2>5, KeptStore
<1>. QED
  BY <1>6, <1>7, <1>8, <1>9, <1>10, <1>11, <1>12, <1>13, <1>14, <1>15, <1>16
     DEF UsageNext

\* The second invariant, and what the store does meanwhile.
THEOREM UsageInvariance == UsageSpec => []UInv
<1>1. UInv /\ [UsageNext]_usageVars => UInv'
  BY UsageNextInv
<1>. QED  BY <1>1, UsageInitInv, PTL DEF UsageSpec

-----------------------------------------------------------------------------
(* The text of a page is that of the movie's own provider *)

\* A movie that was added, and has its text in memory, has no row in the file.
AddedHaveNoRow ==
  current => \A i \in DOMAIN data :
               data[i].base # FromCsv => FirstHits(csv, data[i].title) = {}

OInv == UInv /\ AddedHaveNoRow

\* Nothing is said of new movies while the movies are among those there were,
\* and the file is the same.
LEMMA AddedKept ==
  ASSUME AddedHaveNoRow,
         current' => /\ current
                     /\ csv' = csv
                     /\ \A j \in DOMAIN data' : \E i \in DOMAIN data : data'[j] = data[i]
  PROVE  AddedHaveNoRow'
BY DEF AddedHaveNoRow

\* A movie that comes in with its text has no row, or ends the promise.
LEMMA AddedPushed ==
  ASSUME DataTypeOK, UniqueTitles, AddedHaveNoRow,
         NEW t \in Titles, NEW base \in Synopses \cup {FromCsv},
         PushMovie(t, base), UNCHANGED file,
         current' => current /\ (Exists(t) \/ base = FromCsv \/ ~ LeftBehind(t))
  PROVE  AddedHaveNoRow'
<1>1. csv' = csv
  BY DEF csv
<1>2. CASE Exists(t)
  BY <1>1, <1>2, AddedKept DEF PushMovie
<1>3. CASE ~ Exists(t)
  <2>. SUFFICES ASSUME current', NEW j \in DOMAIN data', data'[j].base # FromCsv
                PROVE  FirstHits(csv, data'[j].title) = {}
    BY <1>1 DEF AddedHaveNoRow
  <2>1. CASE \E i \in DOMAIN data : data'[j] = data[i]
    BY <2>1 DEF AddedHaveNoRow
  <2>2. CASE data'[j] = [title |-> t, base |-> base]
    BY <1>3, <2>2 DEF LeftBehind
  <2>. QED  BY <2>1, <2>2, PushMovieData
<1>. QED  BY <1>2, <1>3

\* One step per action.
LEMMA AddedNext ==
  ASSUME OInv, [UsageNext]_usageVars
  PROVE  OInv'
<1>1. DataTypeOK /\ UniqueTitles /\ AddedHaveNoRow /\ UInv
  BY DEF OInv, UInv, IInv, DataInv
<1>2. file \in [Files -> Seq(Row)] /\ data \in Seq(Movie) /\ target \in Files
  BY <1>1 DEF DataTypeOK
<1>3. UInv'
  BY <1>1, UsageNextInv
<1>4. SUFFICES AddedHaveNoRow'
  BY <1>3 DEF OInv
<1>5. CASE Load /\ UNCHANGED current
  <2> DEFINE t == csv[pos].title
  <2>1. PushMovie(t, FromCsv) /\ pos <= Len(csv) /\ UNCHANGED file
    BY <1>5 DEF Load, LoadMovie
  <2>2. t \in Titles
    <3>1. pos \in 1 .. Len(csv) /\ csv \in Seq(Row)
      BY <1>1, <1>2, <2>1 DEF DataTypeOK, csv, Files
    <3>2. csv[pos] \in Row
      BY <3>1
    <3>. QED  BY <3>2 DEF Row
  <2>3. current' => current
    BY <1>5
  <2>. HIDE DEF t
  <2>. QED  BY <1>1, <2>1, <2>2, <2>3, AddedPushed
<1>6. ASSUME NEW t \in Titles, NEW s \in Synopses, AddMovie(t, s),
             current' = (current /\ (Exists(t) \/ ~ LeftBehind(t)))
      PROVE  AddedHaveNoRow'
  <2>1. PushMovie(t, s) /\ UNCHANGED file
    BY <1>6 DEF AddMovie
  <2>2. current' => current /\ (Exists(t) \/ ~ LeftBehind(t))
    BY <1>6, Zenon
  <2>. QED  BY <1>1, <2>1, <2>2, AddedPushed
<1>7. ASSUME NEW t \in Titles, NEW s \in Synopses, SetSynopsis(t, s),
             current' = FALSE
      PROVE  AddedHaveNoRow'
  <2>1. ~ current'
    BY <1>7, Zenon
  <2>. QED  BY <2>1 DEF AddedHaveNoRow
<1>8. ASSUME NEW t \in Titles, RemoveMovie(t), UNCHANGED current
      PROVE  AddedHaveNoRow'
  <2>1. EraseMovie(t) /\ csv' = csv
    BY <1>8 DEF RemoveMovie, csv
  <2>2. \A j \in DOMAIN data' : \E i \in DOMAIN data : data'[j] = data[i]
    BY <1>1, <2>1, EraseMovieData
  <2>. QED  BY <1>1, <1>8, <2>1, <2>2, AddedKept
<1>9. ASSUME NEW f \in Files, Save(f), current' = (current /\ f # "own")
      PROVE  AddedHaveNoRow'
  <2>1. data' = data /\ file' = [file EXCEPT ![f] = <<>>]
    BY <1>9 DEF Save, OpenOutput
  <2>2. current' => current /\ f # "own"
    BY <1>9, Zenon
  <2>3. f # "own" => csv' = csv
    BY <1>2, <2>1 DEF csv, Files
  <2>. QED  BY <1>1, <2>1, <2>2, <2>3, AddedKept
<1>10. CASE SaveRow /\ UNCHANGED current
  <2>1. current => target # "own"
    BY <1>1, <1>10 DEF UInv, SavedTexts, SaveRow
  <2>2. data' = data /\ (target # "own" => csv' = csv)
    BY <1>2, <1>10 DEF SaveRow, dataVars, WriteMovie, csv, Files
  <2>. QED  BY <1>1, <1>10, <2>1, <2>2, AddedKept
<1>11. CASE Restart
  <2>1. data' = <<>>
    BY <1>11 DEF Restart, Reopen
  <2>. QED  BY <2>1 DEF AddedHaveNoRow
<1>12. ASSUME data' = data, csv' = csv, UNCHANGED current
       PROVE  AddedHaveNoRow'
  BY <1>1, <1>12, AddedKept
<1>13. CASE LoadEnd /\ UNCHANGED current
  BY <1>12, <1>13 DEF LoadEnd, LoadDone, csv
<1>14. CASE SaveEnd /\ UNCHANGED current
  <2>1. data' = data /\ csv' = csv
    BY <1>2, <1>14 DEF SaveEnd, CloseOutput, ForgetCopy, csv, Files
  <2>. QED  BY <1>12, <1>14, <2>1
<1>15. ASSUME NEW t \in Titles, GetSynopsis(t), UNCHANGED current
       PROVE  AddedHaveNoRow'
  BY <1>12, <1>15 DEF GetSynopsis, dataVars, csv
<1>16. CASE UNCHANGED usageVars
  BY <1>12, <1>16 DEF usageVars, vars, dataVars, csv
<1>. QED
  BY <1>5, <1>6, <1>7, <1>8, <1>9, <1>10, <1>11, <1>13, <1>14, <1>15, <1>16
     DEF UsageNext

(* The invariant above, with that of the movies that were added. *)
LEMMA OwnInvariance == UsageSpec => []OInv
<1>1. UsageInit => OInv
  BY UsageInitInv DEF OInv, AddedHaveNoRow, UsageInit, Init, DataInit
<1>2. OInv /\ [UsageNext]_usageVars => OInv'
  BY AddedNext
<1>. QED  BY <1>1, <1>2, PTL DEF UsageSpec

\* The last row with a title is the first, if there is one only.
LEMMA OneRowParsed ==
  ASSUME NEW t, csv \in Seq(Row), OneRow(t)
  PROVE  ParsedField(csv, t) = GetField(csv, t)
<1>1. DOMAIN csv = 1 .. Len(csv) /\ Len(csv) \in Nat
  OBVIOUS
<1>2. LastHits(csv, t) = FirstHits(csv, t)
  BY <1>1 DEF OneRow, LastHits, FirstHits
<1>. QED  BY <1>2 DEF ParsedField, GetField

\* load_page finds a movie's own text in the rows of the file, or asks its
\* provider for it, unless the title has two rows.
LEMMA PageTextIsOwn ==
  ASSUME OInv, current, NEW t, Exists(t)
  PROVE  PageText(t) = OwnText(t)
<1> DEFINE i == IndexOf(t)
<1>1. DataTypeOK /\ UniqueTitles /\ csv \in Seq(Row) /\ AddedHaveNoRow
  BY DEF OInv, UInv, IInv, DataInv, DataTypeOK, csv, Files
<1>2. i \in DOMAIN data /\ data[i].title = t
  BY <1>1, MovieOf
<1>3. CASE FirstHits(csv, t) = {}
  <2>1. \A k \in DOMAIN csv : csv[k].title # t
    BY <1>1, <1>3, FirstHitExists
  <2>. QED  BY <1>3, <2>1 DEF PageText, OwnText, OneRow
<1>4. CASE FirstHits(csv, t) # {}
  <2>1. data[i].base = FromCsv
    BY <1>1, <1>2, <1>4 DEF AddedHaveNoRow
  <2>2. BaseText(t) = GetField(csv, t)
    BY <2>1 DEF BaseText
  <2>. QED  BY <1>1, <1>4, <2>2, OneRowParsed DEF PageText, OwnText
<1>. QED  BY <1>3, <1>4

\* What cached pages have for the movies of the catalog are their own texts.
PagesAreOwn ==
  current => \A p \in CachedPages : \A t \in DOMAIN cache[p] :
               Exists(t) => cache[p][t] = OwnText(t)

\* What a cached page has for a movie is what the movie's own provider returns,
\* of a title with two rows what the last one has, although removing moved the
\* movie to another page, the page was evicted and read again or titles stayed
\* on it that are gone, as long as no synopsis is set, the own file is not
\* rewritten and no title comes back whose text a page or the file still has
\* (catalog.cpp:401-506).
THEOREM PagesStayOwn == UsageSpec => []PagesAreOwn
<1>1. OInv => PagesAreOwn
  BY PageTextIsOwn DEF OInv, UInv, PagesCurrent, PagesAreOwn
<1>. QED  BY <1>1, OwnInvariance, PTL

\* Under the same condition a save to another file writes every movie with the
\* text its own provider returns, of a title with two rows that of the last,
\* although it is read from pages and each read may evict the page of a movie
\* still to come (catalog.cpp:255-271, 417-506).
THEOREM CopiesAreExact == UsageSpec => CopyIsExact
<1> DEFINE exact == \A i \in DOMAIN data :
                      file[target][i] = [title |-> data[i].title,
                                         synopsis |-> OwnText(data[i].title)]
<1>1. ASSUME OInv, SaveEnd, current
      PROVE  exact
  <2>1. phase = "save" /\ pos > Len(data) /\ UInv
    BY <1>1 DEF SaveEnd, CloseOutput, OInv
  <2>2. /\ data \in Seq(Movie) /\ pos \in Nat /\ pos <= Len(data) + 1
        /\ file[target] \in Seq(Row)
    BY <2>1 DEF UInv, IInv, DataInv, DataTypeOK, SavePrefix
  <2>3. pos - 1 = Len(data) /\ DOMAIN data = 1 .. Len(data)
    BY <2>1, <2>2
  <2>4. /\ Len(file[target]) = Len(data)
        /\ \A i \in DOMAIN data : file[target][i].title = data[i].title
    BY <2>1, <2>3 DEF UInv, IInv, DataInv, SavePrefix
  <2>5. \A i \in DOMAIN data : file[target][i].synopsis = OwnText(data[i].title)
    <3>1. \A i \in DOMAIN data : file[target][i].synopsis = PageText(data[i].title)
      BY <1>1, <2>1, <2>3 DEF UInv, SavedTexts
    <3>2. \A i \in DOMAIN data : PageText(data[i].title) = OwnText(data[i].title)
      BY <1>1, PageTextIsOwn DEF Exists
    <3>. QED  BY <3>1, <3>2
  <2>6. ASSUME NEW i \in DOMAIN data
        PROVE  file[target][i] = [title |-> data[i].title,
                                  synopsis |-> OwnText(data[i].title)]
    <3>1. file[target][i] \in Row
      BY <2>2, <2>3, <2>4
    <3>. QED  BY <2>4, <2>5, <3>1 DEF Row
  <2>. QED  BY <2>6
<1>2. OInv => [SaveEnd /\ current => exact]_usageVars
  BY <1>1
<1>. QED  BY <1>2, OwnInvariance, PTL DEF CopyIsExact

-----------------------------------------------------------------------------
(* PagedUsage implements SynopsisStore *)

AnswersAreShown ==
  [t \in Titles |-> IF current /\ Exists(t) THEN Served(t) ELSE FromCsv]
    = [t \in Titles |-> Shown(t)]

\* What is answered is what the store shows.
LEMMA AnswersShown == UInv => AnswersAreShown
<1>. SUFFICES ASSUME UInv, NEW t \in Titles
              PROVE  (IF current /\ Exists(t) THEN Served(t) ELSE FromCsv) = Shown(t)
  BY DEF AnswersAreShown
<1>. QED  BY ServedText DEF UInv, Shown

(* The answers of a step are the texts the clients see after it. *)
LEMMA AnswersShownNext == UInv' => AnswersAreShown'
BY AnswersShown, PTL

\* For every file and every size of the cache and of a page: what the catalog
\* serves changes only by add() and remove(), as long as the promise holds; the
\* shifting of movies between pages, stale pages, evictions and saves are
\* invisible (catalog.cpp:365-506).
THEOREM ImplementsStore == UsageSpec => ServesStore
<1> DEFINE answers ==
      [t \in Titles |-> IF current /\ Exists(t) THEN Served(t) ELSE FromCsv]
<1>1. UsageInit => Store!StoreInit
  BY DEF UsageInit, Init, DataInit, Exists, Store!StoreInit
<1>2. UInv /\ UInv' /\ StoreStep => [Store!StoreNext]_answers
  <2>. SUFFICES ASSUME UInv, UInv', StoreStep PROVE [Store!StoreNext]_answers
    OBVIOUS
  <2>1. answers = [t \in Titles |-> Shown(t)] /\ answers' = [t \in Titles |-> Shown(t)']
    BY AnswersShown, AnswersShownNext DEF AnswersAreShown
  <2>2. \A t \in Titles : answers[t] = Shown(t)
    BY <2>1
  <2>. HIDE DEF answers
  <2>3. CASE \A u \in Titles : Shown(u)' = Shown(u)
    BY <2>1, <2>3
  <2>4. CASE \A u \in Titles : Shown(u)' = FromCsv
    <3>1. answers' = [t \in Titles |-> FromCsv]
      BY <2>1, <2>4
    <3>. QED  BY <3>1 DEF Store!StoreNext, Store!StoreReset, answers
  <2>5. ASSUME NEW t \in Titles, NEW s \in Synopses, Shown(t) = FromCsv,
               \A u \in Titles : Shown(u)' = IF u = t THEN s ELSE Shown(u)
        PROVE  [Store!StoreNext]_answers
    <3>1. answers' = [answers EXCEPT ![t] = s] /\ answers[t] = FromCsv
      BY <2>1, <2>5
    <3>2. Store!StoreAdd(t, s)
      BY <3>1 DEF Store!StoreAdd, answers
    <3>. QED  BY <3>2 DEF Store!StoreNext
  <2>6. ASSUME NEW t \in Titles,
               \A u \in Titles : Shown(u)' = IF u = t THEN FromCsv ELSE Shown(u)
        PROVE  [Store!StoreNext]_answers
    <3>1. answers' = [answers EXCEPT ![t] = FromCsv]
      BY <2>1, <2>6
    <3>2. Store!StoreRemove(t)
      BY <3>1 DEF Store!StoreRemove, answers
    <3>. QED  BY <3>2 DEF Store!StoreNext
  <2>. QED  BY <2>3, <2>4, <2>5, <2>6 DEF StoreStep
<1>3. UInv /\ [UsageNext]_usageVars => StoreStep
  BY UsageNextInv
<1>. QED
  BY <1>1, <1>2, <1>3, UsageInvariance, PTL
     DEF UsageSpec, ServesStore, Store!StoreSpec

=============================================================================

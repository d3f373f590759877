------------------------- MODULE MediaManager_proofs -------------------------
(***************************************************************************)
(* What holds of the media manager for every configuration, every set of   *)
(* titles, texts and terms, every file and client.                         *)
(*                                                                         *)
(* Three invariants stand on each other. StateInv has the types, and the   *)
(* invariants of the catalog that runs. NamesInv pairs the documents with  *)
(* the movies by their terms, in memory and on disk, also while            *)
(* reindex_all() and flush() are half done. TextsInv adds what the         *)
(* documents say: the text of the movie underneath, which reindexing reads *)
(* through the cache, so that the cached copy of a movie whose document    *)
(* counts must be the right one, too.                                      *)
(***************************************************************************)
EXTENDS MediaManager, CatalogData_proofs

\* The theorems about the two caches, of the catalog inside the manager; what
\* CachedUsage and PagedUsage remember of their clients does not matter here.
CachedIn == INSTANCE CachedCatalog_proofs
  WITH older <- {}, tidy <- TRUE, current <- TRUE
PagedIn == INSTANCE PagedCachedCatalog_proofs WITH current <- TRUE

-----------------------------------------------------------------------------
(* The operators of the instances are those of this module. *)

\* BasicCatalog's operations on the data.
LEMMA BasicData ==
  ASSUME NEW t, NEW base
  PROVE  /\ Basic!PushMovie(t, base) <=> PushMovie(t, base)
         /\ Basic!EraseMovie(t) <=> EraseMovie(t)
         /\ Basic!SetBase(t, base) <=> SetBase(t, base)
         /\ Basic!Exists(t) <=> Exists(t)
         /\ Basic!BaseText(t) = BaseText(t)
         /\ Basic!LoadMovie(base) <=> LoadMovie(base)
         /\ Basic!LoadDone <=> LoadDone
         /\ Basic!OpenOutput(t) <=> OpenOutput(t)
         /\ Basic!WriteMovie(t) <=> WriteMovie(t)
         /\ Basic!CloseOutput <=> CloseOutput
         /\ Basic!DataTypeOK <=> DataTypeOK
BY DEF Basic!PushMovie, Basic!EraseMovie, Basic!SetBase, Basic!Exists, Basic!BaseText,
       Basic!LoadMovie, Basic!LoadDone, Basic!OpenOutput, Basic!WriteMovie,
       Basic!CloseOutput, Basic!IndexOf, Basic!csv, Basic!FirstHits, Basic!GetField,
       Basic!EditField, Basic!ForgetCopy, Basic!RemoveAt, Basic!SynopsisAt,
       Basic!DataTypeOK, Basic!Files, Basic!Row, Basic!Movie,
       PushMovie, EraseMovie, SetBase, Exists, BaseText, LoadMovie, LoadDone,
       OpenOutput, WriteMovie, CloseOutput, IndexOf, csv, FirstHits, GetField,
       EditField, ForgetCopy, RemoveAt, SynopsisAt, DataTypeOK, Files, Row, Movie

\* The same of CachedCatalog.
LEMMA CachedData ==
  ASSUME NEW t, NEW base
  PROVE  /\ Cached!PushMovie(t, base) <=> PushMovie(t, base)
         /\ Cached!EraseMovie(t) <=> EraseMovie(t)
         /\ Cached!SetBase(t, base) <=> SetBase(t, base)
         /\ Cached!Exists(t) <=> Exists(t)
         /\ Cached!BaseText(t) = BaseText(t)
         /\ Cached!LoadMovie(base) <=> LoadMovie(base)
         /\ Cached!LoadDone <=> LoadDone
         /\ Cached!OpenOutput(t) <=> OpenOutput(t)
         /\ Cached!WriteMovie(t) <=> WriteMovie(t)
         /\ Cached!CloseOutput <=> CloseOutput
         /\ Cached!DataTypeOK <=> DataTypeOK
BY DEF Cached!PushMovie, Cached!EraseMovie, Cached!SetBase, Cached!Exists,
       Cached!BaseText, Cached!LoadMovie, Cached!LoadDone, Cached!OpenOutput,
       Cached!WriteMovie, Cached!CloseOutput, Cached!IndexOf, Cached!csv,
       Cached!FirstHits, Cached!GetField, Cached!EditField, Cached!ForgetCopy,
       Cached!RemoveAt, Cached!SynopsisAt, Cached!DataTypeOK, Cached!Files,
       Cached!Row, Cached!Movie,
       PushMovie, EraseMovie, SetBase, Exists, BaseText, LoadMovie, LoadDone,
       OpenOutput, WriteMovie, CloseOutput, IndexOf, csv, FirstHits, GetField,
       EditField, ForgetCopy, RemoveAt, SynopsisAt, DataTypeOK, Files, Row, Movie

\* The same of PagedCachedCatalog.
LEMMA PagedData ==
  ASSUME NEW t, NEW base
  PROVE  /\ Paged!PushMovie(t, base) <=> PushMovie(t, base)
         /\ Paged!EraseMovie(t) <=> EraseMovie(t)
         /\ Paged!SetBase(t, base) <=> SetBase(t, base)
         /\ Paged!Exists(t) <=> Exists(t)
         /\ Paged!BaseText(t) = BaseText(t)
         /\ Paged!LoadMovie(base) <=> LoadMovie(base)
         /\ Paged!LoadDone <=> LoadDone
         /\ Paged!OpenOutput(t) <=> OpenOutput(t)
         /\ Paged!WriteMovie(t) <=> WriteMovie(t)
         /\ Paged!CloseOutput <=> CloseOutput
         /\ Paged!DataTypeOK <=> DataTypeOK
BY DEF Paged!PushMovie, Paged!EraseMovie, Paged!SetBase, Paged!Exists,
       Paged!BaseText, Paged!LoadMovie, Paged!LoadDone, Paged!OpenOutput,
       Paged!WriteMovie, Paged!CloseOutput, Paged!IndexOf, Paged!csv,
       Paged!FirstHits, Paged!GetField, Paged!EditField, Paged!ForgetCopy,
       Paged!RemoveAt, Paged!SynopsisAt, Paged!DataTypeOK, Paged!Files,
       Paged!Row, Paged!Movie,
       PushMovie, EraseMovie, SetBase, Exists, BaseText, LoadMovie, LoadDone,
       OpenOutput, WriteMovie, CloseOutput, IndexOf, csv, FirstHits, GetField,
       EditField, ForgetCopy, RemoveAt, SynopsisAt, DataTypeOK, Files, Row, Movie

-----------------------------------------------------------------------------
(* What each operation does to the data and to the cache, whatever the class. *)

\* The constructor of the catalog: a row, or its end.
LEMMA LoadStep ==
  ASSUME Load
  PROVE  /\ \/ \E base \in {FromCsv, csv[pos].synopsis} :
                 LoadMovie(base) /\ (config = "NO_CACHE" => base = csv[pos].synopsis)
            \/ LoadDone
         /\ UNCHANGED cacheVars
         /\ UNCHANGED <<config, indexVars, jobVars, history>>
<1>1. Dispatch(Basic!Load \/ Basic!LoadEnd,
               Cached!Load \/ Cached!LoadEnd,
               Paged!Load \/ Paged!LoadEnd)
  BY DEF Load
<1>2. CASE config = "NO_CACHE" /\ (Basic!Load \/ Basic!LoadEnd) /\ UNCHANGED cacheVars
  BY <1>2, BasicData DEF Basic!Load, Basic!LoadEnd, Load, Basic!csv, csv
<1>3. CASE config = "INDIVIDUAL_CACHE" /\ (Cached!Load \/ Cached!LoadEnd)
  BY <1>3, CachedData DEF Cached!Load, Cached!LoadEnd, Cached!cacheVars, cacheVars, Load
<1>4. CASE config = "PAGED_CACHE" /\ (Paged!Load \/ Paged!LoadEnd)
  BY <1>4, PagedData DEF Paged!Load, Paged!LoadEnd, Paged!cacheVars, cacheVars, Load
<1>. QED  BY <1>1, <1>2, <1>3, <1>4, Zenon DEF Dispatch

\* The catalog's part of add().
LEMMA AddStep ==
  ASSUME NEW t, NEW s, AddMovie(t, s)
  PROVE  /\ phase = "idle" /\ job = "none"
         /\ PushMovie(t, s)
         /\ UNCHANGED <<file, phase, pos, target>>
         /\ UNCHANGED cacheVars
<1>1. /\ Ready
      /\ Dispatch(Basic!AddMovie(t, s), Cached!AddMovie(t, s), Paged!AddMovie(t, s))
  BY DEF AddMovie
<1>2. CASE config = "NO_CACHE" /\ Basic!AddMovie(t, s) /\ UNCHANGED cacheVars
  BY <1>1, <1>2, BasicData DEF Basic!AddMovie, Ready
<1>3. CASE config = "INDIVIDUAL_CACHE" /\ Cached!AddMovie(t, s)
  BY <1>1, <1>3, CachedData DEF Cached!AddMovie, Cached!cacheVars, cacheVars, Ready
<1>4. CASE config = "PAGED_CACHE" /\ Paged!AddMovie(t, s)
  BY <1>1, <1>4, PagedData DEF Paged!AddMovie, Paged!cacheVars, cacheVars, Ready
<1>. QED  BY <1>1, <1>2, <1>3, <1>4, Zenon DEF Dispatch

\* The catalog's part of remove(): only CachedCatalog touches its cache.
LEMMA RemoveStep ==
  ASSUME NEW t, RemoveMovie(t)
  PROVE  /\ phase = "idle" /\ job = "none"
         /\ EraseMovie(t)
         /\ UNCHANGED <<file, phase, pos, target>>
         /\ UNCHANGED <<order, cacheSize, fault>>
         /\ cache' = IF config = "INDIVIDUAL_CACHE"
                     THEN [cache EXCEPT ![t] = NotCached] ELSE cache
<1>1. /\ Ready
      /\ Dispatch(Basic!RemoveMovie(t), Cached!RemoveMovie(t), Paged!RemoveMovie(t))
  BY DEF RemoveMovie
<1>2. CASE config = "NO_CACHE" /\ Basic!RemoveMovie(t) /\ UNCHANGED cacheVars
  BY <1>1, <1>2, BasicData DEF Basic!RemoveMovie, Ready, cacheVars
<1>3. CASE config = "INDIVIDUAL_CACHE" /\ Cached!RemoveMovie(t)
  BY <1>1, <1>3, CachedData DEF Cached!RemoveMovie, Ready
<1>4. CASE config = "PAGED_CACHE" /\ Paged!RemoveMovie(t)
  BY <1>1, <1>4, PagedData DEF Paged!RemoveMovie, Paged!cacheVars, Ready
<1>. QED  BY <1>1, <1>2, <1>3, <1>4, Zenon DEF Dispatch

\* set_synopsis() of a movie the client got.
LEMMA EditStep ==
  ASSUME NEW t, NEW s, EditMovie(t, s)
  PROVE  /\ phase = "idle" /\ job = "none" /\ Exists(t)
         /\ SetBase(t, s)
         /\ UNCHANGED <<phase, pos, target>>
         /\ UNCHANGED cacheVars
<1>1. /\ Ready
      /\ Dispatch(Basic!SetSynopsis(t, s), Cached!SetSynopsis(t, s),
                  Paged!SetSynopsis(t, s))
  BY DEF EditMovie
<1>2. CASE config = "NO_CACHE" /\ Basic!SetSynopsis(t, s) /\ UNCHANGED cacheVars
  BY <1>1, <1>2, BasicData DEF Basic!SetSynopsis, Ready
<1>3. CASE config = "INDIVIDUAL_CACHE" /\ Cached!SetSynopsis(t, s)
  BY <1>1, <1>3, CachedData DEF Cached!SetSynopsis, Cached!cacheVars, cacheVars, Ready
<1>4. CASE config = "PAGED_CACHE" /\ Paged!SetSynopsis(t, s)
  BY <1>1, <1>4, PagedData DEF Paged!SetSynopsis, Paged!cacheVars, cacheVars, Ready
<1>. QED  BY <1>1, <1>2, <1>3, <1>4, Zenon DEF Dispatch

\* The start of the save in flush().
LEMMA FlushStep ==
  ASSUME Flush
  PROVE  OpenOutput("own") /\ UNCHANGED cacheVars
<1>1. Dispatch(Basic!Save("own"), Cached!Save("own"), Paged!Save("own"))
  BY DEF Flush
<1>2. CASE config = "NO_CACHE" /\ Basic!Save("own") /\ UNCHANGED cacheVars
  BY <1>2, BasicData DEF Basic!Save
<1>3. CASE config = "INDIVIDUAL_CACHE" /\ Cached!Save("own")
  BY <1>3, CachedData DEF Cached!Save, Cached!cacheVars, cacheVars
<1>4. CASE config = "PAGED_CACHE" /\ Paged!Save("own")
  BY <1>4, PagedData DEF Paged!Save, Paged!cacheVars, cacheVars
<1>. QED  BY <1>1, <1>2, <1>3, <1>4, Zenon DEF Dispatch

\* A row of that save: the text is read through the cache, then written.
LEMMA FlushRowStep ==
  ASSUME FlushRow
  PROVE  /\ phase = "save" /\ pos <= Len(data)
         /\ UseCache(data[pos].title)
         /\ \/ WriteMovie(Served(data[pos].title))
            \/ fault' /\ UNCHANGED dataVars
<1> DEFINE t == data[pos].title
<1>1. Dispatch(Basic!SaveRow, Cached!SaveRow, Paged!SaveRow)
  BY DEF FlushRow
<1>2. CASE config = "NO_CACHE" /\ Basic!SaveRow /\ UNCHANGED cacheVars
  <2>1. /\ phase = "save" /\ pos <= Len(data)
        /\ WriteMovie(BaseText(t))
    BY <1>2, BasicData DEF Basic!SaveRow
  <2>2. UseCache(t)
    BY <1>2 DEF UseCache, Dispatch
  <2>3. Served(t) = BaseText(t)
    BY <1>2 DEF Served
  <2>. QED  BY <2>1, <2>2, <2>3
<1>3. CASE config = "INDIVIDUAL_CACHE" /\ Cached!SaveRow
  <2>1. /\ phase = "save" /\ pos <= Len(data)
        /\ Cached!UseCache(t)
        /\ IF fault' THEN UNCHANGED dataVars ELSE Cached!WriteMovie(Cached!Served(t))
    BY <1>3 DEF Cached!SaveRow, Cached!dataVars, dataVars
  <2>2. UseCache(t) /\ Served(t) = Cached!Served(t)
    BY <1>3, <2>1 DEF UseCache, Dispatch, Served
  <2>. QED  BY <2>1, <2>2, CachedData
<1>4. CASE config = "PAGED_CACHE" /\ Paged!SaveRow
  <2>1. /\ phase = "save" /\ pos <= Len(data)
        /\ Paged!UseCache(t)
        /\ IF fault' THEN UNCHANGED dataVars ELSE Paged!WriteMovie(Paged!Served(t))
    BY <1>4 DEF Paged!SaveRow, Paged!dataVars, dataVars
  <2>2. UseCache(t) /\ Served(t) = Paged!Served(t)
    BY <1>4, <2>1 DEF UseCache, Dispatch, Served
  <2>. QED  BY <2>1, <2>2, PagedData
<1>. QED  BY <1>1, <1>2, <1>3, <1>4, Zenon DEF Dispatch

\* The end of that save.
LEMMA FlushSavedStep ==
  ASSUME FlushSaved
  PROVE  CloseOutput /\ UNCHANGED cacheVars
<1>1. Dispatch(Basic!SaveEnd, Cached!SaveEnd, Paged!SaveEnd)
  BY DEF FlushSaved
<1>2. CASE config = "NO_CACHE" /\ Basic!SaveEnd /\ UNCHANGED cacheVars
  BY <1>2, BasicData DEF Basic!SaveEnd
<1>3. CASE config = "INDIVIDUAL_CACHE" /\ Cached!SaveEnd
  BY <1>3, CachedData DEF Cached!SaveEnd, Cached!cacheVars, cacheVars
<1>4. CASE config = "PAGED_CACHE" /\ Paged!SaveEnd
  BY <1>4, PagedData DEF Paged!SaveEnd, Paged!cacheVars, cacheVars
<1>. QED  BY <1>1, <1>2, <1>3, <1>4, Zenon DEF Dispatch

-----------------------------------------------------------------------------
(* The caches *)

\* What the proofs about the two catalogs say of their caches.
CachesTyped ==
  /\ config = "INDIVIDUAL_CACHE" =>
       /\ CachedIn!CacheInv
       /\ \A u \in Titles : cache[u] # NotCached => Exists(u)
  /\ config = "PAGED_CACHE" => PagedIn!CacheInv

\* The catalogs that are proved about are those the manager uses.
LEMMA CachedSame ==
  ASSUME NEW t
  PROVE  /\ Cached!UseCache(t) <=> CachedIn!UseCache(t)
         /\ Cached!Served(t) = CachedIn!Served(t)
         /\ CachedIn!BaseText(t) = BaseText(t)
         /\ CachedIn!Exists(t) <=> Exists(t)
<1>1. \A S : Cached!Cardinality(S) = CachedIn!Cardinality(S)
  BY DEF Cached!Cardinality, CachedIn!Cardinality
<1>2. /\ Cached!BaseText(t) = BaseText(t) /\ CachedIn!BaseText(t) = BaseText(t)
      /\ CachedIn!Exists(t) <=> Exists(t)
      /\ Cached!CachedTitles = CachedIn!CachedTitles
  BY DEF Cached!BaseText, Cached!IndexOf, Cached!FirstHits, Cached!csv, Cached!GetField,
         Cached!SynopsisAt, CachedIn!BaseText, CachedIn!IndexOf, CachedIn!FirstHits,
         CachedIn!csv, CachedIn!GetField, CachedIn!SynopsisAt, BaseText, IndexOf,
         FirstHits, csv, GetField, SynopsisAt, CachedIn!Exists, Exists,
         Cached!CachedTitles, CachedIn!CachedTitles
<1>3. Cached!Hit(t) <=> CachedIn!Hit(t)
  BY DEF Cached!Hit, Cached!FindsAt, Cached!RemoveAt, CachedIn!Hit, CachedIn!FindsAt,
         CachedIn!RemoveAt
<1>4. /\ Cached!LoadFree(t) <=> CachedIn!LoadFree(t)
      /\ Cached!LoadEvict(t) <=> CachedIn!LoadEvict(t)
      /\ Cached!LoadFault(t) <=> CachedIn!LoadFault(t)
  BY <1>1, <1>2 DEF Cached!LoadFree, Cached!LoadEvict, Cached!LoadFault,
                    CachedIn!LoadFree, CachedIn!LoadEvict, CachedIn!LoadFault
<1>. QED
  BY <1>2, <1>3, <1>4 DEF Cached!UseCache, CachedIn!UseCache, Cached!Served,
                          CachedIn!Served

\* The same of the paged catalog.
LEMMA PagedSame ==
  ASSUME NEW t
  PROVE  /\ Paged!UseCache(t) <=> PagedIn!UseCache(t)
         /\ Paged!Served(t) = PagedIn!Served(t)
         /\ PagedIn!BaseText(t) = BaseText(t)
         /\ PagedIn!Exists(t) <=> Exists(t)
<1>1. \A S : Paged!Cardinality(S) = PagedIn!Cardinality(S)
  BY DEF Paged!Cardinality, PagedIn!Cardinality
<1>2. /\ PagedIn!BaseText(t) = BaseText(t)
      /\ PagedIn!Exists(t) <=> Exists(t)
      /\ Paged!PageOf(t) = PagedIn!PageOf(t)
      /\ Paged!PageText(t) = PagedIn!PageText(t)
      /\ Paged!OnPage(t) <=> PagedIn!OnPage(t)
      /\ Paged!Served(t) = PagedIn!Served(t)
  BY DEF Paged!BaseText, Paged!IndexOf, Paged!FirstHits, Paged!csv, Paged!GetField,
         Paged!SynopsisAt, PagedIn!BaseText, PagedIn!IndexOf, PagedIn!FirstHits,
         PagedIn!csv, PagedIn!GetField, PagedIn!SynopsisAt, BaseText, IndexOf,
         FirstHits, csv, GetField, SynopsisAt, PagedIn!Exists, Exists,
         Paged!PageOf, Paged!PageAt, Paged!PageText, Paged!ParsedField,
         Paged!LastHits, Paged!OnPage, Paged!CachedPages, Paged!Served,
         PagedIn!PageOf, PagedIn!PageAt, PagedIn!PageText, PagedIn!ParsedField,
         PagedIn!LastHits, PagedIn!OnPage, PagedIn!CachedPages, PagedIn!Served
<1>3. ASSUME NEW p
      PROVE  Paged!ReadPage(p) = PagedIn!ReadPage(p)
  BY DEF Paged!ReadPage, Paged!TitlesOf, Paged!PageAt, Paged!PageText,
         Paged!ParsedField, Paged!LastHits, Paged!BaseText, Paged!IndexOf,
         Paged!FirstHits, Paged!csv, Paged!GetField, Paged!SynopsisAt,
         PagedIn!ReadPage, PagedIn!TitlesOf, PagedIn!PageAt, PagedIn!PageText,
         PagedIn!ParsedField, PagedIn!LastHits, PagedIn!BaseText, PagedIn!IndexOf,
         PagedIn!FirstHits, PagedIn!csv, PagedIn!GetField, PagedIn!SynopsisAt
<1>4. ASSUME NEW p, NEW rest, NEW broken
      PROVE  Paged!LoadPage(p, rest, broken) <=> PagedIn!LoadPage(p, rest, broken)
  BY <1>1, <1>3 DEF Paged!LoadPage, Paged!Insert, Paged!CachedPages,
                    PagedIn!LoadPage, PagedIn!Insert, PagedIn!CachedPages
<1>5. Paged!Hit(t) <=> PagedIn!Hit(t)
  BY <1>2 DEF Paged!Hit, Paged!FindsAt, Paged!RemoveAt,
              PagedIn!Hit, PagedIn!FindsAt, PagedIn!RemoveAt
<1>6. Paged!Reload(t) <=> PagedIn!Reload(t)
  BY <1>2, <1>4 DEF Paged!Reload, Paged!FindsAt, Paged!RemoveAt, Paged!CachedPages,
                    PagedIn!Reload, PagedIn!FindsAt, PagedIn!RemoveAt,
                    PagedIn!CachedPages
<1>7. Paged!Fetch(t) <=> PagedIn!Fetch(t)
  BY <1>2, <1>4 DEF Paged!Fetch, Paged!CachedPages, PagedIn!Fetch, PagedIn!CachedPages
<1>. QED
  BY <1>2, <1>5, <1>6, <1>7 DEF Paged!UseCache, PagedIn!UseCache

\* The invariant of the data is one and the same.
LEMMA DataInvSame == (CachedIn!DataInv <=> DataInv) /\ (PagedIn!DataInv <=> DataInv)
BY DEF CachedIn!DataInv, CachedIn!DataTypeOK, CachedIn!UniqueTitles,
       CachedIn!LazyRowsPresent, CachedIn!SavePrefix, CachedIn!Files, CachedIn!Row,
       CachedIn!Movie, CachedIn!csv, CachedIn!FirstHits,
       PagedIn!DataInv, PagedIn!DataTypeOK, PagedIn!UniqueTitles,
       PagedIn!LazyRowsPresent, PagedIn!SavePrefix, PagedIn!Files, PagedIn!Row,
       PagedIn!Movie, PagedIn!csv, PagedIn!FirstHits,
       DataInv, DataTypeOK, UniqueTitles, LazyRowsPresent, SavePrefix, Files, Row,
       Movie, csv, FirstHits

\* The lemmas about the caches, under this module's assumptions.
LEMMA CachedUses ==
  ASSUME CachedIn!CacheInv, NEW t \in Titles, CachedIn!BaseText(t) \in Synopses,
         CachedIn!UseCache(t)
  PROVE  /\ CachedIn!CacheInv'
         /\ \A u \in Titles : cache'[u] # NotCached => cache[u] # NotCached \/ u = t
BY CachedIn!UseCacheInv, EmptyAssumption, FromCsvAssumption, InitialCsvAssumption,
   ClientAssumption, CatalogAssumption
   DEF CachedIn!Row, Row, CachedIn!Files, Files, CachedIn!IsFiniteSet, IsFiniteSet

\* A cache that is left alone.
LEMMA CachedRests ==
  ASSUME CachedIn!CacheInv, UNCHANGED CachedIn!cacheVars
  PROVE  CachedIn!CacheInv'
BY CachedIn!UnchangedCache, EmptyAssumption, FromCsvAssumption, InitialCsvAssumption,
   ClientAssumption, CatalogAssumption
   DEF CachedIn!Row, Row, CachedIn!Files, Files, CachedIn!IsFiniteSet, IsFiniteSet

\* A read through the pages.
LEMMA PagedUses ==
  ASSUME PagedIn!IInv, NEW t, PagedIn!Exists(t), PagedIn!UseCache(t)
  PROVE  PagedIn!CacheInv'
BY PagedIn!UseCacheInv, EmptyAssumption, FromCsvAssumption, InitialCsvAssumption,
   ClientAssumption, CatalogAssumption
   DEF PagedIn!Row, Row, PagedIn!Files, Files

\* Pages that are left alone.
LEMMA PagedRests ==
  ASSUME PagedIn!CacheInv, UNCHANGED PagedIn!cacheVars
  PROVE  PagedIn!CacheInv'
BY PagedIn!UnchangedCache, EmptyAssumption, FromCsvAssumption, InitialCsvAssumption,
   ClientAssumption, CatalogAssumption
   DEF PagedIn!Row, Row, PagedIn!Files, Files

\* What is served from the pages is a text.
LEMMA PagedAnswers ==
  ASSUME PagedIn!IInv, NEW t, PagedIn!Exists(t)
  PROVE  PagedIn!Served(t) \in Synopses
BY PagedIn!ServedType, EmptyAssumption, FromCsvAssumption, InitialCsvAssumption,
   ClientAssumption, CatalogAssumption
   DEF PagedIn!Row, Row, PagedIn!Files, Files

-----------------------------------------------------------------------------
(* The state between and inside the calls *)

\* A read through the cache of any class: the cache stays what it is, and the
\* text served is a text.
LEMMA ReadKeeps ==
  ASSUME DataInv, CachesTyped, config \in Configs, NEW t \in Titles, Exists(t),
         UseCache(t), config' = config, \A u : Exists(u) => Exists(u)'
  PROVE  CachesTyped' /\ Served(t) \in Synopses
<1>1. BaseText(t) \in Synopses
  BY MovieOf DEF DataInv
<1>2. CASE config = "NO_CACHE"
  BY <1>1, <1>2 DEF CachesTyped, Served
<1>3. CASE config = "INDIVIDUAL_CACHE"
  <2>1. Cached!UseCache(t)
    BY <1>3 DEF UseCache, Dispatch
  <2>2. CachedIn!CacheInv /\ CachedIn!BaseText(t) \in Synopses /\ CachedIn!UseCache(t)
    BY <1>1, <1>3, <2>1, CachedSame DEF CachesTyped
  <2>3. /\ CachedIn!CacheInv'
        /\ \A u \in Titles : cache'[u] # NotCached => cache[u] # NotCached \/ u = t
    BY <2>2, CachedUses
  <2>4. \A u \in Titles : cache'[u] # NotCached => Exists(u)'
    BY <1>3, <2>3 DEF CachesTyped
  <2>5. Served(t) \in Synopses
    BY <1>1, <1>3, <2>2 DEF Served, Cached!Served, Cached!BaseText, Cached!IndexOf,
       Cached!FirstHits, Cached!csv, Cached!GetField, Cached!SynopsisAt, BaseText,
       IndexOf, FirstHits, csv, GetField, SynopsisAt, CachedIn!CacheInv,
       CachedIn!CacheTypeOK
  <2>. QED  BY <1>3, <2>3, <2>4, <2>5 DEF CachesTyped
<1>4. CASE config = "PAGED_CACHE"
  <2>1. Paged!UseCache(t)
    BY <1>4 DEF UseCache, Dispatch
  <2>2. PagedIn!IInv /\ PagedIn!Exists(t) /\ PagedIn!UseCache(t)
    BY <1>4, <2>1, PagedSame, DataInvSame DEF CachesTyped, PagedIn!IInv
  <2>3. PagedIn!CacheInv'
    BY <2>2, PagedUses
  <2>4. Served(t) \in Synopses
    BY <1>4, <2>2, PagedAnswers, PagedSame DEF Served
  <2>. QED  BY <1>4, <2>3, <2>4 DEF CachesTyped
<1>. QED  BY <1>2, <1>3, <1>4, ConfigsAssumption

\* A step that leaves the cache alone and loses no movie.
LEMMA CacheKept ==
  ASSUME CachesTyped, UNCHANGED cacheVars, config' = config,
         \A u : Exists(u) => Exists(u)'
  PROVE  CachesTyped'
<1>1. UNCHANGED CachedIn!cacheVars /\ UNCHANGED PagedIn!cacheVars
  BY DEF cacheVars, CachedIn!cacheVars, PagedIn!cacheVars
<1>2. config = "INDIVIDUAL_CACHE" => CachedIn!CacheInv'
  BY <1>1, CachedRests DEF CachesTyped
<1>3. config = "PAGED_CACHE" => PagedIn!CacheInv'
  BY <1>1, PagedRests DEF CachesTyped
<1>. QED  BY <1>2, <1>3 DEF CachesTyped, cacheVars

\* The cache of a catalog that was just built.
FreshCache ==
  /\ cache = EmptyCache(config)
  /\ order = <<>>
  /\ cacheSize \in CacheSizes
  /\ fault = FALSE

\* It is what the proofs about the caches start from.
LEMMA FreshTyped == FreshCache => CachesTyped
<1>. SUFFICES ASSUME FreshCache PROVE CachesTyped
  OBVIOUS
<1>1. fault = FALSE /\ fault \in BOOLEAN /\ ~ fault
  BY Zenon DEF FreshCache
<1>2. ASSUME config = "INDIVIDUAL_CACHE"
      PROVE  CachedIn!CacheInv /\ \A u \in Titles : cache[u] = NotCached
  <2>1. cache = [u \in Titles |-> NotCached] /\ order = <<>> /\ cacheSize \in CacheSizes
    BY <1>2 DEF FreshCache, EmptyCache
  <2>2. CachedIn!CacheTypeOK
    BY <1>1, <2>1 DEF CachedIn!CacheTypeOK
  <2>3. CachedIn!CachedInOrder /\ CachedIn!FaultOnlyWhenZero
    BY <1>1, <2>1 DEF CachedIn!CachedInOrder, CachedIn!CachedTitles,
                      CachedIn!FaultOnlyWhenZero
  <2>. QED  BY <2>1, <2>2, <2>3 DEF CachedIn!CacheInv
<1>3. ASSUME config = "PAGED_CACHE"
      PROVE  PagedIn!CacheInv
  <2>1. cache = <<>> /\ order = <<>> /\ cacheSize \in CacheSizes
    BY <1>3 DEF FreshCache, EmptyCache
  <2>2. PagedIn!CachedPages = {} /\ DOMAIN <<>> = {} /\ <<>> \in Seq({})
    BY <2>1 DEF PagedIn!CachedPages
  <2>3. PagedIn!IsListing(order, PagedIn!CachedPages)
    BY <2>1, <2>2 DEF PagedIn!IsListing
  <2>4. PagedIn!WithinCapacity
    <3>1. PagedIn!Cardinality({}) = Cardinality({})
      BY DEF PagedIn!Cardinality, Cardinality
    <3>. QED  BY <2>1, <2>2, <3>1, FS_EmptySet, CatalogAssumption DEF PagedIn!WithinCapacity
  <2>5. PagedIn!PageTexts /\ PagedIn!CachedPages \subseteq Nat /\ PagedIn!FaultOnlyWhenZero
    BY <1>1, <2>2 DEF PagedIn!PageTexts, PagedIn!FaultOnlyWhenZero
  <2>. QED  BY <1>1, <2>1, <2>3, <2>4, <2>5 DEF PagedIn!CacheInv
<1>. QED  BY <1>2, <1>3 DEF CachesTyped

\* And after the step that builds it.
LEMMA FreshTypedNext == FreshCache' => CachesTyped'
BY FreshTyped, PTL

\* No movie of a catalog without a cache has left its text on disk.
NoLazy == config = "NO_CACHE" => \A i \in DOMAIN data : data[i].base # FromCsv

\* What runs when.
Stages ==
  /\ target = "own"
  /\ phase = "idle" => pos = 1
  /\ job = "none" => phase \in {"load", "idle"}
  /\ job = "reindex_all" => phase = "idle"
  /\ job = "flush" => phase \in {"save", "idle"}
  /\ job # "reindex_all" => indexed = 0

\* The manager's own variables.
ManagerTypes ==
  /\ config \in Configs
  /\ IndexTypeOK
  /\ job \in {"none", "reindex_all", "flush"}
  /\ indexed \in 0 .. Len(data)
  /\ unsynced \subseteq Titles
  /\ unsyncedOnDisk \subseteq Titles
  /\ torn \in BOOLEAN
  /\ tornOnDisk \in BOOLEAN

StateInv == DataInv /\ CachesTyped /\ NoLazy /\ Stages /\ ManagerTypes

\* A document is one, and a database with one more or one less is a database.
LEMMA IndexTypes ==
  ASSUME IndexTypeOK, NEW t \in Titles, NEW text \in Synopses
  PROVE  /\ IndexAdd(t, text) => IndexTypeOK'
         /\ IndexRemove(t) => IndexTypeOK'
         /\ IndexEdit(t, t, text) => IndexTypeOK'
         /\ IndexEdit(t, t, text) <=> IndexAdd(t, text)
<1>1. Doc(t, text) \in Document /\ Slug[t] \in Slugs
  BY SlugAssumption DEF Doc, Document
<1>2. /\ [index EXCEPT ![Slug[t]] = Doc(t, text)] \in [Slugs -> Document \cup {NoDoc}]
      /\ [index EXCEPT ![Slug[t]] = NoDoc] \in [Slugs -> Document \cup {NoDoc}]
      /\ [index EXCEPT ![Slug[t]] = NoDoc, ![Slug[t]] = Doc(t, text)]
           = [index EXCEPT ![Slug[t]] = Doc(t, text)]
  <2>. DEFINE d == Doc(t, text)
  <2>. HIDE DEF d
  <2>1. d \in Document /\ index \in [Slugs -> Document \cup {NoDoc}]
    BY <1>1 DEF d, IndexTypeOK
  <2>2. /\ [index EXCEPT ![Slug[t]] = d] \in [Slugs -> Document \cup {NoDoc}]
        /\ [index EXCEPT ![Slug[t]] = NoDoc] \in [Slugs -> Document \cup {NoDoc}]
        /\ [index EXCEPT ![Slug[t]] = NoDoc, ![Slug[t]] = d]
             = [index EXCEPT ![Slug[t]] = d]
    BY <1>1, <2>1
  <2>. QED  BY <2>2 DEF d
<1>. QED  BY <1>2 DEF IndexAdd, IndexRemove, IndexEdit, IndexTypeOK

\* A new manager, whatever file the catalog is built from.
LEMMA RebornState ==
  ASSUME StateInv, NEW isTorn \in BOOLEAN, Reborn(isTorn),
         DataInv', data' = <<>>, phase' = "load", target' = "own"
  PROVE  StateInv'
<1>1. FreshCache'
  BY DEF Reborn, FreshCache, EmptyCache
<1>2. CachesTyped'
  BY <1>1, FreshTypedNext
<1>3. NoLazy' /\ Stages'
  BY DEF Reborn, NoLazy, Stages
<1>4. ManagerTypes'
  <2>1. IndexTypeOK' /\ config' \in Configs
    BY DEF Reborn, IndexReopen, IndexTypeOK, StateInv, ManagerTypes
  <2>2. unsynced' \subseteq Titles /\ unsyncedOnDisk' \subseteq Titles
    BY DEF Reborn, StateInv, ManagerTypes
  <2>3. torn' \in BOOLEAN /\ tornOnDisk' \in BOOLEAN
    BY Zenon DEF Reborn
  <2>4. job' = "none" /\ indexed' = 0 /\ Len(data') = 0
    BY DEF Reborn
  <2>. QED  BY <2>1, <2>2, <2>3, <2>4 DEF ManagerTypes
<1>. QED  BY <1>2, <1>3, <1>4 DEF StateInv

\* The first program.
LEMMA InitState == Init => StateInv
<1>. SUFFICES ASSUME Init PROVE StateInv
  OBVIOUS
<1>1. FreshCache
  BY Zenon DEF Init, FreshCache
<1>2. DataInv
  BY DataInitInv DEF Init
<1>3. NoLazy /\ Stages
  BY DEF Init, DataInit, NoLazy, Stages
<1>4. torn \in BOOLEAN /\ tornOnDisk \in BOOLEAN
  BY Zenon DEF Init
<1>5. ManagerTypes
  BY <1>4 DEF Init, DataInit, IndexInit, IndexTypeOK, ManagerTypes
<1>. QED  BY <1>1, <1>2, <1>3, <1>5, FreshTyped DEF StateInv

\* The movie a job is at.
LEMMA MovieAt ==
  ASSUME DataInv, NEW i \in 1 .. Len(data)
  PROVE  i \in DOMAIN data /\ data[i].title \in Titles /\ Exists(data[i].title)
<1>1. data \in Seq(Movie)
  BY DEF DataInv, DataTypeOK
<1>2. i \in DOMAIN data /\ data[i] \in Movie
  BY <1>1
<1>. QED  BY <1>2 DEF Movie, Exists

\* What a step makes of the movies and their file, that of the state before.
LEMMA DataSteps ==
  ASSUME StateInv, Next
  PROVE  DataInv'
<1>. USE DEF StateInv
<1>1. CASE Load
  <2>1. csv \in Seq(Row)
    BY DEF DataInv, DataTypeOK, csv, Files
  <2>2. CASE LoadDone
    BY <2>2, LoadDoneInv
  <2>3. ASSUME NEW base \in {FromCsv, csv[pos].synopsis}, LoadMovie(base)
        PROVE  DataInv'
    <3>1. pos \in DOMAIN csv
      BY <2>1, <2>3 DEF LoadMovie, DataInv, DataTypeOK
    <3>2. csv[pos] \in Row
      BY <2>1, <3>1
    <3>3. base \in Synopses \cup {FromCsv}
      BY <3>2 DEF Row
    <3>. QED  BY <2>3, <3>3, LoadInv
  <2>. QED  BY <1>1, <2>2, <2>3, LoadStep
<1>2. ASSUME NEW t \in Titles, NEW s \in Synopses, AddMovie(t, s)
      PROVE  DataInv'
  BY <1>2, AddStep, AddInv
<1>3. ASSUME NEW t \in Titles, NEW s \in Synopses, EditMovie(t, s)
      PROVE  DataInv'
  BY <1>3, EditStep, SetInv
<1>4. ASSUME NEW t \in Titles, RemoveMovie(t)
      PROVE  DataInv'
  BY <1>4, RemoveStep, RemoveInv
<1>5. CASE \/ \E t \in Titles : ReadMovie(t) \/ Reindex(t)
           \/ ReindexAll \/ ReindexAllMovie \/ ReindexAllEnd \/ FlushCommit
  <2>1. UNCHANGED dataVars
    BY <1>5 DEF ReadMovie, Reindex, ReindexAll, ReindexAllMovie, ReindexAllEnd,
                FlushCommit
  <2>. QED  BY <2>1 DEF dataVars, DataInv, DataTypeOK, UniqueTitles,
                        LazyRowsPresent, SavePrefix, csv
<1>6. CASE Flush
  BY <1>6, FlushStep, OpenInv DEF Files
<1>7. CASE FlushRow
  <2> DEFINE t == data[pos].title
  <2>1. /\ phase = "save" /\ pos <= Len(data)
        /\ UseCache(t)
        /\ WriteMovie(Served(t)) \/ UNCHANGED dataVars
    BY <1>7, FlushRowStep
  <2>2. t \in Titles /\ Exists(t)
    <3>1. pos \in 1 .. Len(data)
      BY <2>1 DEF DataInv, DataTypeOK
    <3>. QED  BY <3>1, MovieAt
  <2>3. CASE UNCHANGED dataVars
    BY <2>3 DEF dataVars, DataInv, DataTypeOK, UniqueTitles,
                LazyRowsPresent, SavePrefix, csv
  <2>4. CASE WriteMovie(Served(t))
    <3>1. config' = config /\ data' = data
      BY <1>7, <2>4 DEF FlushRow, WriteMovie
    <3>2. \A u : Exists(u) => Exists(u)'
      BY <3>1 DEF Exists
    <3>3. Served(t) \in Synopses
      BY <2>1, <2>2, <3>1, <3>2, ReadKeeps DEF ManagerTypes
    <3>. QED  BY <2>1, <2>4, <3>3, WriteInv
  <2>. QED  BY <2>1, <2>3, <2>4
<1>8. CASE FlushSaved
  BY <1>8, FlushSavedStep, CloseInv
<1>9. CASE Crash
  BY <1>9, ReopenInv DEF Crash
<1>10. ASSUME NEW t \in Titles, CrashInEdit(t)
       PROVE  DataInv'
  <2>1. /\ file' = [file EXCEPT !["own"] = <<>>]
        /\ data' = <<>> /\ phase' = "load"
        /\ UNCHANGED <<pos, target>>
    BY <1>10 DEF CrashInEdit
  <2>2. DataTypeOK'
    BY <2>1 DEF DataInv, DataTypeOK, Files
  <2>. QED  BY <2>1, <2>2 DEF DataInv, UniqueTitles, LazyRowsPresent, SavePrefix
<1>. QED
  BY <1>1, <1>2, <1>3, <1>4, <1>5, <1>6, <1>7, <1>8, <1>9, <1>10 DEF Next

\* The movies each operation leaves are those it found, but for those the
\* client adds or removes.
LEMMA SameMovies ==
  ASSUME data' = data
  PROVE  \A u : Exists(u)' <=> Exists(u)
BY DEF Exists

\* The invariant of the state, one step per action.
LEMMA StateNext == StateInv /\ [Next]_vars => StateInv'
<1>. SUFFICES ASSUME StateInv, [Next]_vars PROVE StateInv'
  OBVIOUS
<1>. USE DEF StateInv
<1>0. data \in Seq(Movie) /\ Len(data) \in Nat /\ indexed \in 0 .. Len(data)
  BY DEF DataInv, DataTypeOK, ManagerTypes
<1>1. CASE Load
  <2>1. /\ UNCHANGED cacheVars
        /\ UNCHANGED <<config, indexVars, jobVars, history>>
        /\ phase = "load" /\ phase' \in {"load", "idle"} /\ target' = target
        /\ phase' = "idle" => pos' = 1
    BY <1>1, LoadStep DEF LoadMovie, LoadDone
  <2>2. job = "none"
    BY <2>1 DEF Stages, ManagerTypes
  <2>3. CASE LoadDone
    <3>1. data' = data
      BY <2>3 DEF LoadDone
    <3>2. CachesTyped'
      BY <2>1, <3>1, CacheKept, SameMovies
    <3>3. DataInv'
      BY <2>3, LoadDoneInv
    <3>. QED
      BY <2>1, <2>2, <3>1, <3>2, <3>3
         DEF NoLazy, Stages, ManagerTypes, IndexTypeOK, indexVars, jobVars, history
  <2>4. ASSUME NEW base \in {FromCsv, csv[pos].synopsis}, LoadMovie(base),
               config = "NO_CACHE" => base = csv[pos].synopsis
        PROVE  StateInv'
    <3> DEFINE t == csv[pos].title
    <3>1. /\ csv \in Seq(Row) /\ pos \in Nat \ {0} /\ pos <= Len(csv)
          /\ PushMovie(t, base)
      BY <2>4 DEF LoadMovie, DataInv, DataTypeOK, csv, Files
    <3>2. csv[pos] \in Row
      BY <3>1
    <3>3. /\ t \in Titles
          /\ base \in Synopses \cup {FromCsv}
          /\ config = "NO_CACHE" => base \in Synopses
      BY <2>4, <3>2 DEF Row
    <3>4. /\ data' \in Seq(Movie)
          /\ \A j \in DOMAIN data' :
               \/ \E i \in DOMAIN data : data'[j] = data[i]
               \/ data'[j] = [title |-> t, base |-> base]
      BY <3>1, <3>3, PushMovieData DEF DataInv
    <3>5. DataInv' /\ \A u : Exists(u) => Exists(u)'
      BY <2>4, <3>3, LoadInv
    <3>6. CachesTyped'
      BY <2>1, <3>5, CacheKept
    <3>7. NoLazy'
      <4>. SUFFICES ASSUME config = "NO_CACHE", NEW j \in DOMAIN data'
                    PROVE  data'[j].base # FromCsv
        BY <2>1 DEF NoLazy
      <4>. QED  BY <3>3, <3>4, FromCsvAssumption DEF NoLazy
    <3>8. indexed = 0 /\ Len(data') \in Nat
      BY <2>2, <3>4 DEF Stages
    <3>. QED
      BY <2>1, <2>2, <3>5, <3>6, <3>7, <3>8
         DEF Stages, ManagerTypes, IndexTypeOK, indexVars, jobVars, history
  <2>. QED  BY <1>1, <2>3, <2>4, LoadStep
<1>2. ASSUME NEW t \in Titles, NEW s \in Synopses, AddMovie(t, s)
      PROVE  StateInv'
  <2>1. /\ phase = "idle" /\ job = "none"
        /\ PushMovie(t, s)
        /\ UNCHANGED <<file, phase, pos, target>>
        /\ UNCHANGED cacheVars
    BY <1>2, AddStep
  <2>2. /\ IndexAdd(t, s)
        /\ UNCHANGED <<config, jobVars, unsyncedOnDisk, torn, tornOnDisk>>
        /\ unsynced' \subseteq Titles
    BY <1>2 DEF AddMovie, Sharing, ManagerTypes
  <2>3. /\ data' \in Seq(Movie)
        /\ \A j \in DOMAIN data' :
             \/ \E i \in DOMAIN data : data'[j] = data[i]
             \/ data'[j] = [title |-> t, base |-> s]
    BY <2>1, PushMovieData DEF DataInv
  <2>4. DataInv' /\ \A u : Exists(u) => Exists(u)'
    BY <2>1, AddInv
  <2>5. CachesTyped'
    BY <2>1, <2>2, <2>4, CacheKept
  <2>6. NoLazy'
    <3>. SUFFICES ASSUME config = "NO_CACHE", NEW j \in DOMAIN data'
                  PROVE  data'[j].base # FromCsv
      BY <2>2 DEF NoLazy
    <3>. QED  BY <2>3, FromCsvAssumption DEF NoLazy
  <2>7. IndexTypeOK' /\ indexed = 0 /\ Len(data') \in Nat
    BY <2>1, <2>2, <2>3, IndexTypes DEF Stages, ManagerTypes
  <2>. QED
    BY <2>1, <2>2, <2>4, <2>5, <2>6, <2>7 DEF Stages, ManagerTypes, jobVars
<1>3. ASSUME NEW t \in Titles, NEW s \in Synopses, EditMovie(t, s)
      PROVE  StateInv'
  <2>1. /\ phase = "idle" /\ job = "none" /\ Exists(t)
        /\ SetBase(t, s)
        /\ UNCHANGED <<phase, pos, target>>
        /\ UNCHANGED cacheVars
    BY <1>3, EditStep
  <2>2. /\ UNCHANGED <<config, indexVars, jobVars, torn, tornOnDisk>>
        /\ unsynced' \subseteq Titles
        /\ unsyncedOnDisk' \subseteq Titles
    BY <1>3 DEF EditMovie, ManagerTypes
  <2>3. /\ data' \in Seq(Movie)
        /\ DOMAIN data' = DOMAIN data
        /\ \A i \in DOMAIN data : data'[i].base = FromCsv => data[i].base = FromCsv
    BY <2>1, SetBaseData DEF DataInv
  <2>4. DataInv' /\ \A u : Exists(u) => Exists(u)'
    BY <2>1, SetInv
  <2>5. CachesTyped'
    BY <2>1, <2>2, <2>4, CacheKept
  <2>6. NoLazy'
    BY <2>2, <2>3 DEF NoLazy
  <2>7. indexed = 0 /\ Len(data') \in Nat
    BY <2>1, <2>3 DEF Stages
  <2>. QED
    BY <2>1, <2>2, <2>4, <2>5, <2>6, <2>7
       DEF Stages, ManagerTypes, IndexTypeOK, indexVars, jobVars
<1>4. ASSUME NEW t \in Titles, RemoveMovie(t)
      PROVE  StateInv'
  <2>1. /\ phase = "idle" /\ job = "none"
        /\ EraseMovie(t)
        /\ UNCHANGED <<file, phase, pos, target>>
        /\ UNCHANGED <<order, cacheSize, fault>>
        /\ cache' = IF config = "INDIVIDUAL_CACHE"
                    THEN [cache EXCEPT ![t] = NotCached] ELSE cache
    BY <1>4, RemoveStep
  <2>2. /\ IndexRemove(t)
        /\ UNCHANGED <<config, jobVars, unsyncedOnDisk, torn, tornOnDisk>>
        /\ unsynced' \subseteq Titles
    BY <1>4 DEF RemoveMovie, Sharing, ManagerTypes
  <2>3. /\ data' \in Seq(Movie)
        /\ \A j \in DOMAIN data' : \E i \in DOMAIN data : data'[j] = data[i]
    BY <2>1, EraseMovieData DEF DataInv
  <2>4. DataInv' /\ \A u : Exists(u)' <=> Exists(u) /\ u # t
    BY <2>1, RemoveInv
  <2>5. CachesTyped'
    <3>1. CASE config = "INDIVIDUAL_CACHE"
      <4>1. /\ cache \in [Titles -> Synopses \cup {NotCached}]
            /\ cache' = [cache EXCEPT ![t] = NotCached]
            /\ UNCHANGED <<order, cacheSize, fault>>
        BY <2>1, <3>1 DEF CachesTyped, CachedIn!CacheInv, CachedIn!CacheTypeOK
      <4>2. CachedIn!CacheTypeOK'
        BY <3>1, <4>1 DEF CachesTyped, CachedIn!CacheInv, CachedIn!CacheTypeOK
      <4>3. \A u \in Titles : cache'[u] # NotCached => u # t /\ cache[u] # NotCached
        BY <4>1
      <4>4. CachedIn!CachedInOrder' /\ CachedIn!FaultOnlyWhenZero'
        BY <3>1, <4>1, <4>3
           DEF CachesTyped, CachedIn!CacheInv, CachedIn!CachedInOrder,
               CachedIn!CachedTitles, CachedIn!FaultOnlyWhenZero
      <4>5. \A u \in Titles : cache'[u] # NotCached => Exists(u)'
        BY <2>4, <3>1, <4>3 DEF CachesTyped
      <4>. QED  BY <2>2, <3>1, <4>2, <4>4, <4>5 DEF CachesTyped, CachedIn!CacheInv
    <3>2. CASE config # "INDIVIDUAL_CACHE"
      <4>1. UNCHANGED PagedIn!cacheVars
        BY <2>1, <3>2 DEF PagedIn!cacheVars
      <4>2. config = "PAGED_CACHE" => PagedIn!CacheInv'
        BY <4>1, PagedRests DEF CachesTyped
      <4>. QED  BY <2>2, <3>2, <4>2 DEF CachesTyped
    <3>. QED  BY <3>1, <3>2
  <2>6. NoLazy'
    BY <2>2, <2>3 DEF NoLazy
  <2>7. IndexTypeOK' /\ indexed = 0 /\ Len(data') \in Nat
    BY <2>1, <2>2, <2>3, IndexTypes, EmptyAssumption DEF Stages, ManagerTypes
  <2>. QED
    BY <2>1, <2>2, <2>4, <2>5, <2>6, <2>7 DEF Stages, ManagerTypes, jobVars
<1>5. ASSUME NEW t \in Titles, ReadMovie(t) \/ Reindex(t)
      PROVE  StateInv'
  <2>1. /\ Exists(t) /\ UseCache(t)
        /\ UNCHANGED dataVars /\ UNCHANGED <<config, jobVars>>
        /\ UNCHANGED <<unsyncedOnDisk, torn, tornOnDisk>>
    BY <1>5 DEF ReadMovie, Reindex, history
  <2>2. DataInv' /\ \A u : Exists(u)' <=> Exists(u)
    BY <2>1 DEF dataVars, DataInv, DataTypeOK, UniqueTitles, LazyRowsPresent,
                SavePrefix, csv, Exists
  <2>3. CachesTyped' /\ Served(t) \in Synopses
    BY <2>1, <2>2, ReadKeeps DEF ManagerTypes
  <2>4. IndexTypeOK' /\ unsynced' \subseteq Titles
    <3>1. CASE ReadMovie(t)
      BY <3>1 DEF ReadMovie, ManagerTypes, IndexTypeOK, indexVars, history
    <3>2. CASE Reindex(t)
      <4>1. IndexEdit(t, t, Served(t)) /\ NowIndexed(t)
        BY <3>2 DEF Reindex
      <4>2. IndexTypeOK'
        BY <2>3, <4>1, IndexTypes DEF ManagerTypes
      <4>. QED  BY <4>1, <4>2 DEF NowIndexed, Sharing, ManagerTypes
    <3>. QED  BY <1>5, <3>1, <3>2
  <2>. QED
    BY <2>1, <2>2, <2>3, <2>4 DEF dataVars, NoLazy, Stages, ManagerTypes, jobVars
<1>6. CASE ReindexAll
  <2>1. /\ phase = "idle" /\ job = "none"
        /\ index' = [k \in Slugs |-> NoDoc] /\ stored' = stored
        /\ job' = "reindex_all" /\ indexed' = 0
        /\ UNCHANGED dataVars /\ UNCHANGED <<config, cacheVars>>
        /\ UNCHANGED <<unsynced, unsyncedOnDisk, torn, tornOnDisk>>
    BY <1>6 DEF ReindexAll, Ready, IndexClear, history
  <2>2. DataInv' /\ \A u : Exists(u)' <=> Exists(u)
    BY <2>1 DEF dataVars, DataInv, DataTypeOK, UniqueTitles, LazyRowsPresent,
                SavePrefix, csv, Exists
  <2>3. CachesTyped'
    BY <2>1, <2>2, CacheKept
  <2>. QED
    BY <1>0, <2>1, <2>2, <2>3 DEF dataVars, NoLazy, Stages, ManagerTypes, IndexTypeOK
<1>7. CASE ReindexAllMovie
  <2> DEFINE t == data[indexed + 1].title
  <2>1. /\ job = "reindex_all" /\ indexed < Len(data) /\ indexed' = indexed + 1
        /\ UseCache(t) /\ IndexAdd(t, Served(t)) /\ NowIndexed(t)
        /\ UNCHANGED dataVars /\ UNCHANGED <<config, job>>
        /\ UNCHANGED <<unsyncedOnDisk, torn, tornOnDisk>>
    BY <1>7 DEF ReindexAllMovie
  <2>2. DataInv' /\ \A u : Exists(u)' <=> Exists(u)
    BY <2>1 DEF dataVars, DataInv, DataTypeOK, UniqueTitles, LazyRowsPresent,
                SavePrefix, csv, Exists
  <2>3. t \in Titles /\ Exists(t)
    <3>1. indexed + 1 \in 1 .. Len(data)
      BY <1>0, <2>1
    <3>. QED  BY <3>1, MovieAt
  <2>. HIDE DEF t
  <2>4. CachesTyped' /\ Served(t) \in Synopses
    BY <2>1, <2>2, <2>3, ReadKeeps DEF ManagerTypes
  <2>5. IndexTypeOK' /\ unsynced' \subseteq Titles
    BY <2>1, <2>3, <2>4, IndexTypes DEF NowIndexed, Sharing, ManagerTypes
  <2>. QED
    BY <1>0, <2>1, <2>2, <2>4, <2>5 DEF dataVars, NoLazy, Stages, ManagerTypes
<1>8. CASE ReindexAllEnd \/ FlushCommit
  <2>1. /\ job \in {"reindex_all", "flush"} /\ phase = "idle" /\ job' = "none"
        /\ IndexTypeOK' /\ indexed' = 0
        /\ UNCHANGED dataVars /\ UNCHANGED <<config, cacheVars>>
        /\ unsynced' = unsynced /\ unsyncedOnDisk' \subseteq Titles
        /\ torn' \in BOOLEAN /\ tornOnDisk' \in BOOLEAN
    BY <1>8 DEF ReindexAllEnd, FlushCommit, IndexCommit, IndexTypeOK, indexVars,
                Stages, ManagerTypes
  <2>2. DataInv' /\ \A u : Exists(u)' <=> Exists(u)
    BY <2>1 DEF dataVars, DataInv, DataTypeOK, UniqueTitles, LazyRowsPresent,
                SavePrefix, csv, Exists
  <2>3. CachesTyped'
    BY <2>1, <2>2, CacheKept
  <2>. QED
    BY <1>0, <2>1, <2>2, <2>3 DEF dataVars, NoLazy, Stages, ManagerTypes
<1>9. CASE Flush \/ FlushSaved
  <2>1. /\ UNCHANGED cacheVars /\ data' = data /\ target' = "own"
        /\ \/ Flush /\ job' = "flush" /\ phase' = "save"
           \/ FlushSaved /\ job' = job /\ job = "flush" /\ phase' = "idle" /\ pos' = 1
        /\ UNCHANGED <<config, indexed, indexVars, history>>
    BY <1>9, FlushStep, FlushSavedStep
       DEF Flush, FlushSaved, OpenOutput, CloseOutput, jobVars
  <2>2. DataInv'
    BY <1>9, DataSteps DEF Next
  <2>3. CachesTyped'
    BY <2>1, SameMovies, CacheKept
  <2>4. indexed = 0
    BY <2>1, <1>9 DEF Flush, Ready, Stages
  <2>. QED
    BY <2>1, <2>2, <2>3, <2>4
       DEF NoLazy, Stages, ManagerTypes, IndexTypeOK, indexVars, history
<1>10. CASE FlushRow
  <2> DEFINE t == data[pos].title
  <2>1. /\ phase = "save" /\ pos <= Len(data)
        /\ UseCache(t)
        /\ data' = data /\ phase' = phase /\ target' = target
        /\ job = "flush"
        /\ unsynced' = unsynced \cup LostBySaving(t)
        /\ UNCHANGED <<config, indexVars, jobVars, unsyncedOnDisk, torn, tornOnDisk>>
    BY <1>10, FlushRowStep DEF FlushRow, WriteMovie, dataVars
  <2>2. DataInv' /\ \A u : Exists(u)' <=> Exists(u)
    BY <1>10, <2>1, DataSteps, SameMovies DEF Next
  <2>3. t \in Titles /\ Exists(t)
    <3>1. pos \in 1 .. Len(data)
      BY <2>1 DEF DataInv, DataTypeOK
    <3>. QED  BY <3>1, MovieAt
  <2>. HIDE DEF t
  <2>4. CachesTyped'
    BY <2>1, <2>2, <2>3, ReadKeeps DEF ManagerTypes
  <2>5. LostBySaving(t) \subseteq Titles
    <3>1. \A p : Paged!TitlesOf(p) \subseteq Titles
      <4>1. \A i \in DOMAIN data : data[i].title \in Titles
        BY <1>0, MovieAt
      <4>. QED  BY <4>1 DEF Paged!TitlesOf
    <3>2. ReadWith(t) \subseteq Titles
      BY <2>3, <3>1, ConfigsAssumption DEF ReadWith, ManagerTypes
    <3>. QED  BY <2>3, <3>2 DEF LostBySaving
  <2>. QED
    BY <2>1, <2>2, <2>4, <2>5
       DEF NoLazy, Stages, ManagerTypes, IndexTypeOK, indexVars, jobVars
<1>11. CASE Crash
  <2>1. /\ Reopen /\ Reborn(tornOnDisk \/ job = "flush")
        /\ data' = <<>> /\ phase' = "load" /\ target' = "own"
    BY <1>11 DEF Crash, Reopen
  <2>2. DataInv'
    BY <2>1, ReopenInv
  <2>3. (tornOnDisk \/ job = "flush") \in BOOLEAN
    BY Zenon
  <2>. QED  BY <2>1, <2>2, <2>3, RebornState
<1>12. ASSUME NEW t \in Titles, CrashInEdit(t)
       PROVE  StateInv'
  <2>1. /\ Reborn(TRUE) /\ data' = <<>> /\ phase' = "load" /\ target' = "own"
    BY <1>12 DEF CrashInEdit, Stages
  <2>2. DataInv'
    BY <1>12, DataSteps DEF Next
  <2>. QED  BY <2>1, <2>2, RebornState
<1>13. CASE UNCHANGED vars
  <2>1. UNCHANGED dataVars /\ UNCHANGED <<config, cacheVars, indexVars, jobVars, history>>
    BY <1>13 DEF vars
  <2>2. DataInv' /\ \A u : Exists(u)' <=> Exists(u)
    BY <2>1 DEF dataVars, DataInv, DataTypeOK, UniqueTitles, LazyRowsPresent,
                SavePrefix, csv, Exists
  <2>3. CachesTyped'
    BY <2>1, <2>2, CacheKept
  <2>. QED
    BY <2>1, <2>2, <2>3 DEF dataVars, NoLazy, Stages, ManagerTypes, IndexTypeOK,
                            indexVars, jobVars, history
<1>. QED
  BY <1>1, <1>2, <1>3, <1>4, <1>5, <1>6, <1>7, <1>8, <1>9, <1>10, <1>11, <1>12,
     <1>13 DEF Next

\* What holds of every state the manager reaches.
THEOREM StateInvariance == Spec => []StateInv
BY InitState, StateNext, PTL DEF Spec

\* The variables have their types, with a catalog of every class, through every
\* job and crash (media_manager.cpp:20-121).
THEOREM TypesKept == Spec => []TypeOK
<1>1. StateInv => TypeOK
  <2>. SUFFICES ASSUME StateInv PROVE TypeOK
    OBVIOUS
  <2>0. DataTypeOK /\ CachesTyped /\ NoLazy /\ ManagerTypes
    BY DEF StateInv, DataInv
  <2>1. config = "INDIVIDUAL_CACHE" => Cached!TypeOK
    <3>1. Cached!DataTypeOK
      BY <2>0, CachedData
    <3>. QED  BY <2>0, <3>1 DEF CachesTyped, CachedIn!CacheInv, CachedIn!CacheTypeOK,
                                Cached!TypeOK
  <2>2. config = "PAGED_CACHE" => Paged!TypeOK
    <3>1. Paged!DataTypeOK
      BY <2>0, PagedData
    <3>2. ASSUME PagedIn!CacheInv PROVE order \in Seq(Nat)
      <4>1. /\ order \in Seq(PagedIn!CachedPages)
            /\ PagedIn!CachedPages \subseteq Nat
        BY <3>2 DEF PagedIn!CacheInv, PagedIn!IsListing
      <4>. HIDE DEF PagedIn!CachedPages
      <4>. QED  BY <4>1, SeqOfMore
    <3>. QED  BY <2>0, <3>1, <3>2 DEF CachesTyped, PagedIn!CacheInv, PagedIn!PageTexts,
                                PagedIn!CachedPages, Paged!CachedPages, Paged!TypeOK
  <2>3. config = "NO_CACHE" => Basic!TypeOK
    <3>1. Basic!DataTypeOK
      BY <2>0, BasicData
    <3>. QED  BY <2>0, <3>1 DEF NoLazy, Basic!TypeOK
  <2>. QED  BY <2>0, <2>1, <2>2, <2>3 DEF ManagerTypes, TypeOK
<1>. QED  BY <1>1, StateInvariance, PTL

-----------------------------------------------------------------------------
(* The names in the catalog, the file, the index and its copy on disk *)

MovieTitles == { data[i].title : i \in DOMAIN data }
RowTitles == { csv[i].title : i \in DOMAIN csv }
IndexedTitles == { data[i].title : i \in 1 .. indexed }

\* No other title has the term of t.
OwnTerm(t) == \A u \in Titles \ {t} : Slug[u] # Slug[t]

\* A database names the titles of S: every document is of one of them, at its
\* term, and each of them that has a term of its own has its document.
Mirrors(docs, S) ==
  /\ \A k \in Slugs : docs[k] # NoDoc => docs[k].title \in S /\ Slug[docs[k].title] = k
  /\ \A t \in S : OwnTerm(t) => docs[Slug[t]] # NoDoc /\ docs[Slug[t]].title = t

\* The constructor has added the titles of the rows it read.
LoadedPrefix ==
  phase = "load" => /\ pos <= Len(csv) + 1
                    /\ MovieTitles = { csv[i].title : i \in 1 .. pos - 1 }

\* What flush() saved are the movies.
SavedAll == job = "flush" /\ phase = "idle" => RowTitles = MovieTitles

IndexNames ==
  IF job = "reindex_all" THEN Mirrors(index, IndexedTitles)
  ELSE ~ torn => Mirrors(index, IF phase = "load" THEN RowTitles ELSE MovieTitles)

DiskNames == job # "flush" /\ ~ tornOnDisk => Mirrors(stored, RowTitles)

NamesInv == StateInv /\ LoadedPrefix /\ SavedAll /\ IndexNames /\ DiskNames

\* The titles of movies are those that exist.
LEMMA ExistingTitles == \A u : u \in MovieTitles <=> Exists(u)
BY DEF MovieTitles, Exists

\* A document put in the place of whatever has its term.
LEMMA MirrorsAdd ==
  ASSUME NEW docs \in [Slugs -> Document \cup {NoDoc}], NEW S \in SUBSET Titles,
         Mirrors(docs, S), NEW t \in Titles, NEW text \in Synopses
  PROVE  Mirrors([docs EXCEPT ![Slug[t]] = Doc(t, text)], S \cup {t})
<1> DEFINE d == Doc(t, text)
           new == [docs EXCEPT ![Slug[t]] = d]
<1>1. d # NoDoc /\ d.title = t /\ Slug[t] \in Slugs
  BY SlugAssumption, NoDocAssumption DEF Doc, Document
<1>. HIDE DEF d
<1>2. \A k \in Slugs : new[k] = IF k = Slug[t] THEN d ELSE docs[k]
  OBVIOUS
<1>. HIDE DEF new
<1>3. ASSUME NEW k \in Slugs, new[k] # NoDoc
      PROVE  new[k].title \in S \cup {t} /\ Slug[new[k].title] = k
  BY <1>1, <1>2, <1>3 DEF Mirrors
<1>4. ASSUME NEW u \in S \cup {t}, OwnTerm(u)
      PROVE  new[Slug[u]] # NoDoc /\ new[Slug[u]].title = u
  <2>1. CASE u = t
    BY <1>1, <1>2, <2>1
  <2>2. CASE u # t
    <3>1. u \in S /\ u \in Titles /\ Slug[u] # Slug[t]
      BY <1>4, <2>2 DEF OwnTerm
    <3>2. Slug[u] \in Slugs
      BY <3>1, SlugAssumption
    <3>. QED  BY <1>2, <1>4, <3>1, <3>2 DEF Mirrors
  <2>. QED  BY <2>1, <2>2
<1>5. Mirrors(new, S \cup {t})
  BY <1>3, <1>4 DEF Mirrors
<1>. QED  BY <1>5 DEF new, d

\* The document with the term of a title, taken away.
LEMMA MirrorsRemove ==
  ASSUME NEW docs \in [Slugs -> Document \cup {NoDoc}], NEW S \in SUBSET Titles,
         Mirrors(docs, S), NEW t \in Titles
  PROVE  Mirrors([docs EXCEPT ![Slug[t]] = NoDoc], S \ {t})
<1> DEFINE new == [docs EXCEPT ![Slug[t]] = NoDoc]
<1>1. \A k \in Slugs : new[k] = IF k = Slug[t] THEN NoDoc ELSE docs[k]
  OBVIOUS
<1>. HIDE DEF new
<1>2. ASSUME NEW k \in Slugs, new[k] # NoDoc
      PROVE  new[k].title \in S \ {t} /\ Slug[new[k].title] = k
  BY <1>1, <1>2 DEF Mirrors
<1>3. ASSUME NEW u \in S \ {t}, OwnTerm(u)
      PROVE  new[Slug[u]] # NoDoc /\ new[Slug[u]].title = u
  <2>1. u \in S /\ u \in Titles /\ Slug[u] # Slug[t]
    BY <1>3 DEF OwnTerm
  <2>2. Slug[u] \in Slugs
    BY <2>1, SlugAssumption
  <2>. QED  BY <1>1, <1>3, <2>1, <2>2 DEF Mirrors
<1>4. Mirrors(new, S \ {t})
  BY <1>2, <1>3 DEF Mirrors
<1>. QED  BY <1>4 DEF new

\* An empty database names nothing.
LEMMA MirrorsNothing == Mirrors([k \in Slugs |-> NoDoc], {})
BY DEF Mirrors

\* A new manager: its index is the one on disk.
LEMMA RebornNames ==
  ASSUME NamesInv, NEW isTorn, Reborn(isTorn),
         data' = <<>>, phase' = "load", pos' = 1, csv' \in Seq(Row),
         ~ isTorn => job # "flush" /\ ~ tornOnDisk /\ csv' = csv
  PROVE  LoadedPrefix' /\ SavedAll' /\ IndexNames' /\ DiskNames'
<1>1. /\ job' = "none" /\ index' = stored /\ stored' = stored
      /\ torn' = isTorn /\ tornOnDisk' = isTorn
  BY DEF Reborn, IndexReopen
<1>2. LoadedPrefix' /\ SavedAll'
  BY <1>1 DEF LoadedPrefix, SavedAll, MovieTitles
<1>3. ASSUME ~ isTorn PROVE RowTitles' = RowTitles /\ Mirrors(stored, RowTitles)
  BY <1>3 DEF NamesInv, DiskNames, RowTitles
<1>. QED  BY <1>1, <1>2, <1>3 DEF IndexNames, DiskNames

\* A step that changes neither the names in the catalog and the file nor the
\* documents, and finds or leaves no job half done.
LEMMA QuietNames ==
  ASSUME NamesInv, MovieTitles' = MovieTitles, RowTitles' = RowTitles,
         phase # "load", UNCHANGED <<phase, index, stored, job, indexed, torn, tornOnDisk>>,
         job # "reindex_all"
  PROVE  LoadedPrefix' /\ SavedAll' /\ IndexNames' /\ DiskNames'
BY DEF NamesInv, LoadedPrefix, SavedAll, IndexNames, DiskNames

\* The first program: an empty index, which is torn beside a file with rows.
LEMMA InitNames == Init => NamesInv
<1>. SUFFICES ASSUME Init PROVE NamesInv
  OBVIOUS
<1>1. StateInv
  BY InitState
<1>2. /\ data = <<>> /\ phase = "load" /\ pos = 1 /\ job = "none"
      /\ index = [k \in Slugs |-> NoDoc] /\ stored = index
      /\ torn = (csv # <<>>) /\ tornOnDisk = torn
  BY DEF Init, DataInit, IndexInit
<1>3. csv \in Seq(Row)
  BY <1>1 DEF StateInv, DataInv, DataTypeOK, csv, Files
<1>4. LoadedPrefix /\ SavedAll
  BY <1>2, <1>3 DEF LoadedPrefix, SavedAll, MovieTitles
<1>5. ~ torn => RowTitles = {}
  <2>1. ~ torn => csv = <<>>
    BY <1>2, Zenon
  <2>. QED  BY <2>1 DEF RowTitles
<1>6. ~ torn => Mirrors(index, RowTitles)
  BY <1>2, <1>5, MirrorsNothing
<1>. QED  BY <1>1, <1>2, <1>4, <1>6 DEF NamesInv, IndexNames, DiskNames

\* The invariant of the names, one step per action.
LEMMA NamesNext == NamesInv /\ [Next]_vars => NamesInv'
<1>. SUFFICES ASSUME NamesInv, [Next]_vars
              PROVE  LoadedPrefix' /\ SavedAll' /\ IndexNames' /\ DiskNames'
  BY StateNext DEF NamesInv
<1>0. /\ StateInv /\ StateInv'
      /\ data \in Seq(Movie) /\ csv \in Seq(Row) /\ file \in [Files -> Seq(Row)]
      /\ DOMAIN data = 1 .. Len(data) /\ DOMAIN csv = 1 .. Len(csv)
      /\ Len(data) \in Nat /\ Len(csv) \in Nat
      /\ index \in [Slugs -> Document \cup {NoDoc}]
  BY StateNext DEF NamesInv, StateInv, DataInv, DataTypeOK, csv, Files, ManagerTypes,
                   IndexTypeOK
<1>01. MovieTitles \in SUBSET Titles
  BY <1>0, MovieAt DEF StateInv, MovieTitles
<1>1. CASE Load
  <2>1. /\ phase = "load" /\ target' = target
        /\ UNCHANGED <<index, stored, job, indexed, torn, tornOnDisk>>
    BY <1>1, LoadStep DEF LoadMovie, LoadDone, indexVars, jobVars, history
  <2>2. job = "none"
    BY <1>0, <2>1 DEF StateInv, Stages, ManagerTypes
  <2>3. CASE LoadDone
    <3>1. data' = data /\ csv' = csv /\ phase' = "idle" /\ pos > Len(csv)
      BY <2>3 DEF LoadDone, csv
    <3>2. /\ pos \in Nat /\ pos <= Len(csv) + 1
          /\ MovieTitles = { csv[i].title : i \in 1 .. pos - 1 }
      BY <1>0, <2>1 DEF NamesInv, LoadedPrefix, StateInv, DataInv, DataTypeOK
    <3>3. pos - 1 = Len(csv)
      BY <1>0, <3>1, <3>2
    <3>4. RowTitles = MovieTitles
      BY <1>0, <3>2, <3>3 DEF RowTitles
    <3>5. MovieTitles' = MovieTitles /\ RowTitles' = RowTitles
      BY <3>1 DEF MovieTitles, RowTitles
    <3>. QED
      BY <2>1, <2>2, <3>1, <3>4, <3>5
         DEF NamesInv, LoadedPrefix, SavedAll, IndexNames, DiskNames
  <2>4. ASSUME NEW base, base \in Synopses \cup {FromCsv}, LoadMovie(base)
        PROVE  LoadedPrefix' /\ SavedAll' /\ IndexNames' /\ DiskNames'
    <3> DEFINE t == csv[pos].title
    <3>1. /\ pos \in Nat \ {0} /\ pos <= Len(csv) /\ PushMovie(t, base)
          /\ csv' = csv /\ phase' = phase /\ pos' = pos + 1
      BY <1>0, <2>4 DEF LoadMovie, StateInv, DataInv, DataTypeOK, csv
    <3>2. csv[pos] \in Row
      BY <1>0, <3>1
    <3>20. t \in Titles
      BY <3>2 DEF Row
    <3>3. \A u : Exists(u)' <=> Exists(u) \/ u = t
      BY <1>0, <2>4, <3>1, <3>20, PushMovieData DEF StateInv, DataInv
    <3>4. MovieTitles' = MovieTitles \cup {t}
      <4>1. \A u : u \in MovieTitles' <=> Exists(u)'
        BY DEF MovieTitles, Exists
      <4>. QED  BY <3>3, <4>1, ExistingTitles
    <3>5. LoadedPrefix'
      <4>1. MovieTitles = { csv[i].title : i \in 1 .. pos - 1 }
        BY <2>1 DEF NamesInv, LoadedPrefix
      <4>2. MovieTitles' = { csv[i].title : i \in 1 .. pos }
        BY <3>1, <3>4, <4>1
      <4>3. pos' - 1 = pos /\ pos' <= Len(csv') + 1
        BY <1>0, <3>1
      <4>. QED  BY <3>1, <4>2, <4>3 DEF LoadedPrefix
    <3>6. RowTitles' = RowTitles
      BY <3>1 DEF RowTitles
    <3>. QED
      BY <2>1, <2>2, <3>1, <3>5, <3>6 DEF NamesInv, SavedAll, IndexNames, DiskNames
  <2>5. pos \in DOMAIN csv => csv[pos].synopsis \in Synopses
    <3>1. pos \in DOMAIN csv => csv[pos] \in Row
      BY <1>0
    <3>. QED  BY <3>1 DEF Row
  <2>6. \A base : LoadMovie(base) => pos \in DOMAIN csv
    BY <1>0 DEF LoadMovie, StateInv, DataInv, DataTypeOK
  <2>. QED  BY <1>1, <2>3, <2>4, <2>5, <2>6, LoadStep
<1>2. ASSUME NEW t \in Titles, NEW s \in Synopses, AddMovie(t, s)
      PROVE  LoadedPrefix' /\ SavedAll' /\ IndexNames' /\ DiskNames'
  <2>1. /\ phase = "idle" /\ job = "none" /\ PushMovie(t, s)
        /\ UNCHANGED <<file, phase, pos, target>>
        /\ IndexAdd(t, s) /\ UNCHANGED <<job, torn, tornOnDisk>>
    BY <1>2, AddStep DEF AddMovie, jobVars
  <2>2. MovieTitles' = MovieTitles \cup {t} /\ RowTitles' = RowTitles
    <3>1. \A u : Exists(u)' <=> Exists(u) \/ u = t
      BY <1>0, <2>1, PushMovieData DEF StateInv, DataInv
    <3>2. \A u : u \in MovieTitles' <=> Exists(u)'
      BY DEF MovieTitles, Exists
    <3>. QED  BY <2>1, <3>1, <3>2, ExistingTitles DEF RowTitles, csv
  <2>3. ~ torn => Mirrors(index', MovieTitles \cup {t})
    <3>1. ~ torn => Mirrors(index, MovieTitles)
      BY <2>1 DEF NamesInv, IndexNames
    <3>. QED  BY <1>0, <1>01, <2>1, <3>1, MirrorsAdd DEF IndexAdd
  <2>. QED
    BY <2>1, <2>2, <2>3
       DEF NamesInv, LoadedPrefix, SavedAll, IndexNames, DiskNames, IndexAdd
<1>3. ASSUME NEW t \in Titles, NEW s \in Synopses, EditMovie(t, s)
      PROVE  LoadedPrefix' /\ SavedAll' /\ IndexNames' /\ DiskNames'
  <2>1. /\ phase = "idle" /\ job = "none" /\ Exists(t) /\ SetBase(t, s)
        /\ UNCHANGED <<phase, pos, target>>
        /\ UNCHANGED <<index, stored, job, indexed, torn, tornOnDisk>>
    BY <1>3, EditStep DEF EditMovie, indexVars, jobVars
  <2>2. MovieTitles' = MovieTitles
    <3>1. \A u : Exists(u)' <=> Exists(u)
      BY <1>0, <2>1, SetBaseData DEF StateInv, DataInv
    <3>2. \A u : u \in MovieTitles' <=> Exists(u)'
      BY DEF MovieTitles, Exists
    <3>. QED  BY <3>1, <3>2, ExistingTitles
  <2>3. RowTitles' = RowTitles
    <3>1. csv' = csv \/ csv' = EditField(csv, t, s)
      BY <1>0, <2>1 DEF SetBase, csv, Files
    <3>2. /\ DOMAIN csv' = DOMAIN csv
          /\ \A i \in DOMAIN csv : csv'[i].title = csv[i].title
      BY <1>0, <3>1, EditFieldRows
    <3>. QED  BY <3>2 DEF RowTitles
  <2>. QED  BY <2>1, <2>2, <2>3, QuietNames
<1>4. ASSUME NEW t \in Titles, RemoveMovie(t)
      PROVE  LoadedPrefix' /\ SavedAll' /\ IndexNames' /\ DiskNames'
  <2>1. /\ phase = "idle" /\ job = "none" /\ EraseMovie(t)
        /\ UNCHANGED <<file, phase, pos, target>>
        /\ IndexRemove(t) /\ UNCHANGED <<job, torn, tornOnDisk>>
    BY <1>4, RemoveStep DEF RemoveMovie, jobVars
  <2>2. MovieTitles' = MovieTitles \ {t} /\ RowTitles' = RowTitles
    <3>1. \A u : Exists(u)' <=> Exists(u) /\ u # t
      BY <1>0, <2>1, EraseMovieData DEF StateInv, DataInv
    <3>2. \A u : u \in MovieTitles' <=> Exists(u)'
      BY DEF MovieTitles, Exists
    <3>. QED  BY <2>1, <3>1, <3>2, ExistingTitles DEF RowTitles, csv
  <2>3. ~ torn => Mirrors(index', MovieTitles \ {t})
    <3>1. ~ torn => Mirrors(index, MovieTitles)
      BY <2>1 DEF NamesInv, IndexNames
    <3>. QED  BY <1>0, <1>01, <2>1, <3>1, MirrorsRemove DEF IndexRemove
  <2>. QED
    BY <2>1, <2>2, <2>3
       DEF NamesInv, LoadedPrefix, SavedAll, IndexNames, DiskNames, IndexRemove
<1>5. ASSUME NEW t \in Titles, Reindex(t)
      PROVE  LoadedPrefix' /\ SavedAll' /\ IndexNames' /\ DiskNames'
  <2>1. /\ phase = "idle" /\ job = "none" /\ Exists(t) /\ UseCache(t)
        /\ IndexEdit(t, t, Served(t))
        /\ UNCHANGED dataVars /\ UNCHANGED <<config, job, torn, tornOnDisk>>
    BY <1>5 DEF Reindex, Ready, jobVars
  <2>2. Served(t) \in Synopses
    <3>1. \A u : Exists(u)' <=> Exists(u)
      BY <2>1, SameMovies DEF dataVars
    <3>. QED  BY <1>0, <2>1, <3>1, ReadKeeps DEF StateInv, ManagerTypes
  <2>3. IndexAdd(t, Served(t))
    BY <1>0, <2>1, <2>2, IndexTypes DEF StateInv, ManagerTypes
  <2>4. t \in MovieTitles /\ MovieTitles' = MovieTitles /\ RowTitles' = RowTitles
    BY <2>1, ExistingTitles DEF dataVars, MovieTitles, RowTitles, csv
  <2>5. ~ torn => Mirrors(index', MovieTitles)
    <3>1. ~ torn => Mirrors(index, MovieTitles)
      BY <2>1 DEF NamesInv, IndexNames
    <3>2. ~ torn => Mirrors(index', MovieTitles \cup {t})
      BY <1>0, <1>01, <2>2, <2>3, <3>1, MirrorsAdd DEF IndexAdd
    <3>3. MovieTitles \cup {t} = MovieTitles
      BY <2>4
    <3>. QED  BY <3>2, <3>3, Zenon
  <2>. QED
    BY <2>1, <2>3, <2>4, <2>5
       DEF NamesInv, LoadedPrefix, SavedAll, IndexNames, DiskNames, IndexAdd, dataVars
<1>6. CASE ReindexAll
  <2>1. /\ phase = "idle" /\ job = "none"
        /\ index' = [k \in Slugs |-> NoDoc] /\ stored' = stored
        /\ job' = "reindex_all" /\ indexed' = 0
        /\ UNCHANGED dataVars /\ UNCHANGED <<torn, tornOnDisk>>
    BY <1>6 DEF ReindexAll, Ready, IndexClear, history
  <2>2. IndexedTitles' = {} /\ RowTitles' = RowTitles
    BY <2>1 DEF IndexedTitles, RowTitles, csv, dataVars
  <2>3. Mirrors(index', IndexedTitles')
    BY <2>1, <2>2, MirrorsNothing
  <2>. QED
    BY <2>1, <2>2, <2>3 DEF NamesInv, LoadedPrefix, SavedAll, IndexNames, DiskNames,
                            dataVars
<1>7. CASE ReindexAllMovie
  <2> DEFINE t == data[indexed + 1].title
  <2>1. /\ job = "reindex_all" /\ indexed < Len(data) /\ indexed' = indexed + 1
        /\ UseCache(t) /\ IndexAdd(t, Served(t))
        /\ UNCHANGED dataVars /\ UNCHANGED <<config, job, torn, tornOnDisk>>
    BY <1>7 DEF ReindexAllMovie
  <2>2. indexed \in Nat /\ indexed + 1 \in 1 .. Len(data) /\ phase = "idle"
    BY <1>0, <2>1 DEF StateInv, ManagerTypes, Stages
  <2>3. t \in Titles /\ Exists(t)
    BY <1>0, <2>2, MovieAt DEF StateInv
  <2>4. Served(t) \in Synopses
    <3>1. \A u : Exists(u)' <=> Exists(u)
      BY <2>1, SameMovies DEF dataVars
    <3>. QED  BY <1>0, <2>1, <2>3, <3>1, ReadKeeps DEF StateInv, ManagerTypes
  <2>5. IndexedTitles' = IndexedTitles \cup {t} /\ IndexedTitles \in SUBSET Titles
    <3>1. IndexedTitles' = { data[i].title : i \in 1 .. indexed + 1 }
      BY <2>1 DEF IndexedTitles, dataVars
    <3>2. 1 .. indexed + 1 = (1 .. indexed) \cup {indexed + 1}
      BY <2>2
    <3>3. IndexedTitles \subseteq MovieTitles
      BY <1>0, <2>2 DEF IndexedTitles, MovieTitles
    <3>. QED  BY <1>01, <3>1, <3>2, <3>3 DEF IndexedTitles
  <2>. HIDE DEF t
  <2>6. Mirrors(index', IndexedTitles')
    <3>1. Mirrors(index, IndexedTitles)
      BY <2>1 DEF NamesInv, IndexNames
    <3>. QED  BY <1>0, <2>1, <2>3, <2>4, <2>5, <3>1, MirrorsAdd DEF IndexAdd
  <2>7. RowTitles' = RowTitles
    BY <2>1 DEF RowTitles, csv, dataVars
  <2>. QED
    BY <2>1, <2>2, <2>6, <2>7
       DEF NamesInv, LoadedPrefix, SavedAll, IndexNames, DiskNames, IndexAdd, dataVars
<1>8. CASE ReindexAllEnd
  <2>1. /\ job = "reindex_all" /\ phase = "idle" /\ indexed = Len(data) /\ job' = "none"
        /\ UNCHANGED dataVars /\ UNCHANGED <<index, stored, tornOnDisk>>
    BY <1>0, <1>8 DEF ReindexAllEnd, StateInv, Stages, indexVars
  <2>2. /\ MovieTitles' = MovieTitles /\ RowTitles' = RowTitles
        /\ IndexedTitles = MovieTitles
    BY <1>0, <2>1 DEF MovieTitles, RowTitles, IndexedTitles, csv, dataVars
  <2>. QED
    BY <2>1, <2>2 DEF NamesInv, LoadedPrefix, SavedAll, IndexNames, DiskNames, dataVars
<1>9. CASE Flush
  <2>1. /\ phase' = "save" /\ job = "none" /\ job' = "flush" /\ data' = data
        /\ UNCHANGED <<index, stored, torn>> /\ phase = "idle"
    BY <1>9, FlushStep DEF Flush, Ready, OpenOutput, indexVars, history
  <2>2. MovieTitles' = MovieTitles
    BY <2>1 DEF MovieTitles
  <2>. QED
    BY <2>1, <2>2 DEF NamesInv, LoadedPrefix, SavedAll, IndexNames, DiskNames
<1>10. CASE FlushRow
  <2>1. /\ phase = "save" /\ phase' = phase /\ job = "flush" /\ job' = "flush"
        /\ data' = data /\ UNCHANGED <<index, stored, torn>>
    BY <1>10, FlushRowStep DEF FlushRow, WriteMovie, dataVars, indexVars, jobVars
  <2>2. MovieTitles' = MovieTitles
    BY <2>1 DEF MovieTitles
  <2>. QED
    BY <2>1, <2>2 DEF NamesInv, LoadedPrefix, SavedAll, IndexNames, DiskNames
<1>11. CASE FlushSaved
  <2>1. /\ phase = "save" /\ phase' = "idle" /\ job = "flush" /\ job' = "flush"
        /\ data' = data /\ UNCHANGED <<index, stored, torn>>
        /\ pos > Len(data) /\ csv' = csv
    BY <1>0, <1>11, FlushSavedStep
       DEF FlushSaved, CloseOutput, ForgetCopy, csv, Files, indexVars, jobVars, history
  <2>2. /\ Len(csv) = pos - 1 /\ pos <= Len(data) + 1 /\ pos \in Nat
        /\ \A i \in 1 .. pos - 1 : csv[i].title = data[i].title
    BY <1>0, <2>1 DEF StateInv, Stages, DataInv, DataTypeOK, SavePrefix, csv
  <2>3. pos - 1 = Len(data)
    BY <1>0, <2>1, <2>2
  <2>4. RowTitles = MovieTitles
    BY <1>0, <2>2, <2>3 DEF RowTitles, MovieTitles
  <2>5. RowTitles' = RowTitles /\ MovieTitles' = MovieTitles
    BY <2>1 DEF RowTitles, MovieTitles
  <2>. QED
    BY <2>1, <2>4, <2>5 DEF NamesInv, LoadedPrefix, SavedAll, IndexNames, DiskNames
<1>12. CASE FlushCommit
  <2>1. /\ phase = "idle" /\ job = "flush" /\ job' = "none"
        /\ UNCHANGED dataVars /\ stored' = index /\ index' = index
        /\ torn' = torn /\ (tornOnDisk' <=> torn)
    BY <1>12 DEF FlushCommit, IndexCommit
  <2>2. RowTitles' = RowTitles /\ MovieTitles' = MovieTitles
    BY <2>1 DEF RowTitles, MovieTitles, csv, dataVars
  <2>. QED
    BY <2>1, <2>2 DEF NamesInv, LoadedPrefix, SavedAll, IndexNames, DiskNames, dataVars
<1>13. CASE Crash
  <2>1. /\ Reborn(tornOnDisk \/ job = "flush") /\ data' = <<>> /\ phase' = "load"
        /\ pos' = 1 /\ csv' = csv
    BY <1>0, <1>13 DEF Crash, Reopen, ForgetCopy, csv, Files
  <2>. QED  BY <1>0, <2>1, RebornNames
<1>14. ASSUME NEW t \in Titles, CrashInEdit(t)
       PROVE  LoadedPrefix' /\ SavedAll' /\ IndexNames' /\ DiskNames'
  <2>1. /\ Reborn(TRUE) /\ data' = <<>> /\ phase' = "load"
        /\ pos' = pos /\ phase = "idle"
        /\ file' = [file EXCEPT !["own"] = <<>>]
    BY <1>14 DEF CrashInEdit, Ready
  <2>2. pos' = 1 /\ csv' \in Seq(Row)
    BY <1>0, <2>1 DEF StateInv, Stages, csv, Files
  <2>. QED  BY <2>1, <2>2, RebornNames
<1>15. CASE (\E t \in Titles : ReadMovie(t)) \/ UNCHANGED vars
  <2>1. UNCHANGED dataVars /\ UNCHANGED <<index, stored, job, indexed, torn, tornOnDisk>>
    BY <1>15 DEF ReadMovie, vars, indexVars, jobVars, history
  <2>2. /\ RowTitles' = RowTitles /\ MovieTitles' = MovieTitles
        /\ IndexedTitles' = IndexedTitles
    BY <2>1 DEF RowTitles, MovieTitles, IndexedTitles, csv, dataVars
  <2>3. csv' = csv /\ phase' = phase /\ pos' = pos
    BY <2>1 DEF csv, dataVars
  <2>. QED
    BY <2>1, <2>2, <2>3 DEF NamesInv, LoadedPrefix, SavedAll, IndexNames, DiskNames
<1>. QED
  BY <1>1, <1>2, <1>3, <1>4, <1>5, <1>6, <1>7, <1>8, <1>9, <1>10, <1>11, <1>12,
     <1>13, <1>14, <1>15 DEF Next

\* The four places where a title is kept agree, whenever none is half changed.
THEOREM NamesInvariance == Spec => []NamesInv
BY InitNames, NamesNext, PTL DEF Spec

\* No search throws: every document leads to a movie, also while titles are
\* added twice and terms shared, until a flush or the edit of the file is cut
\* short, and again once reindex_all() was called (media_manager.cpp:60-98).
THEOREM SearchesFind == Spec => []SearchFindsMovies
<1>1. NamesInv => SearchFindsMovies
  <2>. SUFFICES ASSUME NamesInv, Ready, ~ torn, NEW k \in Slugs, index[k] # NoDoc
                PROVE  Exists(index[k].title)
    BY DEF SearchFindsMovies, DocumentsHaveMovies
  <2>1. Mirrors(index, MovieTitles)
    BY DEF NamesInv, IndexNames, Ready
  <2>. QED  BY <2>1, ExistingTitles DEF Mirrors
<1>. QED  BY <1>1, NamesInvariance, PTL

\* Between two calls the file and the committed index name the same movies, of
\* those with a term of their own, whatever was changed in memory since
\* (media_manager.cpp:32-36, 82-85).
THEOREM HalvesAgree == Spec => []DiskHalvesAgree
<1>1. NamesInv => DiskHalvesAgree
  <2>. SUFFICES ASSUME NamesInv, job # "flush", ~ tornOnDisk, NEW t \in Titles,
                       \A u \in Titles \ {t} : Slug[u] # Slug[t]
                PROVE  (\E i \in DOMAIN csv : csv[i].title = t)
                         <=> stored[Slug[t]] # NoDoc /\ stored[Slug[t]].title = t
    BY DEF DiskHalvesAgree
  <2>1. Mirrors(stored, RowTitles) /\ OwnTerm(t)
    BY DEF NamesInv, DiskNames, OwnTerm
  <2>2. t \in RowTitles <=> \E i \in DOMAIN csv : csv[i].title = t
    BY DEF RowTitles
  <2>3. Slug[t] \in Slugs
    BY SlugAssumption
  <2>. QED  BY <2>1, <2>2, <2>3 DEF Mirrors
<1>. QED  BY <1>1, NamesInvariance, PTL

-----------------------------------------------------------------------------
(* The texts of the movies, their documents, their rows and the caches *)

\* The movie's text is only on disk.
Lazy(t) == data[IndexOf(t)].base = FromCsv

\* The catalog holds a text of the movie in its cache.
Held(t) ==
  CASE config = "NO_CACHE" -> FALSE
    [] config = "INDIVIDUAL_CACHE" -> cache[t] # NotCached
    [] config = "PAGED_CACHE" -> Paged!OnPage(t)

\* The text of the movie is to be had: not of one whose row flush() has
\* truncated and not yet written again.
Known(t) == ~ Lazy(t) \/ phase # "save" \/ IndexOf(t) < pos

\* load_page takes the last row of a title and get_field the first: with a paged
\* cache a file has to have one.
UniqueFile == "PAGED_CACHE" \in Configs => UniqueIn(csv)

\* A text in a cache is the movie's; on a page, that of a movie in the file.
Coherent ==
  \A t \in MovieTitles \ unsynced :
    Held(t) /\ Known(t) /\ (config = "INDIVIDUAL_CACHE" \/ Lazy(t))
      => Served(t) = BaseText(t)

\* remove() moves movies to earlier pages, never to one they were read on.
LazyPages ==
  config = "PAGED_CACHE" =>
    \A t \in MovieTitles : Lazy(t) =>
      \A n \in DOMAIN cache : t \in DOMAIN cache[n] => Paged!PageOf(t) <= n

\* The document of a movie has its text; of one whose row is not written again
\* yet, that in the cache, which is the one that will be written.
IndexTexts ==
  \A t \in MovieTitles \ unsynced :
    IF job = "reindex_all"
    THEN t \in IndexedTitles => index[Slug[t]] = Doc(t, BaseText(t))
    ELSE phase # "load" /\ ~ torn =>
           IF Known(t) THEN index[Slug[t]] = Doc(t, BaseText(t))
           ELSE Held(t) => index[Slug[t]] = Doc(t, Served(t))

\* The constructor gives each movie the text of its row.
LoadTexts ==
  phase = "load" =>
    /\ cache = EmptyCache(config)
    /\ \A t \in MovieTitles : BaseText(t) = GetField(csv, t)
    /\ ~ torn => \A t \in RowTitles \ unsynced : index[Slug[t]] = Doc(t, GetField(csv, t))

DiskTexts ==
  job # "flush" /\ ~ tornOnDisk =>
    \A t \in RowTitles \ unsyncedOnDisk : stored[Slug[t]] = Doc(t, GetField(csv, t))

\* The rows flush() has written have the texts of their movies.
WrittenTexts ==
  job = "flush" =>
    \A t \in MovieTitles \ unsynced :
      phase = "idle" \/ IndexOf(t) < pos => GetField(csv, t) = BaseText(t)

TextsAgree ==
  /\ UniqueFile /\ LazyPages
  /\ Coherent /\ IndexTexts /\ LoadTexts /\ DiskTexts /\ WrittenTexts

TextsInv == NamesInv /\ TextsAgree

-----------------------------------------------------------------------------
(* Reading through a cache *)

\* Where the paged catalog looks is where this module looks.
LEMMA PagedPlaces ==
  ASSUME NEW t
  PROVE  /\ Paged!PageOf(t) = Paged!PageAt(IndexOf(t))
         /\ Paged!PageText(t) = IF FirstHits(csv, t) # {} THEN ParsedField(csv, t)
                                                          ELSE BaseText(t)
BY DEF Paged!PageOf, Paged!PageText, Paged!IndexOf, Paged!FirstHits, Paged!csv,
       Paged!ParsedField, Paged!LastHits, Paged!SynopsisAt, Paged!BaseText,
       Paged!GetField, IndexOf, FirstHits, csv, ParsedField, LastHits, SynopsisAt,
       BaseText, GetField

\* What is served of a movie in the cache.
LEMMA ServedHeld ==
  ASSUME config \in Configs, NEW t, Held(t)
  PROVE  Served(t) = IF config = "INDIVIDUAL_CACHE" THEN cache[t]
                     ELSE cache[Paged!PageOf(t)][t]
BY ConfigsAssumption DEF Held, Served, Cached!Served, Paged!Served

\* A page has the text of a movie of the file.
LEMMA PageIsBase ==
  ASSUME StateInv, UniqueFile, config = "PAGED_CACHE", NEW t, Lazy(t)
  PROVE  Paged!PageText(t) = BaseText(t)
<1>1. csv \in Seq(Row) /\ UniqueIn(csv)
  BY DEF StateInv, DataInv, DataTypeOK, csv, Files, ManagerTypes, UniqueFile
<1>2. ParsedField(csv, t) = GetField(csv, t) /\ BaseText(t) = GetField(csv, t)
  BY <1>1, UniqueParsed DEF Lazy, BaseText
<1>. QED  BY <1>2, PagedPlaces

\* A movie that stays where it is stays on its page.
LEMMA PageSame ==
  ASSUME NEW t, IndexOf(t)' = IndexOf(t)
  PROVE  Paged!PageOf(t)' = Paged!PageOf(t)
BY PagedPlaces DEF Paged!PageOf, Paged!PageAt, Paged!IndexOf, Paged!FirstHits,
                   IndexOf, FirstHits

\* A cache that stays holds what it held, of a movie that stays where it is.
LEMMA HeldSame ==
  ASSUME config \in Configs, config' = config, cache' = cache,
         NEW t, IndexOf(t)' = IndexOf(t)
  PROVE  /\ Held(t)' <=> Held(t)
         /\ Held(t) => Served(t)' = Served(t)
<1>1. Paged!PageOf(t)' = Paged!PageOf(t)
  BY PageSame
<1>2. Held(t)' <=> Held(t)
  BY <1>1, ConfigsAssumption DEF Held, Paged!OnPage, Paged!CachedPages
<1>3. ASSUME Held(t) PROVE Served(t)' = Served(t)
  BY <1>1, <1>2, <1>3, ConfigsAssumption
     DEF Held, Served, Cached!Served, Paged!Served, Paged!OnPage, Paged!CachedPages
<1>. QED  BY <1>2, <1>3

\* What a read does to the pages.
LEMMA PagesRead ==
  ASSUME NEW t, Paged!UseCache(t)
  PROVE  \/ cache' = cache
         \/ /\ ~ Paged!OnPage(t)
            /\ \A n \in DOMAIN cache' :
                 \/ n \in DOMAIN cache /\ cache'[n] = cache[n] /\ n # Paged!PageOf(t)
                 \/ n = Paged!PageOf(t) /\ cache'[n] = Paged!ReadPage(n)
<1> DEFINE p == Paged!PageOf(t)
           kept == Paged!CachedPages \ {p}
<1>1. ASSUME NEW some \in SUBSET kept, NEW rest, NEW broken,
             Paged!Insert(p, some, rest, broken)
      PROVE  \A n \in DOMAIN cache' :
               \/ n \in DOMAIN cache /\ cache'[n] = cache[n] /\ n # p
               \/ n = p /\ cache'[n] = Paged!ReadPage(n)
  <2>. HIDE DEF p
  <2>. QED  BY <1>1 DEF Paged!Insert, Paged!CachedPages
<1>2. ASSUME NEW rest, NEW broken, Paged!LoadPage(p, rest, broken)
      PROVE  \/ cache' = cache
             \/ \A n \in DOMAIN cache' :
                  \/ n \in DOMAIN cache /\ cache'[n] = cache[n] /\ n # p
                  \/ n = p /\ cache'[n] = Paged!ReadPage(n)
  <2>1. kept \in SUBSET kept /\ (kept \ {Head(rest)}) \in SUBSET kept
    OBVIOUS
  <2>2. \/ Paged!Insert(p, kept, rest, broken)
        \/ Paged!Insert(p, kept \ {Head(rest)}, Tail(rest), broken)
        \/ cache' = cache
    BY <1>2 DEF Paged!LoadPage
  <2>. HIDE DEF kept, p
  <2>. QED  BY <2>1, <2>2, <1>1
<1>3. CASE Paged!Hit(t)
  BY <1>3 DEF Paged!Hit
<1>4. CASE Paged!Reload(t)
  <2>1. ~ Paged!OnPage(t)
    BY <1>4 DEF Paged!Reload
  <2>2. \E i : Paged!LoadPage(p, Paged!RemoveAt(order, i), i = Len(order) + 1)
    BY <1>4 DEF Paged!Reload
  <2>. HIDE DEF p
  <2>. QED  BY <2>1, <2>2, <1>2 DEF p
<1>5. CASE Paged!Fetch(t)
  <2>1. ~ Paged!OnPage(t) /\ Paged!LoadPage(p, order, FALSE)
    BY <1>5 DEF Paged!Fetch, Paged!OnPage
  <2>. HIDE DEF p
  <2>. QED  BY <2>1, <1>2 DEF p
<1>. QED  BY <1>3, <1>4, <1>5 DEF Paged!UseCache

\* The lemma of the proofs about CachedCatalog, under this module's assumptions.
LEMMA CachedReads ==
  ASSUME CachedIn!CacheInv, NEW t \in Titles, CachedIn!UseCache(t),
         NEW u \in Titles, cache'[u] # NotCached
  PROVE  cache'[u] = cache[u] \/ (u = t /\ cache'[u] = CachedIn!BaseText(u))
BY CachedIn!UseCacheTexts, EmptyAssumption, FromCsvAssumption, InitialCsvAssumption,
   ClientAssumption, CatalogAssumption
   DEF CachedIn!Row, Row, CachedIn!Files, Files, CachedIn!IsFiniteSet, IsFiniteSet

\* A text in the cache after a read was there before, or it was read now: of the
\* movie, or of a movie on its page.
LEMMA ReadTexts ==
  ASSUME StateInv, NEW t \in Titles, Exists(t), UseCache(t),
         config' = config, data' = data,
         NEW u \in Titles, Exists(u), Held(u)'
  PROVE  \/ Held(u) /\ Served(u)' = Served(u)
         \/ /\ u \in ReadWith(t)
            /\ Served(u)' = IF config = "INDIVIDUAL_CACHE" THEN BaseText(u)
                            ELSE Paged!PageText(u)
<1>1. config \in Configs /\ CachesTyped
  BY DEF StateInv, ManagerTypes
<1>2. CASE config = "NO_CACHE"
  BY <1>2 DEF Held
<1>3. CASE config = "INDIVIDUAL_CACHE"
  <2>1. Cached!UseCache(t) /\ cache'[u] # NotCached
    BY <1>3 DEF UseCache, Dispatch, Held
  <2>2. CachedIn!CacheInv /\ CachedIn!UseCache(t)
    BY <1>1, <1>3, <2>1, CachedSame DEF CachesTyped
  <2>3. cache'[u] = cache[u] \/ (u = t /\ cache'[u] = BaseText(u))
    BY <2>1, <2>2, CachedReads, CachedSame
  <2>4. Served(u)' = cache'[u]
    BY <1>3, <2>1 DEF Served, Cached!Served
  <2>5. CASE cache[u] # NotCached /\ cache'[u] = cache[u]
    BY <1>3, <2>4, <2>5 DEF Held, Served, Cached!Served
  <2>6. CASE cache'[u] # cache[u] /\ cache[u] = NotCached
    BY <1>3, <2>3, <2>4, <2>6 DEF ReadWith
  <2>7. CASE cache'[u] # cache[u] /\ cache[u] # NotCached
    <3>1. u = t /\ cache[t] # NotCached
      BY <2>3, <2>7
    <3>2. Cached!Hit(t)
      BY <2>1, <3>1 DEF Cached!UseCache, Cached!LoadFree, Cached!LoadEvict,
                        Cached!LoadFault
    <3>. QED  BY <2>7, <3>2 DEF Cached!Hit
  <2>. QED  BY <2>1, <2>5, <2>6, <2>7
<1>4. CASE config = "PAGED_CACHE"
  <2> DEFINE n == Paged!PageOf(u)
  <2>1. Paged!UseCache(t)
    BY <1>4 DEF UseCache, Dispatch
  <2>2. Paged!PageOf(u)' = n
    BY DEF Paged!PageOf, Paged!PageAt, Paged!IndexOf, Paged!FirstHits
  <2>3. n \in DOMAIN cache' /\ u \in DOMAIN cache'[n] /\ Served(u)' = cache'[n][u]
    BY <1>4, <2>2 DEF Held, Served, Paged!Served, Paged!OnPage, Paged!CachedPages
  <2>4. n \in DOMAIN cache /\ u \in DOMAIN cache[n] =>
          Held(u) /\ Served(u) = cache[n][u]
    BY <1>4 DEF Held, Served, Paged!Served, Paged!OnPage, Paged!CachedPages
  <2>5. CASE n \in DOMAIN cache /\ cache'[n] = cache[n]
    BY <2>3, <2>4, <2>5
  <2>6. CASE ~ Paged!OnPage(t) /\ n = Paged!PageOf(t) /\ cache'[n] = Paged!ReadPage(n)
    <3>1. u \in Paged!TitlesOf(n) /\ cache'[n][u] = Paged!PageText(u)
      BY <2>3, <2>6 DEF Paged!ReadPage
    <3>2. u \in ReadWith(t)
      BY <1>4, <2>6, <3>1 DEF ReadWith
    <3>. QED  BY <1>4, <2>3, <3>1, <3>2
  <2>. HIDE DEF n
  <2>7. \/ n \in DOMAIN cache /\ cache'[n] = cache[n]
        \/ ~ Paged!OnPage(t) /\ n = Paged!PageOf(t) /\ cache'[n] = Paged!ReadPage(n)
    BY <2>1, <2>3, PagesRead
  <2>. QED  BY <2>5, <2>6, <2>7
<1>. QED  BY <1>1, <1>2, <1>3, <1>4, ConfigsAssumption

\* What is read with a movie is not in the cache; of the movie itself only if
\* its text is not.
LEMMA NotHeld ==
  ASSUME config \in Configs, NEW t
  PROVE  /\ t \in ReadWith(t) => ~ Held(t)
         /\ Held(t) => ReadWith(t) = {}
BY ConfigsAssumption DEF ReadWith, Held

\* The movie that is read is one of those read with it, unless it is cached.
LEMMA ReadItself ==
  ASSUME StateInv, NEW t \in Titles, Exists(t), ~ Held(t)
  PROVE  config = "NO_CACHE" \/ t \in ReadWith(t)
<1>1. config \in Configs
  BY DEF StateInv, ManagerTypes
<1>2. CASE config = "INDIVIDUAL_CACHE"
  BY <1>2 DEF ReadWith, Held
<1>3. CASE config = "PAGED_CACHE"
  <2>1. IndexOf(t) \in DOMAIN data /\ data[IndexOf(t)].title = t
    BY MovieOf DEF StateInv, DataInv
  <2>2. t \in Paged!TitlesOf(Paged!PageOf(t))
    BY <2>1, PagedPlaces DEF Paged!TitlesOf, Paged!PageAt
  <2>. QED  BY <1>3, <2>2 DEF ReadWith, Held
<1>. QED  BY <1>1, <1>2, <1>3, ConfigsAssumption

\* A page read now has only movies that stand on it now.
LEMMA ReadLazyPages ==
  ASSUME StateInv, LazyPages, NEW t \in Titles, UseCache(t),
         config' = config, data' = data
  PROVE  LazyPages'
<1>. SUFFICES ASSUME config = "PAGED_CACHE", NEW u \in MovieTitles, Lazy(u),
                     NEW n \in DOMAIN cache', u \in DOMAIN cache'[n]
              PROVE  Paged!PageOf(u) <= n
  <2>1. /\ MovieTitles' = MovieTitles
        /\ \A u : Lazy(u)' <=> Lazy(u)
        /\ \A u : Paged!PageOf(u)' = Paged!PageOf(u)
    BY DEF MovieTitles, Lazy, IndexOf, Paged!PageOf, Paged!PageAt, Paged!IndexOf,
           Paged!FirstHits
  <2>. QED  BY <2>1 DEF LazyPages
<1>1. Paged!UseCache(t)
  BY DEF UseCache, Dispatch
<1>2. CASE n \in DOMAIN cache /\ cache'[n] = cache[n]
  BY <1>2 DEF LazyPages
<1>3. CASE cache'[n] = Paged!ReadPage(n)
  <2>1. PICK i \in DOMAIN data : data[i].title = u /\ Paged!PageAt(i) = n
    BY <1>3 DEF Paged!ReadPage, Paged!TitlesOf
  <2>2. Exists(u)
    BY ExistingTitles
  <2>3. i = IndexOf(u)
    BY <2>1, <2>2, MovieOf DEF StateInv, DataInv
  <2>4. data \in Seq(Movie) /\ i \in Nat \ {0}
    BY <2>1 DEF StateInv, DataInv, DataTypeOK
  <2>5. n \in Int
    BY <2>1, <2>4, CatalogAssumption DEF Paged!PageAt
  <2>6. Paged!PageOf(u) = n
    BY <2>1, <2>3, PagedPlaces
  <2>. QED  BY <2>5, <2>6
<1>4. \/ n \in DOMAIN cache /\ cache'[n] = cache[n]
      \/ cache'[n] = Paged!ReadPage(n)
  BY <1>1, PagesRead
<1>. QED  BY <1>2, <1>3, <1>4

\* Reading a movie that is there while no row is missing: what was or is read is
\* the text of the movie.
LEMMA ReadCoherent ==
  ASSUME TextsInv, phase = "idle", NEW t \in Titles, Exists(t), UseCache(t),
         UNCHANGED dataVars, config' = config,
         NEW u \in MovieTitles, u \in unsynced => ~ Held(u),
         Held(u)', config = "INDIVIDUAL_CACHE" \/ Lazy(u)
  PROVE  Served(u)' = BaseText(u)
<1>1. u \in Titles /\ Exists(u) /\ StateInv /\ data' = data
  BY ExistingTitles, MovieAt
     DEF TextsInv, NamesInv, StateInv, MovieTitles, DataInv, DataTypeOK, dataVars
<1>2. config \in Configs /\ phase # "save"
  BY <1>1 DEF StateInv, ManagerTypes
<1>3. CASE Held(u) /\ Served(u)' = Served(u)
  BY <1>2, <1>3 DEF TextsInv, TextsAgree, Coherent, Known
<1>4. CASE Served(u)' = (IF config = "INDIVIDUAL_CACHE" THEN BaseText(u)
                         ELSE Paged!PageText(u))
  <2>1. CASE config = "INDIVIDUAL_CACHE"
    BY <1>4, <2>1
  <2>2. CASE config # "INDIVIDUAL_CACHE"
    <3>1. config = "PAGED_CACHE"
      BY <1>2, <2>2, ConfigsAssumption DEF Held
    <3>. QED  BY <1>1, <1>4, <2>2, <3>1, PageIsBase DEF TextsInv, TextsAgree
  <2>. QED  BY <2>1, <2>2
<1>. QED  BY <1>1, <1>3, <1>4, ReadTexts

\* The document made of what is served is that of the movie, unless it is
\* remembered as not being it.
LEMMA ServedIsBase ==
  ASSUME TextsInv, phase = "idle", NEW t \in MovieTitles, NowIndexed(t),
         t \notin unsynced'
  PROVE  /\ Served(t) = BaseText(t)
         /\ t \in unsynced => ~ Held(t)
<1>1. config \in Configs /\ StateInv
  BY DEF TextsInv, NamesInv, StateInv, ManagerTypes
<1>2. CASE config = "NO_CACHE"
  BY <1>2 DEF Served, Held
<1>3. CASE config = "INDIVIDUAL_CACHE"
  <2>1. CASE cache[t] = NotCached
    <3>1. Cached!BaseText(t) = BaseText(t)
      BY CachedData, EmptyAssumption
    <3>. QED  BY <1>3, <2>1, <3>1 DEF Served, Held, Cached!Served
  <2>2. CASE cache[t] # NotCached
    <3>1. ~ ReadsOwnText(t) /\ ~ Shadowed(t)
      BY <1>3, <2>2 DEF ReadsOwnText, Shadowed
    <3>2. t \notin unsynced
      BY <3>1 DEF NowIndexed
    <3>. QED  BY <1>3, <2>2, <3>2 DEF TextsInv, TextsAgree, Coherent, Held, Known
  <2>. QED  BY <2>1, <2>2
<1>4. CASE config = "PAGED_CACHE"
  <2>1. ReadsOwnText(t) <=> ~ Held(t) /\ (Lazy(t) \/ FirstHits(csv, t) = {})
    BY <1>4 DEF ReadsOwnText, Held, Lazy
  <2>2. CASE ReadsOwnText(t)
    <3>1. Served(t) = Paged!PageText(t)
      BY <1>4, <2>1, <2>2 DEF Held, Served, Paged!Served
    <3>2. Paged!PageText(t) = BaseText(t)
      BY <1>1, <1>4, <2>1, <2>2, PagedPlaces, PageIsBase DEF TextsInv, TextsAgree
    <3>. QED  BY <2>1, <2>2, <3>1, <3>2
  <2>3. CASE ~ ReadsOwnText(t)
    <3>1. ~ Shadowed(t) /\ t \notin unsynced
      BY <2>3 DEF NowIndexed
    <3>2. data[IndexOf(t)].base \in {FromCsv, Served(t)}
      BY <1>4, <3>1 DEF Shadowed
    <3>3. CASE Lazy(t)
      <4>1. Held(t)
        BY <2>1, <2>3, <3>3
      <4>. QED  BY <3>1, <3>3, <4>1 DEF TextsInv, TextsAgree, Coherent, Known
    <3>4. CASE ~ Lazy(t)
      BY <3>1, <3>2, <3>4 DEF Lazy, BaseText
    <3>. QED  BY <3>3, <3>4
  <2>. QED  BY <2>2, <2>3
<1>. QED  BY <1>1, <1>2, <1>3, <1>4, ConfigsAssumption

-----------------------------------------------------------------------------
(* Texts that stay *)

\* What is the same when the movies and their file are.
LEMMA SameTexts ==
  ASSUME data' = data, csv' = csv, NEW t
  PROVE  /\ IndexOf(t)' = IndexOf(t)
         /\ BaseText(t)' = BaseText(t)
         /\ Lazy(t)' <=> Lazy(t)
         /\ MovieTitles' = MovieTitles /\ RowTitles' = RowTitles
BY DEF IndexOf, BaseText, Lazy, MovieTitles, RowTitles

\* A step that does not touch the two halves on disk.
LEMMA SameDisk ==
  ASSUME UniqueFile, DiskTexts,
         csv' = csv, UNCHANGED <<stored, job, tornOnDisk, unsyncedOnDisk>>
  PROVE  UniqueFile' /\ DiskTexts'
BY DEF UniqueFile, UniqueIn, DiskTexts, RowTitles

\* Texts of the constructor and of flush() are no matter between two calls.
LEMMA QuietTexts ==
  ASSUME phase' = "idle", job' # "flush"
  PROVE  LoadTexts' /\ WrittenTexts'
BY DEF LoadTexts, WrittenTexts

\* A movie is at a position, and in the catalog.
LEMMA MovieHere ==
  ASSUME StateInv, NEW u \in MovieTitles
  PROVE  /\ u \in Titles /\ Exists(u) /\ Slug[u] \in Slugs
         /\ IndexOf(u) \in 1 .. Len(data) /\ data[IndexOf(u)].title = u
         /\ \A i \in DOMAIN data : data[i].title = u => i = IndexOf(u)
<1>1. data \in Seq(Movie) /\ DOMAIN data = 1 .. Len(data)
  BY DEF StateInv, DataInv, DataTypeOK
<1>2. u \in Titles /\ Exists(u)
  BY <1>1, ExistingTitles, MovieAt DEF StateInv, MovieTitles
<1>3. /\ IndexOf(u) \in DOMAIN data /\ data[IndexOf(u)].title = u
      /\ \A i \in DOMAIN data : data[i].title = u => i = IndexOf(u)
  BY <1>2, MovieOf DEF StateInv, DataInv
<1>. QED  BY <1>1, <1>2, <1>3, SlugAssumption

\* An empty cache holds nothing.
LEMMA NothingHeld == StateInv /\ cache = EmptyCache(config) => LazyPages /\ Coherent
<1>. SUFFICES ASSUME StateInv, cache = EmptyCache(config)
              PROVE  LazyPages /\ Coherent
  OBVIOUS
<1>1. config \in Configs
  BY DEF StateInv, ManagerTypes
<1>2. ASSUME config = "PAGED_CACHE" PROVE DOMAIN cache = {}
  BY <1>2 DEF EmptyCache
<1>3. ASSUME NEW t \in MovieTitles PROVE ~ Held(t)
  <2>1. t \in Titles
    BY MovieHere
  <2>2. CASE config = "INDIVIDUAL_CACHE"
    BY <2>1, <2>2 DEF EmptyCache, Held
  <2>3. CASE config = "PAGED_CACHE"
    BY <1>2, <2>3 DEF Held, Paged!OnPage, Paged!CachedPages
  <2>4. CASE config = "NO_CACHE"
    BY <2>4 DEF Held
  <2>. QED  BY <1>1, <2>2, <2>3, <2>4, ConfigsAssumption
<1>. QED  BY <1>2, <1>3 DEF LazyPages, Coherent

\* Nor does it after the step that leaves it empty.
LEMMA NothingHeldNext ==
  StateInv' /\ (cache = EmptyCache(config))' => LazyPages' /\ Coherent'
BY NothingHeld, PTL

-----------------------------------------------------------------------------
(* The texts after each operation *)

\* A row of the constructor: the first of its title makes the movie.
LEMMA LoadMovieTexts ==
  ASSUME TextsInv, NamesInv', Load,
         NEW base \in {FromCsv, csv[pos].synopsis}, LoadMovie(base)
  PROVE  TextsAgree'
<1> DEFINE t == csv[pos].title
<1>1. /\ StateInv /\ DataTypeOK /\ UniqueTitles /\ StateInv'
      /\ csv \in Seq(Row) /\ pos \in Nat \ {0} /\ pos <= Len(csv)
      /\ phase = "load" /\ phase' = "load" /\ PushMovie(t, base)
      /\ file' = file /\ csv' = csv
  BY DEF TextsInv, NamesInv, StateInv, DataInv, DataTypeOK, csv, Files, LoadMovie
<1>2. /\ UNCHANGED cacheVars
      /\ UNCHANGED <<config, index, stored, job, unsynced, unsyncedOnDisk, torn,
                     tornOnDisk>>
  BY LoadStep DEF indexVars, jobVars, history
<1>3. job = "none"
  BY <1>1 DEF StateInv, Stages, ManagerTypes
<1>4. UniqueFile' /\ DiskTexts'
  BY <1>1, <1>2, SameDisk DEF TextsInv, TextsAgree
<1>5. cache = EmptyCache(config) /\ (cache = EmptyCache(config))'
  BY <1>1, <1>2 DEF TextsInv, TextsAgree, LoadTexts, cacheVars, EmptyCache
<1>6. LazyPages' /\ Coherent'
  BY <1>1, <1>5, NothingHeldNext
<1>7. IndexTexts' /\ WrittenTexts'
  BY <1>1, <1>2, <1>3 DEF IndexTexts, WrittenTexts
<1>8. csv[pos] \in Row
  BY <1>1
<1>9. t \in Titles /\ csv[pos].synopsis \in Synopses
  BY <1>8 DEF Row
<1>10. base \in Synopses \cup {FromCsv}
  BY <1>9
<1>11. ASSUME NEW u \in MovieTitles' PROVE BaseText(u)' = GetField(csv', u)
  <2>1. Exists(u) \/ (u = t /\ ~ Exists(t))
    <3>1. Exists(u) \/ u = t
      BY <1>1, <1>9, <1>10, PushMovieData DEF MovieTitles, Exists
    <3>. QED  BY <3>1
  <2>2. CASE Exists(u)
    <3>1. BaseText(u)' = BaseText(u)
      BY <1>1, <1>9, <1>10, <2>2, PushTexts
    <3>2. BaseText(u) = GetField(csv, u)
      BY <1>1, <2>2, ExistingTitles DEF TextsInv, TextsAgree, LoadTexts
    <3>. QED  BY <1>1, <3>1, <3>2
  <2>3. CASE u = t /\ ~ Exists(t)
    <3>0. u \in Titles /\ u = csv[pos].title /\ ~ Exists(u) /\ PushMovie(u, base)
      BY <1>1, <1>9, <2>3
    <3>1. CASE base = FromCsv
      <4>1. data'[IndexOf(u)'].base = FromCsv
        BY <1>1, <1>10, <3>0, <3>1, PushBase
      <4>. QED  BY <4>1 DEF BaseText
    <3>2. CASE base = csv[pos].synopsis
      <4>1. BaseText(u)' = csv[pos].synopsis
        BY <1>1, <1>9, <3>0, <3>2, PushText
      <4>2. \A i \in 1 .. pos - 1 : csv[i].title # u
        <5>1. MovieTitles = { csv[i].title : i \in 1 .. pos - 1 } /\ u \notin MovieTitles
          BY <1>1, <3>0, ExistingTitles DEF TextsInv, NamesInv, LoadedPrefix
        <5>. QED  BY <5>1
      <4>3. pos \in DOMAIN csv
        BY <1>1
      <4>4. GetField(csv, u) = csv[pos].synopsis
        BY <1>1, <3>0, <4>2, <4>3, FirstRow
      <4>. QED  BY <1>1, <4>1, <4>4
    <3>. QED  BY <3>1, <3>2
  <2>. QED  BY <2>1, <2>2, <2>3
<1>12. LoadTexts'
  <2>1. RowTitles' = RowTitles
    BY <1>1 DEF RowTitles
  <2>. QED  BY <1>1, <1>2, <1>5, <1>11, <2>1 DEF TextsInv, TextsAgree, LoadTexts
<1>. QED  BY <1>4, <1>6, <1>7, <1>12 DEF TextsAgree

\* The end of the constructor.
LEMMA LoadDoneTexts ==
  ASSUME TextsInv, NamesInv', Load, LoadDone
  PROVE  TextsAgree'
<1>1. /\ StateInv /\ StateInv' /\ DataTypeOK
      /\ phase = "load" /\ phase' = "idle" /\ data' = data /\ csv' = csv
  BY DEF TextsInv, NamesInv, StateInv, DataInv, LoadDone, csv
<1>2. /\ UNCHANGED cacheVars
      /\ UNCHANGED <<config, index, stored, job, unsynced, unsyncedOnDisk, torn,
                     tornOnDisk>>
  BY LoadStep DEF indexVars, jobVars, history
<1>3. job = "none" /\ job' = "none"
  BY <1>1, <1>2 DEF StateInv, Stages, ManagerTypes
<1>4. UniqueFile' /\ DiskTexts'
  BY <1>1, <1>2, SameDisk DEF TextsInv, TextsAgree
<1>5. (cache = EmptyCache(config))'
  BY <1>1, <1>2 DEF TextsInv, TextsAgree, LoadTexts, cacheVars, EmptyCache
<1>6. LazyPages' /\ Coherent'
  BY <1>1, <1>5, NothingHeldNext
<1>7. LoadTexts' /\ WrittenTexts'
  BY <1>1, <1>3, QuietTexts
<1>8. MovieTitles \subseteq RowTitles
  <2>1. MovieTitles = { csv[i].title : i \in 1 .. pos - 1 } /\ pos <= Len(csv) + 1
    BY <1>1 DEF TextsInv, NamesInv, LoadedPrefix
  <2>2. csv \in Seq(Row) /\ pos \in Nat
    BY <1>1 DEF DataTypeOK, csv, Files
  <2>. QED  BY <2>1, <2>2 DEF RowTitles
<1>9. IndexTexts'
  <2>. SUFFICES ASSUME NEW u \in MovieTitles' \ unsynced', ~ torn'
                PROVE  Known(u)' /\ index'[Slug[u]] = Doc(u, BaseText(u)')
    BY <1>3 DEF IndexTexts, Doc
  <2>1. u \in MovieTitles \ unsynced /\ BaseText(u)' = BaseText(u)
    BY <1>1, <1>2, SameTexts
  <2>2. Known(u)'
    BY <1>1 DEF Known
  <2>. QED
    BY <1>1, <1>2, <1>8, <2>1, <2>2 DEF TextsInv, TextsAgree, LoadTexts
<1>. QED  BY <1>4, <1>6, <1>7, <1>9 DEF TextsAgree

\* add(): the other movies stay where they are, with the providers they have; the
\* new one has the text that was indexed.
LEMMA AddMovieTexts ==
  ASSUME TextsInv, NamesInv', NEW t \in Titles, NEW s \in Synopses, AddMovie(t, s)
  PROVE  TextsAgree'
<1>1. /\ StateInv /\ DataTypeOK /\ UniqueTitles /\ CachesTyped /\ config \in Configs
      /\ index \in [Slugs -> Document \cup {NoDoc}]
  BY DEF TextsInv, NamesInv, StateInv, DataInv, ManagerTypes, IndexTypeOK
<1>2. /\ phase = "idle" /\ phase' = "idle" /\ job = "none" /\ job' = "none"
      /\ PushMovie(t, s) /\ file' = file /\ csv' = csv
      /\ cache' = cache /\ config' = config
      /\ index' = [index EXCEPT ![Slug[t]] = Doc(t, s)]
      /\ UNCHANGED <<stored, unsyncedOnDisk, torn, tornOnDisk>>
      /\ unsynced' = IF Exists(t) THEN unsynced \cup Sharing(t) \cup {t}
                                  ELSE (unsynced \cup Sharing(t)) \ {t}
  BY AddStep DEF AddMovie, cacheVars, csv, jobVars, IndexAdd
<1>3. UniqueFile' /\ DiskTexts' /\ LoadTexts' /\ WrittenTexts'
  BY <1>2, SameDisk, QuietTexts DEF TextsInv, TextsAgree
<1>4. ASSUME NEW u \in MovieTitles', u # t \/ Exists(t)
      PROVE  /\ u \in MovieTitles /\ Exists(u)
             /\ IndexOf(u)' = IndexOf(u) /\ BaseText(u)' = BaseText(u)
             /\ (Lazy(u)' <=> Lazy(u))
             /\ Paged!PageOf(u)' = Paged!PageOf(u)
             /\ (Held(u)' <=> Held(u)) /\ (Held(u) => Served(u)' = Served(u))
  <2>1. Exists(u)
    <3>1. Exists(u) \/ u = t
      BY <1>1, <1>2, PushMovieData DEF MovieTitles, Exists
    <3>. QED  BY <1>4, <3>1
  <2>2. IndexOf(u)' = IndexOf(u) /\ data'[IndexOf(u)] = data[IndexOf(u)]
    BY <1>1, <1>2, <2>1, PushPlaces
  <2>3. BaseText(u)' = BaseText(u)
    BY <1>1, <1>2, <2>1, PushTexts
  <2>4. Lazy(u)' <=> Lazy(u)
    BY <2>2 DEF Lazy
  <2>5. (Held(u)' <=> Held(u)) /\ (Held(u) => Served(u)' = Served(u))
    BY <1>1, <1>2, <2>2, HeldSame
  <2>6. Paged!PageOf(u)' = Paged!PageOf(u)
    BY <2>2, PageSame
  <2>. QED  BY <2>1, <2>2, <2>3, <2>4, <2>5, <2>6, ExistingTitles
<1>5. ASSUME ~ Exists(t)
      PROVE  /\ BaseText(t)' = s /\ ~ Lazy(t)'
             /\ config = "INDIVIDUAL_CACHE" => ~ Held(t)'
  <2>1. data'[IndexOf(t)'].base = s /\ BaseText(t)' = s
    BY <1>1, <1>2, <1>5, PushBase, PushText
  <2>2. config = "INDIVIDUAL_CACHE" => cache'[t] = NotCached
    BY <1>1, <1>2, <1>5 DEF CachesTyped
  <2>. QED  BY <1>2, <2>1, <2>2, FromCsvAssumption DEF Lazy, Held
<1>6. ASSUME NEW u \in MovieTitles' \ unsynced', u # t \/ Exists(t)
      PROVE  u \notin unsynced /\ index'[Slug[u]] = index[Slug[u]]
  <2>1. Exists(u) /\ u \in Titles /\ u \in MovieTitles /\ Slug[u] \in Slugs
    BY <1>1, <1>4, <1>6, MovieHere
  <2>2. u # t /\ u \notin unsynced /\ u \notin Sharing(t)
    BY <1>2, <1>6, <2>1
  <2>3. Slug[u] # Slug[t]
    BY <2>1, <2>2 DEF Sharing
  <2>. QED  BY <1>1, <1>2, <2>1, <2>2, <2>3
<1>7. Coherent'
  <2>. SUFFICES ASSUME NEW u \in MovieTitles' \ unsynced', Held(u)',
                       config = "INDIVIDUAL_CACHE" \/ Lazy(u)'
                PROVE  Served(u)' = BaseText(u)'
    BY <1>2 DEF Coherent
  <2>1. u # t \/ Exists(t)
    BY <1>5
  <2>2. Known(u)
    BY <1>2 DEF Known
  <2>. QED  BY <1>4, <1>6, <2>1, <2>2 DEF TextsInv, TextsAgree, Coherent
<1>8. LazyPages'
  <2>. SUFFICES ASSUME config = "PAGED_CACHE", NEW u \in MovieTitles', Lazy(u)',
                       NEW n \in DOMAIN cache, u \in DOMAIN cache[n]
                PROVE  Paged!PageOf(u)' <= n
    BY <1>2 DEF LazyPages
  <2>1. u # t \/ Exists(t)
    BY <1>5
  <2>. QED  BY <1>4, <2>1 DEF TextsInv, TextsAgree, LazyPages
<1>9. IndexTexts'
  <2>. SUFFICES ASSUME NEW u \in MovieTitles' \ unsynced', ~ torn
                PROVE  Known(u)' /\ index'[Slug[u]] = Doc(u, BaseText(u)')
    BY <1>2 DEF IndexTexts, Doc
  <2>1. Known(u) /\ Known(u)'
    BY <1>2 DEF Known
  <2>2. CASE u # t \/ Exists(t)
    <3>1. u \in MovieTitles \ unsynced /\ BaseText(u)' = BaseText(u)
          /\ index'[Slug[u]] = index[Slug[u]]
      BY <1>4, <1>6, <2>2
    <3>2. index[Slug[u]] = Doc(u, BaseText(u))
      BY <1>2, <2>1, <3>1 DEF TextsInv, TextsAgree, IndexTexts
    <3>. QED  BY <2>1, <3>1, <3>2
  <2>3. CASE u = t /\ ~ Exists(t)
    <3>1. index'[Slug[t]] = Doc(t, s)
      BY <1>1, <1>2, SlugAssumption
    <3>. QED  BY <1>5, <2>1, <2>3, <3>1
  <2>. QED  BY <2>2, <2>3
<1>. QED  BY <1>3, <1>7, <1>8, <1>9 DEF TextsAgree

\* A smaller position is on no later page.
LEMMA PagesGrow ==
  ASSUME NEW i \in Nat, NEW j \in {i, i - 1}
  PROVE  Paged!PageAt(j) <= Paged!PageAt(i) /\ Paged!PageAt(j) \in Int
BY CatalogAssumption DEF Paged!PageAt

\* remove(): the movies behind it may come to an earlier page, where they were
\* never read.
LEMMA RemoveMovieTexts ==
  ASSUME TextsInv, NamesInv', NEW t \in Titles, RemoveMovie(t)
  PROVE  TextsAgree'
<1>1. /\ StateInv /\ DataTypeOK /\ UniqueTitles /\ CachesTyped /\ config \in Configs
      /\ index \in [Slugs -> Document \cup {NoDoc}]
  BY DEF TextsInv, NamesInv, StateInv, DataInv, ManagerTypes, IndexTypeOK
<1>2. /\ phase = "idle" /\ phase' = "idle" /\ job = "none" /\ job' = "none"
      /\ EraseMovie(t) /\ file' = file /\ csv' = csv /\ config' = config
      /\ cache' = IF config = "INDIVIDUAL_CACHE"
                  THEN [cache EXCEPT ![t] = NotCached] ELSE cache
      /\ index' = [index EXCEPT ![Slug[t]] = NoDoc]
      /\ UNCHANGED <<stored, unsyncedOnDisk, torn, tornOnDisk>>
      /\ unsynced' = (unsynced \cup Sharing(t)) \ {t}
  BY RemoveStep DEF RemoveMovie, csv, jobVars, IndexRemove
<1>3. UniqueFile' /\ DiskTexts' /\ LoadTexts' /\ WrittenTexts'
  BY <1>2, SameDisk, QuietTexts DEF TextsInv, TextsAgree
<1>4. ASSUME NEW u \in MovieTitles'
      PROVE  /\ u \in MovieTitles /\ u # t /\ BaseText(u)' = BaseText(u)
             /\ (Lazy(u)' <=> Lazy(u))
             /\ Paged!PageOf(u)' <= Paged!PageOf(u)
             /\ Paged!PageOf(u) \in Int /\ Paged!PageOf(u)' \in Int
  <2>1. Exists(u) /\ u # t
    BY <1>1, <1>2, EraseMovieData DEF MovieTitles, Exists
  <2>2. /\ data'[IndexOf(u)'] = data[IndexOf(u)]
        /\ IndexOf(u)' \in {IndexOf(u), IndexOf(u) - 1}
    BY <1>1, <1>2, <2>1, ErasePlaces
  <2>3. BaseText(u)' = BaseText(u)
    BY <1>1, <1>2, <2>1, EraseTexts
  <2>4. Lazy(u)' <=> Lazy(u)
    BY <2>2 DEF Lazy
  <2>5. u \in MovieTitles /\ IndexOf(u) \in Nat
    <3>1. u \in MovieTitles
      BY <2>1, ExistingTitles
    <3>2. Len(data) \in Nat
      BY <1>1 DEF DataTypeOK
    <3>. QED  BY <1>1, <3>1, <3>2, MovieHere
  <2>6. /\ Paged!PageAt(IndexOf(u)') <= Paged!PageAt(IndexOf(u))
        /\ Paged!PageAt(IndexOf(u)) \in Int /\ Paged!PageAt(IndexOf(u)') \in Int
    <3>1. ASSUME NEW i \in Nat, NEW j \in {i, i - 1}
          PROVE  /\ Paged!PageAt(j) <= Paged!PageAt(i) /\ Paged!PageAt(j) \in Int
                 /\ Paged!PageAt(i) \in Int
      BY PagesGrow
    <3>. QED  BY <2>2, <2>5, <3>1
  <2>7. /\ Paged!PageOf(u) = Paged!PageAt(IndexOf(u))
        /\ Paged!PageOf(u)' = Paged!PageAt(IndexOf(u)')
    BY DEF Paged!PageOf, Paged!PageAt, Paged!IndexOf, Paged!FirstHits, IndexOf, FirstHits
  <2>. QED  BY <2>1, <2>3, <2>4, <2>5, <2>6, <2>7
<1>5. ASSUME NEW u \in MovieTitles', Held(u)',
             config = "INDIVIDUAL_CACHE" \/ Lazy(u)
      PROVE  Held(u) /\ Served(u)' = Served(u)
  <2>1. CASE config = "INDIVIDUAL_CACHE"
    <3>1. cache \in [Titles -> Synopses \cup {NotCached}] /\ u \in Titles /\ u # t
      BY <1>1, <1>4, <2>1, MovieHere
         DEF CachesTyped, CachedIn!CacheInv, CachedIn!CacheTypeOK
    <3>2. cache'[u] = cache[u]
      BY <1>2, <2>1, <3>1
    <3>. QED  BY <1>2, <1>5, <2>1, <3>2 DEF Held, Served, Cached!Served
  <2>2. CASE config = "PAGED_CACHE"
    <3> DEFINE n == Paged!PageOf(u)'
    <3>1. n \in DOMAIN cache /\ u \in DOMAIN cache[n] /\ Served(u)' = cache[n][u]
      BY <1>2, <1>5, <2>2 DEF Held, Served, Paged!Served, Paged!OnPage, Paged!CachedPages
    <3>2. Lazy(u) /\ u \in MovieTitles
      BY <1>4, <1>5, <2>2
    <3>3. Paged!PageOf(u) <= n
      BY <2>2, <3>1, <3>2 DEF TextsInv, TextsAgree, LazyPages
    <3>4. Paged!PageOf(u) = n
      BY <1>4, <3>3
    <3>. QED
      BY <2>2, <3>1, <3>4 DEF Held, Served, Paged!Served, Paged!OnPage, Paged!CachedPages
  <2>3. CASE config = "NO_CACHE"
    BY <1>2, <1>5, <2>3 DEF Held
  <2>. QED  BY <1>1, <2>1, <2>2, <2>3, ConfigsAssumption
<1>6. ASSUME NEW u \in MovieTitles' \ unsynced'
      PROVE  u \notin unsynced /\ index'[Slug[u]] = index[Slug[u]]
  <2>1. Exists(u) /\ u \in Titles /\ u # t /\ Slug[u] \in Slugs
    BY <1>1, <1>4, <1>6, MovieHere
  <2>2. u \notin unsynced /\ u \notin Sharing(t)
    BY <1>2, <1>6, <2>1
  <2>3. Slug[u] # Slug[t]
    BY <2>1, <2>2 DEF Sharing
  <2>. QED  BY <1>1, <1>2, <2>1, <2>2, <2>3
<1>7. Coherent'
  <2>. SUFFICES ASSUME NEW u \in MovieTitles' \ unsynced', Held(u)',
                       config = "INDIVIDUAL_CACHE" \/ Lazy(u)'
                PROVE  Served(u)' = BaseText(u)'
    BY <1>2 DEF Coherent
  <2>1. Known(u)
    BY <1>2 DEF Known
  <2>2. config = "INDIVIDUAL_CACHE" \/ Lazy(u)
    BY <1>4
  <2>3. Held(u) /\ Served(u)' = Served(u)
    BY <1>5, <2>2
  <2>. QED  BY <1>4, <1>6, <2>1, <2>2, <2>3 DEF TextsInv, TextsAgree, Coherent
<1>8. LazyPages'
  <2>. SUFFICES ASSUME config = "PAGED_CACHE", NEW u \in MovieTitles', Lazy(u)',
                       NEW n \in DOMAIN cache, u \in DOMAIN cache[n]
                PROVE  Paged!PageOf(u)' <= n
    BY <1>2 DEF LazyPages
  <2>1. n \in Nat
    BY <1>1 DEF CachesTyped, PagedIn!CacheInv, PagedIn!CachedPages
  <2>2. Paged!PageOf(u) <= n
    BY <1>4 DEF TextsInv, TextsAgree, LazyPages
  <2>. QED  BY <1>4, <2>1, <2>2
<1>9. IndexTexts'
  <2>. SUFFICES ASSUME NEW u \in MovieTitles' \ unsynced', ~ torn
                PROVE  Known(u)' /\ index'[Slug[u]] = Doc(u, BaseText(u)')
    BY <1>2 DEF IndexTexts, Doc
  <2>1. Known(u) /\ Known(u)'
    BY <1>2 DEF Known
  <2>2. index[Slug[u]] = Doc(u, BaseText(u))
    BY <1>2, <1>4, <1>6, <2>1 DEF TextsInv, TextsAgree, IndexTexts
  <2>. QED  BY <1>4, <1>6, <2>1, <2>2
<1>. QED  BY <1>3, <1>7, <1>8, <1>9 DEF TextsAgree

\* set_synopsis(): the movie itself is remembered, the others stay.
LEMMA EditMovieTexts ==
  ASSUME TextsInv, NamesInv', NEW t \in Titles, NEW s \in Synopses, EditMovie(t, s)
  PROVE  TextsAgree'
<1>1. /\ StateInv /\ DataTypeOK /\ UniqueTitles /\ DataInv /\ config \in Configs
      /\ csv \in Seq(Row) /\ file \in [Files -> Seq(Row)]
  BY DEF TextsInv, NamesInv, StateInv, DataInv, DataTypeOK, ManagerTypes, csv, Files
<1>2. /\ phase = "idle" /\ phase' = "idle" /\ job = "none" /\ job' = "none"
      /\ Exists(t) /\ SetBase(t, s) /\ cache' = cache /\ config' = config
      /\ UNCHANGED <<index, stored, torn, tornOnDisk>>
      /\ unsynced' = unsynced \cup {t}
      /\ unsyncedOnDisk' = IF Lazy(t) THEN unsyncedOnDisk \cup {t} ELSE unsyncedOnDisk
  BY EditStep DEF EditMovie, cacheVars, jobVars, indexVars, Lazy
<1>3. LoadTexts' /\ WrittenTexts'
  BY <1>2, QuietTexts
<1>4. csv' = IF Lazy(t) THEN EditField(csv, t, s) ELSE csv
  BY <1>1, <1>2 DEF SetBase, Lazy, csv, Files
<1>5. /\ DOMAIN csv' = DOMAIN csv /\ RowTitles' = RowTitles
      /\ \A i \in DOMAIN csv : csv'[i].title = csv[i].title
  <2>1. DOMAIN csv' = DOMAIN csv /\ \A i \in DOMAIN csv : csv'[i].title = csv[i].title
    BY <1>1, <1>4, EditFieldRows
  <2>. QED  BY <2>1 DEF RowTitles
<1>6. UniqueFile'
  BY <1>5 DEF TextsInv, TextsAgree, UniqueFile, UniqueIn
<1>7. DiskTexts'
  <2>. SUFFICES ASSUME ~ tornOnDisk, NEW u \in RowTitles' \ unsyncedOnDisk'
                PROVE  stored[Slug[u]] = Doc(u, GetField(csv', u))
    BY <1>2 DEF DiskTexts, Doc
  <2>1. u \in RowTitles \ unsyncedOnDisk /\ (Lazy(t) => u # t)
    BY <1>2, <1>5
  <2>2. GetField(csv', u) = GetField(csv, u)
    BY <1>1, <1>4, <2>1, EditedFieldKept
  <2>. QED  BY <1>2, <2>1, <2>2 DEF TextsInv, TextsAgree, DiskTexts
<1>8. /\ MovieTitles' = MovieTitles
      /\ \A u \in MovieTitles :
           /\ Exists(u) /\ IndexOf(u)' = IndexOf(u)
           /\ u # t => BaseText(u)' = BaseText(u)
           /\ Lazy(u)' => Lazy(u)
           /\ Paged!PageOf(u)' = Paged!PageOf(u)
           /\ (Held(u)' <=> Held(u)) /\ (Held(u) => Served(u)' = Served(u))
  <2>1. /\ DOMAIN data' = DOMAIN data
        /\ \A i \in DOMAIN data : /\ data'[i].title = data[i].title
                                  /\ data'[i].base = FromCsv => data[i].base = FromCsv
    BY <1>1, <1>2, SetBaseData
  <2>2. MovieTitles' = MovieTitles
    BY <2>1 DEF MovieTitles
  <2>3. ASSUME NEW u \in MovieTitles
        PROVE  /\ Exists(u) /\ IndexOf(u)' = IndexOf(u)
               /\ u # t => BaseText(u)' = BaseText(u)
               /\ Lazy(u)' => Lazy(u)
               /\ Paged!PageOf(u)' = Paged!PageOf(u)
               /\ (Held(u)' <=> Held(u)) /\ (Held(u) => Served(u)' = Served(u))
    <3>1. Exists(u) /\ IndexOf(u) \in DOMAIN data
      BY <1>1, ExistingTitles, MovieOf
    <3>2. IndexOf(u)' = IndexOf(u)
      BY <1>1, <1>2, <3>1, SetPlaces
    <3>3. u # t => BaseText(u)' = BaseText(u)
      BY <1>1, <1>2, <3>1, SetTexts
    <3>4. Lazy(u)' => Lazy(u)
      BY <2>1, <3>1, <3>2 DEF Lazy
    <3>5. Paged!PageOf(u)' = Paged!PageOf(u)
      BY <3>2, PageSame
    <3>6. (Held(u)' <=> Held(u)) /\ (Held(u) => Served(u)' = Served(u))
      BY <1>1, <1>2, <3>2, HeldSame
    <3>. QED  BY <3>1, <3>2, <3>3, <3>4, <3>5, <3>6
  <2>. QED  BY <2>2, <2>3
<1>9. Coherent'
  <2>. SUFFICES ASSUME NEW u \in MovieTitles' \ unsynced', Held(u)',
                       config = "INDIVIDUAL_CACHE" \/ Lazy(u)'
                PROVE  Served(u)' = BaseText(u)'
    BY <1>2 DEF Coherent
  <2>1. Known(u) /\ u \in MovieTitles \ unsynced /\ u # t
    BY <1>2, <1>8 DEF Known
  <2>. QED  BY <1>8, <2>1 DEF TextsInv, TextsAgree, Coherent
<1>10. LazyPages'
  BY <1>2, <1>8 DEF TextsInv, TextsAgree, LazyPages
<1>11. IndexTexts'
  <2>. SUFFICES ASSUME NEW u \in MovieTitles' \ unsynced', ~ torn
                PROVE  Known(u)' /\ index[Slug[u]] = Doc(u, BaseText(u)')
    BY <1>2 DEF IndexTexts, Doc
  <2>1. Known(u) /\ Known(u)' /\ u \in MovieTitles \ unsynced /\ u # t
    BY <1>2, <1>8 DEF Known
  <2>2. index[Slug[u]] = Doc(u, BaseText(u))
    BY <1>2, <2>1 DEF TextsInv, TextsAgree, IndexTexts
  <2>. QED  BY <1>8, <2>1, <2>2
<1>. QED  BY <1>3, <1>6, <1>7, <1>9, <1>10, <1>11 DEF TextsAgree

\* A read by the client changes the cache alone.
LEMMA ReadMovieTexts ==
  ASSUME TextsInv, NamesInv', NEW t \in Titles, ReadMovie(t)
  PROVE  TextsAgree'
<1>1. StateInv
  BY DEF TextsInv, NamesInv
<1>2. /\ phase = "idle" /\ job = "none" /\ Exists(t) /\ UseCache(t)
      /\ UNCHANGED dataVars /\ data' = data /\ csv' = csv /\ phase' = phase
      /\ UNCHANGED <<config, index, stored, job, indexed, unsynced, unsyncedOnDisk,
                     torn, tornOnDisk>>
  BY DEF ReadMovie, Ready, dataVars, csv, indexVars, jobVars, history
<1>3. UniqueFile' /\ DiskTexts' /\ LoadTexts' /\ WrittenTexts'
  BY <1>2, SameDisk, QuietTexts DEF TextsInv, TextsAgree
<1>4. LazyPages'
  BY <1>1, <1>2, ReadLazyPages DEF TextsInv, TextsAgree
<1>5. Coherent'
  <2>. SUFFICES ASSUME NEW u \in MovieTitles' \ unsynced', Held(u)',
                       config = "INDIVIDUAL_CACHE" \/ Lazy(u)'
                PROVE  Served(u)' = BaseText(u)'
    BY <1>2 DEF Coherent
  <2>1. /\ u \in MovieTitles /\ u \notin unsynced
        /\ (Lazy(u)' <=> Lazy(u)) /\ BaseText(u)' = BaseText(u)
    BY <1>2, SameTexts
  <2>2. Served(u)' = BaseText(u)
    BY <1>2, <2>1, ReadCoherent
  <2>. QED  BY <2>1, <2>2
<1>6. IndexTexts'
  <2>. SUFFICES ASSUME NEW u \in MovieTitles' \ unsynced', ~ torn
                PROVE  Known(u)' /\ index[Slug[u]] = Doc(u, BaseText(u)')
    BY <1>2 DEF IndexTexts, Doc
  <2>1. u \in MovieTitles \ unsynced /\ BaseText(u)' = BaseText(u)
    BY <1>2, SameTexts
  <2>2. Known(u) /\ Known(u)'
    BY <1>2 DEF Known
  <2>. QED  BY <1>2, <2>1, <2>2 DEF TextsInv, TextsAgree, IndexTexts
<1>. QED  BY <1>3, <1>4, <1>5, <1>6 DEF TextsAgree

\* The document of a movie is made of what the catalog serves: what holds of it,
\* and of the others.
LEMMA NowIndexedTexts ==
  ASSUME TextsInv, phase = "idle", NEW t \in Titles, Exists(t), UseCache(t),
         NowIndexed(t), index' = [index EXCEPT ![Slug[t]] = Doc(t, Served(t))],
         UNCHANGED dataVars, config' = config, NEW u \in MovieTitles \ unsynced'
  PROVE  /\ u # t => u \notin unsynced /\ index'[Slug[u]] = index[Slug[u]]
         /\ u = t => index'[Slug[u]] = Doc(u, BaseText(u))
         /\ Held(u)' /\ (config = "INDIVIDUAL_CACHE" \/ Lazy(u))
              => Served(u)' = BaseText(u)
<1>1. /\ StateInv /\ index \in [Slugs -> Document \cup {NoDoc}]
  BY DEF TextsInv, NamesInv, StateInv, ManagerTypes, IndexTypeOK
<1>2. u \in Titles /\ Exists(u) /\ Slug[u] \in Slugs
  BY <1>1, MovieHere
<1>3. ASSUME u # t PROVE u \notin unsynced /\ Slug[u] # Slug[t]
  <2>1. u \notin unsynced \cup Sharing(t)
    BY <1>3 DEF NowIndexed
  <2>. QED  BY <1>2, <1>3, <2>1 DEF Sharing
<1>4. ASSUME u = t
      PROVE  Served(u) = BaseText(u) /\ (u \in unsynced => ~ Held(u))
  BY <1>4, ServedIsBase
<1>5. u # t => index'[Slug[u]] = index[Slug[u]]
  BY <1>1, <1>2, <1>3
<1>6. u = t => index'[Slug[u]] = Doc(u, BaseText(u))
  <2>1. ASSUME u = t PROVE index'[Slug[u]] = Doc(u, Served(u))
    <3> DEFINE d == Doc(t, Served(t))
    <3>1. index' = [index EXCEPT ![Slug[t]] = d]
      OBVIOUS
    <3>2. d = Doc(u, Served(u))
      BY <2>1
    <3>. HIDE DEF d
    <3>. QED  BY <1>1, <1>2, <2>1, <3>1, <3>2
  <2>. QED  BY <1>4, <2>1
<1>7. ASSUME Held(u)', config = "INDIVIDUAL_CACHE" \/ Lazy(u)
      PROVE  Served(u)' = BaseText(u)
  BY <1>3, <1>4, <1>7, ReadCoherent
<1>. QED  BY <1>3, <1>5, <1>6, <1>7

\* reindex(): the document is made of what the catalog serves.
LEMMA ReindexTexts ==
  ASSUME TextsInv, NamesInv', NEW t \in Titles, Reindex(t)
  PROVE  TextsAgree'
<1>1. StateInv /\ IndexTypeOK
  BY DEF TextsInv, NamesInv, StateInv, ManagerTypes
<1>2. /\ phase = "idle" /\ job = "none" /\ Exists(t) /\ UseCache(t) /\ NowIndexed(t)
      /\ IndexEdit(t, t, Served(t))
      /\ UNCHANGED dataVars /\ data' = data /\ csv' = csv /\ phase' = phase
      /\ UNCHANGED <<config, stored, job, indexed, unsyncedOnDisk, torn, tornOnDisk>>
  BY DEF Reindex, Ready, dataVars, csv, jobVars, IndexEdit
<1>3. index' = [index EXCEPT ![Slug[t]] = Doc(t, Served(t))]
  <2>1. \A u : Exists(u) => Exists(u)'
    BY <1>2, SameMovies
  <2>2. Served(t) \in Synopses
    BY <1>1, <1>2, <2>1, ReadKeeps DEF StateInv, ManagerTypes
  <2>. QED  BY <1>1, <1>2, <2>2, IndexTypes DEF IndexAdd
<1>4. UniqueFile' /\ DiskTexts' /\ LoadTexts' /\ WrittenTexts'
  BY <1>2, SameDisk, QuietTexts DEF TextsInv, TextsAgree
<1>5. LazyPages'
  BY <1>1, <1>2, ReadLazyPages DEF TextsInv, TextsAgree
<1>6. Coherent'
  <2>. SUFFICES ASSUME NEW u \in MovieTitles' \ unsynced', Held(u)',
                       config = "INDIVIDUAL_CACHE" \/ Lazy(u)'
                PROVE  Served(u)' = BaseText(u)'
    BY <1>2 DEF Coherent
  <2>1. /\ u \in MovieTitles \ unsynced'
        /\ (Lazy(u)' <=> Lazy(u)) /\ BaseText(u)' = BaseText(u)
    BY <1>2, SameTexts
  <2>2. Served(u)' = BaseText(u)
    BY <1>2, <1>3, <2>1, NowIndexedTexts
  <2>. QED  BY <2>1, <2>2
<1>7. IndexTexts'
  <2>. SUFFICES ASSUME NEW u \in MovieTitles' \ unsynced', ~ torn
                PROVE  Known(u)' /\ index'[Slug[u]] = Doc(u, BaseText(u)')
    BY <1>2 DEF IndexTexts, Doc
  <2>1. u \in MovieTitles \ unsynced' /\ BaseText(u)' = BaseText(u)
    BY <1>2, SameTexts
  <2>2. Known(u) /\ Known(u)'
    BY <1>2 DEF Known
  <2>3. /\ u # t => u \notin unsynced /\ index'[Slug[u]] = index[Slug[u]]
        /\ u = t => index'[Slug[u]] = Doc(u, BaseText(u))
    BY <1>2, <1>3, <2>1, NowIndexedTexts
  <2>. QED  BY <1>2, <2>1, <2>2, <2>3 DEF TextsInv, TextsAgree, IndexTexts
<1>. QED  BY <1>4, <1>5, <1>6, <1>7 DEF TextsAgree

\* reindex_all() starts without a document, and the caches stay.
LEMMA ReindexAllTexts ==
  ASSUME TextsInv, NamesInv', ReindexAll
  PROVE  TextsAgree'
<1>1. StateInv /\ config \in Configs
  BY DEF TextsInv, NamesInv, StateInv, ManagerTypes
<1>2. /\ phase = "idle" /\ phase' = "idle" /\ job = "none" /\ job' = "reindex_all"
      /\ indexed' = 0 /\ data' = data /\ csv' = csv /\ cache' = cache
      /\ UNCHANGED <<config, stored, unsynced, unsyncedOnDisk, tornOnDisk>>
  BY DEF ReindexAll, Ready, IndexClear, dataVars, csv, cacheVars, history
<1>3. UniqueFile' /\ DiskTexts' /\ LoadTexts' /\ WrittenTexts'
  <2>1. UniqueFile' /\ DiskTexts'
    BY <1>2 DEF TextsInv, TextsAgree, UniqueFile, UniqueIn, DiskTexts, RowTitles
  <2>. QED  BY <1>2, <2>1, QuietTexts
<1>4. ASSUME NEW u
      PROVE  /\ BaseText(u)' = BaseText(u) /\ (Lazy(u)' <=> Lazy(u))
             /\ MovieTitles' = MovieTitles /\ Paged!PageOf(u)' = Paged!PageOf(u)
             /\ (Held(u)' <=> Held(u)) /\ (Held(u) => Served(u)' = Served(u))
  <2>1. IndexOf(u)' = IndexOf(u)
    BY <1>2, SameTexts
  <2>. QED  BY <1>1, <1>2, <2>1, SameTexts, HeldSame, PageSame
<1>5. Coherent'
  <2>. SUFFICES ASSUME NEW u \in MovieTitles' \ unsynced', Held(u)',
                       config = "INDIVIDUAL_CACHE" \/ Lazy(u)'
                PROVE  Served(u)' = BaseText(u)'
    BY <1>2 DEF Coherent
  <2>1. Known(u)
    BY <1>2 DEF Known
  <2>. QED  BY <1>2, <1>4, <2>1 DEF TextsInv, TextsAgree, Coherent
<1>6. LazyPages'
  BY <1>2, <1>4 DEF TextsInv, TextsAgree, LazyPages
<1>7. IndexTexts'
  <2>1. IndexedTitles' = {}
    BY <1>2 DEF IndexedTitles
  <2>. QED  BY <1>2, <2>1 DEF IndexTexts
<1>. QED  BY <1>3, <1>5, <1>6, <1>7 DEF TextsAgree

\* A movie of reindex_all(): as in reindex().
LEMMA ReindexAllMovieTexts ==
  ASSUME TextsInv, NamesInv', ReindexAllMovie
  PROVE  TextsAgree'
<1>1. /\ StateInv /\ data \in Seq(Movie) /\ indexed \in Nat
  BY DEF TextsInv, NamesInv, StateInv, DataInv, DataTypeOK, ManagerTypes
<1>2. /\ job = "reindex_all" /\ indexed < Len(data) /\ indexed' = indexed + 1
      /\ UNCHANGED dataVars /\ data' = data /\ csv' = csv /\ phase' = phase
      /\ UNCHANGED <<config, stored, job, unsyncedOnDisk, torn, tornOnDisk>>
  BY DEF ReindexAllMovie, dataVars, csv, IndexAdd
<1>3. phase = "idle"
  BY <1>1, <1>2 DEF StateInv, Stages
<1>4. PICK t : t = data[indexed + 1].title
  OBVIOUS
<1>5. /\ UseCache(t) /\ NowIndexed(t)
      /\ index' = [index EXCEPT ![Slug[t]] = Doc(t, Served(t))]
  BY <1>4 DEF ReindexAllMovie, IndexAdd
<1>6. t \in Titles /\ Exists(t)
  <2>1. indexed + 1 \in 1 .. Len(data)
    BY <1>1, <1>2
  <2>. QED  BY <1>1, <1>4, <2>1, MovieAt DEF StateInv
<1>7. UniqueFile' /\ DiskTexts' /\ LoadTexts' /\ WrittenTexts'
  BY <1>2, <1>3, SameDisk, QuietTexts DEF TextsInv, TextsAgree
<1>8. LazyPages'
  BY <1>1, <1>2, <1>5, <1>6, ReadLazyPages DEF TextsInv, TextsAgree
<1>9. Coherent'
  <2>. SUFFICES ASSUME NEW u \in MovieTitles' \ unsynced', Held(u)',
                       config = "INDIVIDUAL_CACHE" \/ Lazy(u)'
                PROVE  Served(u)' = BaseText(u)'
    BY <1>2 DEF Coherent
  <2>1. /\ u \in MovieTitles \ unsynced'
        /\ (Lazy(u)' <=> Lazy(u)) /\ BaseText(u)' = BaseText(u)
    BY <1>2, SameTexts
  <2>2. Served(u)' = BaseText(u)
    BY <1>2, <1>3, <1>5, <1>6, <2>1, NowIndexedTexts
  <2>. QED  BY <2>1, <2>2
<1>10. IndexTexts'
  <2>. SUFFICES ASSUME NEW u \in MovieTitles' \ unsynced', u \in IndexedTitles'
                PROVE  index'[Slug[u]] = Doc(u, BaseText(u)')
    BY <1>2 DEF IndexTexts, Doc
  <2>1. u \in MovieTitles \ unsynced' /\ BaseText(u)' = BaseText(u)
    BY <1>2, SameTexts
  <2>2. u \in IndexedTitles \/ u = t
    <3>1. IndexedTitles' = { data[i].title : i \in 1 .. indexed + 1 }
      BY <1>2 DEF IndexedTitles
    <3>2. 1 .. indexed + 1 = (1 .. indexed) \cup {indexed + 1}
      BY <1>1
    <3>. QED  BY <1>4, <3>1, <3>2 DEF IndexedTitles
  <2>3. /\ u # t => u \notin unsynced /\ index'[Slug[u]] = index[Slug[u]]
        /\ u = t => index'[Slug[u]] = Doc(u, BaseText(u))
    BY <1>2, <1>3, <1>5, <1>6, <2>1, NowIndexedTexts
  <2>. QED  BY <1>2, <2>1, <2>2, <2>3 DEF TextsInv, TextsAgree, IndexTexts
<1>. QED  BY <1>7, <1>8, <1>9, <1>10 DEF TextsAgree

\* The end of reindex_all(): every movie has been indexed.
LEMMA ReindexAllEndTexts ==
  ASSUME TextsInv, NamesInv', ReindexAllEnd
  PROVE  TextsAgree'
<1>1. StateInv /\ config \in Configs /\ data \in Seq(Movie)
  BY DEF TextsInv, NamesInv, StateInv, DataInv, DataTypeOK, ManagerTypes
<1>2. /\ job = "reindex_all" /\ job' = "none" /\ indexed = Len(data)
      /\ data' = data /\ csv' = csv /\ cache' = cache /\ phase' = phase
      /\ UNCHANGED <<config, index, stored, unsynced, unsyncedOnDisk, tornOnDisk>>
  BY DEF ReindexAllEnd, dataVars, csv, cacheVars, indexVars
<1>3. phase = "idle"
  BY <1>1, <1>2 DEF StateInv, Stages
<1>4. UniqueFile' /\ DiskTexts' /\ LoadTexts' /\ WrittenTexts'
  <2>1. UniqueFile' /\ DiskTexts'
    BY <1>2 DEF TextsInv, TextsAgree, UniqueFile, UniqueIn, DiskTexts, RowTitles
  <2>. QED  BY <1>2, <1>3, <2>1, QuietTexts
<1>5. ASSUME NEW u
      PROVE  /\ BaseText(u)' = BaseText(u) /\ (Lazy(u)' <=> Lazy(u))
             /\ MovieTitles' = MovieTitles /\ Paged!PageOf(u)' = Paged!PageOf(u)
             /\ (Held(u)' <=> Held(u)) /\ (Held(u) => Served(u)' = Served(u))
  <2>1. IndexOf(u)' = IndexOf(u)
    BY <1>2, SameTexts
  <2>. QED  BY <1>1, <1>2, <2>1, SameTexts, HeldSame, PageSame
<1>6. Coherent'
  <2>. SUFFICES ASSUME NEW u \in MovieTitles' \ unsynced', Held(u)',
                       config = "INDIVIDUAL_CACHE" \/ Lazy(u)'
                PROVE  Served(u)' = BaseText(u)'
    BY <1>2 DEF Coherent
  <2>1. Known(u)
    BY <1>3 DEF Known
  <2>. QED  BY <1>2, <1>5, <2>1 DEF TextsInv, TextsAgree, Coherent
<1>7. LazyPages'
  BY <1>2, <1>5 DEF TextsInv, TextsAgree, LazyPages
<1>8. IndexTexts'
  <2>. SUFFICES ASSUME NEW u \in MovieTitles' \ unsynced'
                PROVE  Known(u)' /\ index[Slug[u]] = Doc(u, BaseText(u)')
    BY <1>2 DEF IndexTexts, Doc
  <2>1. u \in MovieTitles \ unsynced /\ BaseText(u)' = BaseText(u)
    BY <1>2, <1>5
  <2>2. Known(u)'
    BY <1>2, <1>3 DEF Known
  <2>3. IndexedTitles = MovieTitles
    BY <1>1, <1>2 DEF IndexedTitles, MovieTitles
  <2>. QED  BY <1>2, <2>1, <2>2, <2>3 DEF TextsInv, TextsAgree, IndexTexts
<1>. QED  BY <1>4, <1>6, <1>7, <1>8 DEF TextsAgree

\* The file is truncated: what is only there is not known until it is written.
LEMMA FlushTexts ==
  ASSUME TextsInv, NamesInv', Flush
  PROVE  TextsAgree'
<1>1. StateInv /\ config \in Configs /\ file \in [Files -> Seq(Row)]
  BY DEF TextsInv, NamesInv, StateInv, DataInv, DataTypeOK, ManagerTypes
<1>2. /\ phase = "idle" /\ phase' = "save" /\ job = "none" /\ job' = "flush"
      /\ data' = data /\ csv' = <<>> /\ pos' = 1 /\ cache' = cache
      /\ UNCHANGED <<config, index, unsynced, torn>>
  BY <1>1, FlushStep
     DEF Flush, Ready, OpenOutput, csv, Files, cacheVars, indexVars, history
<1>3. UniqueFile' /\ DiskTexts' /\ LoadTexts'
  BY <1>2 DEF UniqueFile, UniqueIn, DiskTexts, LoadTexts
<1>4. ASSUME NEW u \in MovieTitles'
      PROVE  /\ u \in MovieTitles /\ (Lazy(u)' <=> Lazy(u)) /\ (Known(u)' <=> ~ Lazy(u))
             /\ ~ (IndexOf(u)' < pos')
             /\ ~ Lazy(u) => BaseText(u)' = BaseText(u)
             /\ Paged!PageOf(u)' = Paged!PageOf(u)
             /\ (Held(u)' <=> Held(u)) /\ (Held(u) => Served(u)' = Served(u))
  <2>1. u \in MovieTitles /\ IndexOf(u)' = IndexOf(u) /\ (Lazy(u)' <=> Lazy(u))
    BY <1>2 DEF MovieTitles, IndexOf, Lazy
  <2>2. Len(data) \in Nat
    BY <1>1 DEF StateInv, DataInv, DataTypeOK
  <2>3. IndexOf(u) \in 1 .. Len(data)
    BY <1>1, <2>1, MovieHere
  <2>4. ~ (IndexOf(u)' < pos')
    BY <1>2, <2>1, <2>2, <2>3
  <2>5. Known(u)' <=> ~ Lazy(u)
    BY <1>2, <2>1, <2>4 DEF Known
  <2>6. ~ Lazy(u) => BaseText(u)' = BaseText(u)
    BY <1>2, <2>1 DEF Lazy, BaseText
  <2>. QED  BY <1>1, <1>2, <2>1, <2>4, <2>5, <2>6, HeldSame, PageSame
<1>5. ASSUME NEW u \in MovieTitles' \ unsynced', Held(u),
             config = "INDIVIDUAL_CACHE" \/ Lazy(u)
      PROVE  Served(u) = BaseText(u)
  <2>1. Known(u)
    BY <1>2 DEF Known
  <2>. QED  BY <1>2, <1>4, <1>5, <2>1 DEF TextsInv, TextsAgree, Coherent
<1>6. Coherent'
  BY <1>2, <1>4, <1>5 DEF Coherent
<1>7. LazyPages'
  BY <1>2, <1>4 DEF TextsInv, TextsAgree, LazyPages
<1>8. IndexTexts'
  <2>. SUFFICES ASSUME NEW u \in MovieTitles' \ unsynced', ~ torn
                PROVE  IF Known(u)' THEN index[Slug[u]] = Doc(u, BaseText(u)')
                       ELSE Held(u)' => index[Slug[u]] = Doc(u, Served(u)')
    BY <1>2 DEF IndexTexts, Doc
  <2>1. Known(u) /\ u \in MovieTitles \ unsynced
    BY <1>2, <1>4 DEF Known
  <2>2. index[Slug[u]] = Doc(u, BaseText(u))
    BY <1>2, <2>1 DEF TextsInv, TextsAgree, IndexTexts
  <2>. QED  BY <1>4, <1>5, <2>2
<1>9. WrittenTexts'
  BY <1>2, <1>4 DEF WrittenTexts
<1>. QED  BY <1>3, <1>6, <1>7, <1>8, <1>9 DEF TextsAgree

\* The movie whose row is written: what is served of it is its text, unless that
\* is in the row alone.
LEMMA ServedIsWritten ==
  ASSUME TextsInv, phase = "save", NEW t \in MovieTitles \ unsynced, ~ Shadowed(t)
  PROVE  ~ Lazy(t) => Served(t) = BaseText(t)
<1>. SUFFICES ASSUME ~ Lazy(t) PROVE Served(t) = BaseText(t)
  OBVIOUS
<1>1. config \in Configs
  BY DEF TextsInv, NamesInv, StateInv, ManagerTypes
<1>2. CASE config = "NO_CACHE"
  BY <1>2 DEF Served
<1>3. CASE config = "INDIVIDUAL_CACHE"
  <2>1. CASE cache[t] = NotCached
    <3>1. Cached!BaseText(t) = BaseText(t)
      BY CachedData, EmptyAssumption
    <3>. QED  BY <1>3, <2>1, <3>1 DEF Served, Cached!Served
  <2>2. CASE cache[t] # NotCached
    BY <1>3, <2>2 DEF TextsInv, TextsAgree, Coherent, Held, Known
  <2>. QED  BY <2>1, <2>2
<1>4. CASE config = "PAGED_CACHE"
  BY <1>4 DEF Shadowed, Lazy, BaseText
<1>. QED  BY <1>1, <1>2, <1>3, <1>4, ConfigsAssumption

\* A row of flush().  A movie whose text was only in the row is written from the
\* cache, or lost; the caches and the documents agree on the text that is written.
LEMMA FlushRowTexts ==
  ASSUME TextsInv, NamesInv', FlushRow
  PROVE  TextsAgree'
<1>1. /\ StateInv /\ StateInv' /\ DataInv /\ config \in Configs
      /\ data \in Seq(Movie) /\ Len(data) \in Nat /\ pos \in Nat \ {0}
      /\ csv \in Seq(Row) /\ file \in [Files -> Seq(Row)] /\ target = "own"
  BY DEF TextsInv, NamesInv, StateInv, Stages, DataInv, DataTypeOK, ManagerTypes, csv,
         Files
<1>2. PICK t : t = data[pos].title
  OBVIOUS
<1>3. /\ phase = "save" /\ phase' = "save" /\ job = "flush" /\ job' = "flush"
      /\ pos <= Len(data) /\ UseCache(t) /\ data' = data
      /\ WriteMovie(Served(t)) \/ UNCHANGED dataVars
      /\ UNCHANGED <<config, index, torn>>
      /\ unsynced' = unsynced \cup LostBySaving(t)
  BY <1>2, FlushRowStep DEF FlushRow, WriteMovie, dataVars, indexVars, jobVars
<1>4. t \in Titles /\ Exists(t) /\ t \in MovieTitles /\ IndexOf(t) = pos
  <2>1. pos \in 1 .. Len(data)
    BY <1>1, <1>3
  <2>2. pos \in DOMAIN data /\ t \in Titles /\ Exists(t)
    BY <1>1, <1>2, <2>1, MovieAt
  <2>3. IndexOf(t) = pos
    BY <1>1, <1>2, <2>2, MovieOf DEF DataInv
  <2>. QED  BY <2>2, <2>3, ExistingTitles
<1>5. LazyPages'
  BY <1>1, <1>3, <1>4, ReadLazyPages DEF TextsInv, TextsAgree
<1>6. UniqueFile'
  <2>1. /\ Len(csv') = pos' - 1 /\ pos' <= Len(data) + 1 /\ UniqueTitles'
        /\ \A i \in 1 .. pos' - 1 : csv'[i].title = data[i].title
        /\ csv' \in Seq(Row) /\ pos' \in Nat
    <3>1. target' = "own" /\ DataInv'
      BY <1>1 DEF StateInv, Stages
    <3>. QED  BY <1>3, <3>1 DEF DataInv, DataTypeOK, SavePrefix, csv, Files
  <2>2. DOMAIN csv' = 1 .. pos' - 1 /\ 1 .. pos' - 1 \subseteq DOMAIN data
    <3>1. DOMAIN csv' = 1 .. Len(csv')
      BY <2>1
    <3>2. DOMAIN data = 1 .. Len(data)
      BY <1>1
    <3>3. pos' - 1 <= Len(data)
      BY <1>1, <2>1
    <3>4. DOMAIN csv' = 1 .. pos' - 1
      BY <2>1, <3>1
    <3>5. \A a, b \in Int : a <= b => 1 .. a \subseteq 1 .. b
      OBVIOUS
    <3>6. pos' - 1 \in Int /\ Len(data) \in Int
      BY <1>1, <2>1
    <3>. QED  BY <3>2, <3>3, <3>4, <3>5, <3>6
  <2>3. UniqueIn(csv')
    BY <1>3, <2>1, <2>2 DEF UniqueIn, UniqueTitles
  <2>. QED  BY <2>3 DEF UniqueFile, UniqueIn
<1>7. DiskTexts' /\ LoadTexts'
  BY <1>3 DEF DiskTexts, LoadTexts
\* The movies, as far as they are not lost.
<1>8. ASSUME NEW u \in MovieTitles' \ unsynced'
      PROVE  /\ u \in MovieTitles \ unsynced /\ u \in Titles /\ Exists(u)
             /\ IndexOf(u)' = IndexOf(u) /\ IndexOf(u) \in 1 .. Len(data)
             /\ (Lazy(u)' <=> Lazy(u)) /\ (u = t <=> IndexOf(u) = pos)
             /\ u \in ReadWith(t) => ~ Lazy(u)
             /\ u = t => ~ Shadowed(t)
  <2>1. /\ u \in MovieTitles \ unsynced /\ IndexOf(u)' = IndexOf(u)
        /\ (Lazy(u)' <=> Lazy(u)) /\ u \notin LostBySaving(t)
    BY <1>3 DEF MovieTitles, IndexOf, Lazy
  <2>2. /\ u \in Titles /\ Exists(u) /\ IndexOf(u) \in 1 .. Len(data)
        /\ data[IndexOf(u)].title = u
    BY <1>1, <2>1, MovieHere
  <2>3. u = t <=> IndexOf(u) = pos
    BY <1>2, <1>4, <2>2
  <2>. QED  BY <2>1, <2>2, <2>3 DEF LostBySaving, Lazy
\* The rows.
<1>9. ASSUME NEW u \in MovieTitles' \ unsynced', IndexOf(u) < pos
      PROVE  /\ GetField(csv', u) = GetField(csv, u)
             /\ GetField(csv, u) = BaseText(u)
  <2>1. GetField(csv, u) = BaseText(u)
    BY <1>3, <1>8, <1>9 DEF TextsInv, TextsAgree, WrittenTexts
  <2>2. CASE UNCHANGED dataVars
    BY <2>1, <2>2 DEF dataVars, csv
  <2>3. CASE WriteMovie(Served(t))
    <3>1. /\ Len(csv) = pos - 1
          /\ \A i \in 1 .. pos - 1 : csv[i].title = data[i].title
      BY <1>1, <1>3 DEF DataInv, SavePrefix, csv
    <3>2. IndexOf(u) \in DOMAIN csv /\ csv[IndexOf(u)].title = u
      <4>1. IndexOf(u) \in 1 .. pos - 1 /\ DOMAIN csv = 1 .. pos - 1
        BY <1>1, <1>8, <1>9, <3>1
      <4>2. data[IndexOf(u)].title = u
        BY <1>1, <1>8, MovieHere
      <4>. QED  BY <3>1, <4>1, <4>2
    <3>3. Served(t) \in Synopses
      <4>1. \A v : Exists(v) => Exists(v)'
        BY <1>3, SameMovies
      <4>. QED  BY <1>1, <1>3, <1>4, <4>1, ReadKeeps DEF StateInv
    <3>4. csv' = Append(csv, [title |-> t, synopsis |-> Served(t)])
      BY <1>1, <1>2, <2>3 DEF WriteMovie, csv, Files
    <3>5. [title |-> t, synopsis |-> Served(t)] \in Row
      BY <1>4, <3>3 DEF Row
    <3>6. GetField(csv', u) = GetField(csv, u)
      <4> DEFINE r == [title |-> t, synopsis |-> Served(t)]
      <4>. HIDE DEF r
      <4>1. csv' = Append(csv, r) /\ r \in Row
        BY <3>4, <3>5 DEF r
      <4>. QED  BY <1>1, <3>2, <4>1, AppendedRow
    <3>. QED  BY <2>1, <3>6
  <2>. QED  BY <1>3, <2>1, <2>2, <2>3
<1>10. WriteMovie(Served(t)) => GetField(csv', t) = Served(t) /\ pos' = pos + 1
  <2>. SUFFICES ASSUME WriteMovie(Served(t))
                PROVE  GetField(csv', t) = Served(t) /\ pos' = pos + 1
    OBVIOUS
  <2>1. /\ Len(csv) = pos - 1
        /\ \A i \in 1 .. pos - 1 : csv[i].title = data[i].title
    BY <1>1, <1>3 DEF DataInv, SavePrefix, csv
  <2>2. \A i \in DOMAIN csv : csv[i].title # t
    <3>1. DOMAIN csv = 1 .. pos - 1 /\ DOMAIN data = 1 .. Len(data)
      BY <1>1, <2>1
    <3>2. ASSUME NEW i \in 1 .. pos - 1 PROVE data[i].title # t
      <4>1. i \in DOMAIN data /\ pos \in DOMAIN data /\ i # pos
        BY <1>1, <1>3, <3>1
      <4>. QED  BY <1>1, <1>2, <4>1 DEF DataInv, UniqueTitles
    <3>. QED  BY <2>1, <3>1, <3>2
  <2>3. Served(t) \in Synopses
    <3>1. \A v : Exists(v) => Exists(v)'
      BY <1>3, SameMovies
    <3>. QED  BY <1>1, <1>3, <1>4, <3>1, ReadKeeps DEF StateInv
  <2> DEFINE r == [title |-> t, synopsis |-> Served(t)]
  <2>4. csv' = Append(csv, r) /\ pos' = pos + 1
    BY <1>1, <1>2 DEF WriteMovie, csv, Files
  <2>5. r \in Row /\ r.title = t /\ r.synopsis = Served(t)
    BY <1>4, <2>3 DEF Row
  <2>. HIDE DEF r
  <2>. QED  BY <1>1, <2>2, <2>4, <2>5, AppendedRow
<1>11. UNCHANGED dataVars => pos' = pos /\ csv' = csv
  BY DEF dataVars, csv
\* Their texts.
<1>12. ASSUME NEW u \in MovieTitles' \ unsynced'
       PROVE  /\ Known(u) => BaseText(u)' = BaseText(u) /\ Known(u)'
              /\ Known(u)' /\ ~ Known(u) =>
                   u = t /\ Lazy(u) /\ BaseText(u)' = Served(u)
  <2>1. ~ Lazy(u) => BaseText(u)' = BaseText(u)
    BY <1>3, <1>8 DEF Lazy, BaseText
  <2>2. Lazy(u) => BaseText(u)' = GetField(csv', u)
    BY <1>3, <1>8 DEF Lazy, BaseText
  <2>3. pos' \in {pos, pos + 1}
    BY <1>3, <1>10, <1>11
  <2>4. ASSUME Known(u) PROVE BaseText(u)' = BaseText(u) /\ Known(u)'
    <3>1. ~ Lazy(u) \/ IndexOf(u) < pos
      BY <1>3, <2>4 DEF Known
    <3>2. BaseText(u)' = BaseText(u)
      BY <1>9, <2>1, <2>2, <3>1
    <3>3. ~ Lazy(u)' \/ IndexOf(u)' < pos'
      BY <1>1, <1>8, <2>3, <3>1
    <3>. QED  BY <3>2, <3>3 DEF Known
  <2>5. ASSUME Known(u)', ~ Known(u)
        PROVE  u = t /\ Lazy(u) /\ BaseText(u)' = Served(u)
    <3>1. Lazy(u) /\ ~ (IndexOf(u) < pos) /\ IndexOf(u) < pos'
      BY <1>3, <1>8, <2>5 DEF Known
    <3>2. pos' = pos + 1 /\ IndexOf(u) = pos
      BY <1>1, <1>8, <2>3, <3>1
    <3>3. WriteMovie(Served(t))
      BY <1>1, <1>3, <1>11, <3>2
    <3>. QED  BY <1>8, <1>10, <2>2, <3>1, <3>2, <3>3
  <2>. QED  BY <2>4, <2>5
<1>13. ASSUME NEW u \in MovieTitles' \ unsynced', Held(u)',
              config = "INDIVIDUAL_CACHE" \/ Lazy(u)
       PROVE  \/ Held(u) /\ Served(u)' = Served(u)
              \/ ~ Lazy(u) /\ Served(u)' = BaseText(u)
  BY <1>1, <1>3, <1>4, <1>8, <1>13, ReadTexts
<1>14. Coherent'
  <2>. SUFFICES ASSUME NEW u \in MovieTitles' \ unsynced', Held(u)', Known(u)',
                       config = "INDIVIDUAL_CACHE" \/ Lazy(u)'
                PROVE  Served(u)' = BaseText(u)'
    BY <1>3 DEF Coherent
  <2>1. config = "INDIVIDUAL_CACHE" \/ Lazy(u)
    BY <1>8
  <2>2. CASE Held(u) /\ Served(u)' = Served(u)
    <3>1. CASE Known(u)
      BY <1>8, <1>12, <2>1, <2>2, <3>1 DEF TextsInv, TextsAgree, Coherent
    <3>2. CASE ~ Known(u)
      BY <1>12, <2>2, <3>2
    <3>. QED  BY <3>1, <3>2
  <2>3. CASE ~ Lazy(u) /\ Served(u)' = BaseText(u)
    BY <1>12, <2>3 DEF Known
  <2>. QED  BY <1>13, <2>1, <2>2, <2>3
<1>15. IndexTexts'
  <2>. SUFFICES ASSUME NEW u \in MovieTitles' \ unsynced', ~ torn
                PROVE  IF Known(u)' THEN index[Slug[u]] = Doc(u, BaseText(u)')
                       ELSE Held(u)' => index[Slug[u]] = Doc(u, Served(u)')
    BY <1>3 DEF IndexTexts, Doc
  <2>1. IF Known(u) THEN index[Slug[u]] = Doc(u, BaseText(u))
        ELSE Held(u) => index[Slug[u]] = Doc(u, Served(u))
    BY <1>3, <1>8 DEF TextsInv, TextsAgree, IndexTexts
  <2>2. CASE Known(u)
    BY <1>12, <2>1, <2>2
  <2>3. CASE ~ Known(u) /\ Known(u)'
    <3>1. u = t /\ Lazy(u) /\ BaseText(u)' = Served(u)
      BY <1>12, <2>3
    <3>2. u \notin ReadWith(t) /\ config # "NO_CACHE"
      <4>1. config # "NO_CACHE"
        <5>1. IndexOf(u) \in DOMAIN data
          BY <1>1, <1>8
        <5>. QED  BY <1>1, <3>1, <5>1 DEF StateInv, NoLazy, Lazy
      <4>. QED  BY <1>8, <3>1, <4>1
    <3>3. Held(u)
      BY <1>1, <1>4, <3>1, <3>2, ReadItself
    <3>. QED  BY <2>1, <2>3, <3>1, <3>3
  <2>4. CASE ~ Known(u) /\ ~ Known(u)'
    <3>1. Lazy(u)
      BY <2>4 DEF Known
    <3>2. Held(u)' => Held(u) /\ Served(u)' = Served(u)
      BY <1>13, <3>1
    <3>. QED  BY <2>1, <2>4, <3>2
  <2>. QED  BY <2>2, <2>3, <2>4
<1>16. WrittenTexts'
  <2>. SUFFICES ASSUME NEW u \in MovieTitles' \ unsynced', IndexOf(u)' < pos'
                PROVE  GetField(csv', u) = BaseText(u)'
    BY <1>3 DEF WrittenTexts
  <2>1. CASE IndexOf(u) < pos
    BY <1>9, <1>12, <2>1 DEF Known
  <2>2. CASE ~ (IndexOf(u) < pos)
    <3>1. pos' \in {pos, pos + 1}
      BY <1>3, <1>10, <1>11
    <3>2. pos' = pos + 1 /\ IndexOf(u) = pos
      BY <1>1, <1>8, <2>2, <3>1
    <3>3. WriteMovie(Served(t)) /\ u = t
      BY <1>1, <1>3, <1>8, <1>11, <3>2
    <3>4. GetField(csv', u) = Served(u)
      BY <1>10, <3>3
    <3>5. CASE Lazy(u)
      BY <1>3, <1>8, <3>5 DEF Lazy, BaseText
    <3>6. CASE ~ Lazy(u)
      <4>1. Served(u) = BaseText(u)
        BY <1>3, <1>8, <3>3, <3>6, ServedIsWritten
      <4>2. BaseText(u)' = BaseText(u)
        BY <1>12, <3>6 DEF Known
      <4>. QED  BY <3>4, <4>1, <4>2
    <3>. QED  BY <3>5, <3>6
  <2>. QED  BY <2>1, <2>2
<1>. QED  BY <1>5, <1>6, <1>7, <1>14, <1>15, <1>16 DEF TextsAgree

\* Every row is written: every text is known again.
LEMMA FlushSavedTexts ==
  ASSUME TextsInv, NamesInv', FlushSaved
  PROVE  TextsAgree'
<1>1. /\ StateInv /\ config \in Configs /\ file \in [Files -> Seq(Row)]
      /\ target = "own" /\ Len(data) \in Nat /\ pos \in Nat
  BY DEF TextsInv, NamesInv, StateInv, Stages, DataInv, DataTypeOK, ManagerTypes
<1>2. /\ phase = "save" /\ phase' = "idle" /\ job = "flush" /\ job' = "flush"
      /\ pos > Len(data) /\ data' = data /\ csv' = csv /\ cache' = cache
      /\ UNCHANGED <<config, index, unsynced, torn>>
  BY <1>1, FlushSavedStep
     DEF FlushSaved, CloseOutput, ForgetCopy, csv, Files, cacheVars, indexVars, jobVars,
         history
<1>3. UniqueFile' /\ DiskTexts' /\ LoadTexts'
  BY <1>2 DEF TextsInv, TextsAgree, UniqueFile, UniqueIn, DiskTexts, LoadTexts
<1>4. ASSUME NEW u \in MovieTitles'
      PROVE  /\ u \in MovieTitles /\ IndexOf(u) < pos /\ Known(u) /\ Known(u)'
             /\ BaseText(u)' = BaseText(u) /\ (Lazy(u)' <=> Lazy(u))
             /\ Paged!PageOf(u)' = Paged!PageOf(u)
             /\ (Held(u)' <=> Held(u)) /\ (Held(u) => Served(u)' = Served(u))
  <2>1. /\ u \in MovieTitles /\ IndexOf(u)' = IndexOf(u)
        /\ BaseText(u)' = BaseText(u) /\ (Lazy(u)' <=> Lazy(u))
    BY <1>2, SameTexts
  <2>2. IndexOf(u) \in 1 .. Len(data)
    BY <1>1, <2>1, MovieHere
  <2>3. IndexOf(u) < pos
    BY <1>1, <1>2, <2>2
  <2>. QED  BY <1>1, <1>2, <2>1, <2>3, HeldSame, PageSame DEF Known
<1>5. Coherent'
  <2>. SUFFICES ASSUME NEW u \in MovieTitles' \ unsynced', Held(u)',
                       config = "INDIVIDUAL_CACHE" \/ Lazy(u)'
                PROVE  Served(u)' = BaseText(u)'
    BY <1>2 DEF Coherent
  <2>. QED  BY <1>2, <1>4 DEF TextsInv, TextsAgree, Coherent
<1>6. LazyPages'
  BY <1>2, <1>4 DEF TextsInv, TextsAgree, LazyPages
<1>7. IndexTexts'
  <2>. SUFFICES ASSUME NEW u \in MovieTitles' \ unsynced', ~ torn
                PROVE  Known(u)' /\ index[Slug[u]] = Doc(u, BaseText(u)')
    BY <1>2 DEF IndexTexts, Doc
  <2>. QED  BY <1>2, <1>4 DEF TextsInv, TextsAgree, IndexTexts
<1>8. WrittenTexts'
  <2>. SUFFICES ASSUME NEW u \in MovieTitles' \ unsynced'
                PROVE  GetField(csv', u) = BaseText(u)'
    BY DEF WrittenTexts
  <2>. QED  BY <1>2, <1>4 DEF TextsInv, TextsAgree, WrittenTexts
<1>. QED  BY <1>3, <1>5, <1>6, <1>7, <1>8 DEF TextsAgree

\* The commit: what the index says of the movies it says of their rows.
LEMMA FlushCommitTexts ==
  ASSUME TextsInv, NamesInv', FlushCommit
  PROVE  TextsAgree'
<1>1. StateInv /\ config \in Configs
  BY DEF TextsInv, NamesInv, StateInv, ManagerTypes
<1>2. /\ phase = "idle" /\ phase' = "idle" /\ job = "flush" /\ job' = "none"
      /\ data' = data /\ csv' = csv /\ cache' = cache
      /\ UNCHANGED <<config, index, unsynced, torn>>
      /\ stored' = index /\ unsyncedOnDisk' = unsynced /\ tornOnDisk' = torn
  BY DEF FlushCommit, IndexCommit, dataVars, csv, cacheVars
<1>3. UniqueFile' /\ LoadTexts' /\ WrittenTexts'
  BY <1>2, QuietTexts DEF TextsInv, TextsAgree, UniqueFile, UniqueIn
<1>4. ASSUME NEW u
      PROVE  /\ BaseText(u)' = BaseText(u) /\ (Lazy(u)' <=> Lazy(u))
             /\ MovieTitles' = MovieTitles /\ RowTitles' = RowTitles
             /\ Known(u) /\ Known(u)' /\ Paged!PageOf(u)' = Paged!PageOf(u)
             /\ (Held(u)' <=> Held(u)) /\ (Held(u) => Served(u)' = Served(u))
  <2>1. IndexOf(u)' = IndexOf(u)
    BY <1>2, SameTexts
  <2>. QED  BY <1>1, <1>2, <2>1, SameTexts, HeldSame, PageSame DEF Known
<1>5. Coherent'
  <2>. SUFFICES ASSUME NEW u \in MovieTitles' \ unsynced', Held(u)',
                       config = "INDIVIDUAL_CACHE" \/ Lazy(u)'
                PROVE  Served(u)' = BaseText(u)'
    BY <1>2 DEF Coherent
  <2>. QED  BY <1>2, <1>4 DEF TextsInv, TextsAgree, Coherent
<1>6. LazyPages'
  BY <1>2, <1>4 DEF TextsInv, TextsAgree, LazyPages
<1>7. ASSUME NEW u \in MovieTitles \ unsynced, ~ torn
      PROVE  index[Slug[u]] = Doc(u, BaseText(u))
  BY <1>2, <1>4, <1>7 DEF TextsInv, TextsAgree, IndexTexts
<1>8. IndexTexts'
  <2>. SUFFICES ASSUME NEW u \in MovieTitles' \ unsynced', ~ torn
                PROVE  Known(u)' /\ index[Slug[u]] = Doc(u, BaseText(u)')
    BY <1>2 DEF IndexTexts, Doc
  <2>. QED  BY <1>2, <1>4, <1>7
<1>9. DiskTexts'
  <2>. SUFFICES ASSUME NEW u \in RowTitles' \ unsynced, ~ torn
                PROVE  index[Slug[u]] = Doc(u, GetField(csv, u))
    BY <1>2 DEF DiskTexts, Doc
  <2>1. u \in MovieTitles
    <3>1. RowTitles = MovieTitles
      BY <1>2 DEF TextsInv, NamesInv, SavedAll
    <3>. QED  BY <1>4, <3>1
  <2>2. GetField(csv, u) = BaseText(u)
    BY <1>2, <2>1 DEF TextsInv, TextsAgree, WrittenTexts
  <2>. QED  BY <1>7, <2>1, <2>2
<1>. QED  BY <1>3, <1>5, <1>6, <1>8, <1>9 DEF TextsAgree

\* A new manager: an empty cache, and the two halves as they are on disk.
LEMMA RebornTexts ==
  ASSUME TextsInv, NamesInv', NEW isTorn, Reborn(isTorn),
         data' = <<>>, phase' = "load", UniqueFile',
         ~ isTorn => job # "flush" /\ ~ tornOnDisk /\ csv' = csv
  PROVE  TextsAgree'
<1>1. /\ job' = "none" /\ index' = stored /\ stored' = stored
      /\ torn' = isTorn /\ tornOnDisk' = isTorn
      /\ unsynced' = (IF isTorn THEN {} ELSE unsyncedOnDisk)
      /\ unsyncedOnDisk' = unsynced' /\ (cache = EmptyCache(config))'
  BY DEF Reborn, IndexReopen, EmptyCache
<1>2. MovieTitles' = {}
  BY DEF MovieTitles
<1>3. LazyPages' /\ Coherent' /\ IndexTexts' /\ WrittenTexts'
  BY <1>1, <1>2 DEF LazyPages, Coherent, IndexTexts, WrittenTexts
<1>4. ASSUME ~ isTorn, NEW u \in RowTitles' \ unsyncedOnDisk
      PROVE  stored[Slug[u]] = Doc(u, GetField(csv', u))
  BY <1>4 DEF TextsInv, TextsAgree, DiskTexts, RowTitles
<1>5. DiskTexts' /\ LoadTexts'
  BY <1>1, <1>2, <1>4 DEF DiskTexts, LoadTexts, Doc
<1>. QED  BY <1>3, <1>5 DEF TextsAgree

\* The program dies: the next has the two halves on disk, torn in a flush().
LEMMA CrashTexts ==
  ASSUME TextsInv, NamesInv', Crash
  PROVE  TextsAgree'
<1>1. /\ Reborn(tornOnDisk \/ job = "flush")
      /\ data' = <<>> /\ phase' = "load" /\ csv' = csv
  <2>1. file \in [Files -> Seq(Row)]
    BY DEF TextsInv, NamesInv, StateInv, DataInv, DataTypeOK
  <2>. QED  BY <2>1 DEF Crash, Reopen, ForgetCopy, csv, Files
<1>2. UniqueFile'
  BY <1>1 DEF TextsInv, TextsAgree, UniqueFile, UniqueIn
<1>. QED  BY <1>1, <1>2, RebornTexts

\* It dies in an edit of the file, which is gone.
LEMMA CrashInEditTexts ==
  ASSUME TextsInv, NamesInv', NEW t \in Titles, CrashInEdit(t)
  PROVE  TextsAgree'
<1>1. Reborn(TRUE) /\ data' = <<>> /\ phase' = "load" /\ csv' = <<>>
  <2>1. file \in [Files -> Seq(Row)]
    BY DEF TextsInv, NamesInv, StateInv, DataInv, DataTypeOK
  <2>. QED  BY <2>1 DEF CrashInEdit, csv, Files
<1>2. UniqueFile'
  BY <1>1 DEF UniqueFile, UniqueIn
<1>. QED  BY <1>1, <1>2, RebornTexts

\* Nothing happens.
LEMMA StutterTexts ==
  ASSUME TextsInv, NamesInv', UNCHANGED vars
  PROVE  TextsAgree'
<1>1. /\ data' = data /\ csv' = csv /\ phase' = phase /\ pos' = pos /\ cache' = cache
      /\ UNCHANGED <<config, index, stored, job, indexed, unsynced, unsyncedOnDisk, torn,
                     tornOnDisk>>
  BY DEF vars, dataVars, csv, cacheVars, indexVars, jobVars, history
<1>2. config \in Configs
  BY DEF TextsInv, NamesInv, StateInv, ManagerTypes
<1>3. ASSUME NEW u
      PROVE  /\ BaseText(u)' = BaseText(u) /\ (Lazy(u)' <=> Lazy(u))
             /\ MovieTitles' = MovieTitles /\ RowTitles' = RowTitles
             /\ IndexOf(u)' = IndexOf(u) /\ (Known(u)' <=> Known(u))
             /\ Paged!PageOf(u)' = Paged!PageOf(u)
             /\ (Held(u)' <=> Held(u)) /\ (Held(u) => Served(u)' = Served(u))
  <2>1. IndexOf(u)' = IndexOf(u) /\ (Lazy(u)' <=> Lazy(u))
    BY <1>1, SameTexts
  <2>. QED  BY <1>1, <1>2, <2>1, SameTexts, HeldSame, PageSame DEF Known
<1>4. UniqueFile' /\ DiskTexts'
  BY <1>1, SameDisk DEF TextsInv, TextsAgree
<1>5. LazyPages' /\ Coherent'
  BY <1>1, <1>3 DEF TextsInv, TextsAgree, LazyPages, Coherent
<1>6. IndexTexts'
  <2>1. IndexedTitles' = IndexedTitles
    BY <1>1 DEF IndexedTitles
  <2>. QED  BY <1>1, <1>3, <2>1 DEF TextsInv, TextsAgree, IndexTexts, Doc
<1>7. LoadTexts' /\ WrittenTexts'
  BY <1>1, <1>3 DEF TextsInv, TextsAgree, LoadTexts, WrittenTexts, EmptyCache, Doc
<1>. QED  BY <1>4, <1>5, <1>6, <1>7 DEF TextsAgree

\* The invariant of the texts, one step per action.
LEMMA TextsNext == TextsInv /\ [Next]_vars => TextsInv'
<1>. SUFFICES ASSUME TextsInv, NamesInv', [Next]_vars PROVE TextsAgree'
  BY NamesNext DEF TextsInv
<1>1. CASE Load
  <2>1. CASE LoadDone
    BY <1>1, <2>1, LoadDoneTexts
  <2>2. ASSUME NEW base \in {FromCsv, csv[pos].synopsis}, LoadMovie(base)
        PROVE  TextsAgree'
    BY <1>1, <2>2, LoadMovieTexts
  <2>. QED  BY <1>1, <2>1, <2>2, LoadStep
<1>2. CASE \E t \in Titles, s \in Synopses : AddMovie(t, s) \/ EditMovie(t, s)
  BY <1>2, AddMovieTexts, EditMovieTexts
<1>3. CASE \E t \in Titles :
             RemoveMovie(t) \/ ReadMovie(t) \/ Reindex(t) \/ CrashInEdit(t)
  BY <1>3, RemoveMovieTexts, ReadMovieTexts, ReindexTexts, CrashInEditTexts
<1>4. CASE ReindexAll \/ ReindexAllMovie \/ ReindexAllEnd
  BY <1>4, ReindexAllTexts, ReindexAllMovieTexts, ReindexAllEndTexts
<1>5. CASE Flush \/ FlushRow \/ FlushSaved \/ FlushCommit
  BY <1>5, FlushTexts, FlushRowTexts, FlushSavedTexts, FlushCommitTexts
<1>6. CASE Crash
  BY <1>6, CrashTexts
<1>7. CASE UNCHANGED vars
  BY <1>7, StutterTexts
<1>. QED  BY <1>1, <1>2, <1>3, <1>4, <1>5, <1>6, <1>7 DEF Next

\* The files a manager with a paged cache starts with have one row per title: of
\* two rows load_page takes the last and get_field the first.
FilesUnique == "PAGED_CACHE" \in Configs => \A rows \in InitialCsv : UniqueIn(rows)

\* A new program beside such a file.
LEMMA InitTexts == FilesUnique /\ Init => TextsInv
<1>. SUFFICES ASSUME FilesUnique, Init PROVE TextsAgree
  BY InitNames DEF TextsInv
<1>1. /\ data = <<>> /\ phase = "load" /\ job = "none" /\ csv \in InitialCsv
      /\ cache = EmptyCache(config) /\ tornOnDisk = torn
  BY DEF Init, DataInit, csv, Files
<1>2. MovieTitles = {}
  BY <1>1 DEF MovieTitles
<1>3. ~ torn => RowTitles = {}
  <2>1. ~ torn => csv = <<>>
    BY Zenon DEF Init
  <2>. QED  BY <2>1 DEF RowTitles
<1>4. UniqueFile
  BY <1>1 DEF FilesUnique, UniqueFile
<1>. QED
  BY <1>1, <1>2, <1>3, <1>4 DEF TextsAgree, LazyPages, Coherent, IndexTexts, LoadTexts,
                                DiskTexts, WrittenTexts

\* The texts in the catalog, its cache, the file, the index and its copy on disk
\* agree, but for those remembered in "unsynced".
THEOREM TextsInvariance == FilesUnique /\ Spec => []TextsInv
BY InitTexts, TextsNext, PTL DEF Spec

\* Every movie has its document, with its text, whatever reads of which class's
\* cache made the document and whatever crashes, jobs and reads came between;
\* but for the movies edited, added twice, hidden by another of their term, or
\* lost by a flush (media_manager.cpp:60-85).
THEOREM IndexMatches == FilesUnique /\ Spec => []IndexMatchesCatalog
<1>1. TextsInv => IndexMatchesCatalog
  <2>. SUFFICES ASSUME TextsInv, Ready, ~ torn, NEW i \in DOMAIN data,
                       data[i].title \notin unsynced
                PROVE  index[Slug[data[i].title]]
                         = Doc(data[i].title, BaseText(data[i].title))
    BY DEF IndexMatchesCatalog
  <2>1. data[i].title \in MovieTitles \ unsynced /\ Known(data[i].title)
    BY DEF MovieTitles, Known, Ready
  <2>. QED  BY <2>1 DEF TextsInv, TextsAgree, IndexTexts, Ready
<1>. QED  BY <1>1, TextsInvariance, PTL

=============================================================================

------------------------ MODULE CachedCatalog_proofs ------------------------
(***************************************************************************)
(* What holds of CachedCatalog for every set of titles and texts, every    *)
(* file, client, cache size and bound on stale entries.                    *)
(*                                                                         *)
(* One inductive invariant carries every theorem.  Its parts need each     *)
(* other: a hit is defined only if the order still has the title           *)
(* (CachedInOrder), which remove() preserves by never touching the order;  *)
(* what a hit serves belongs to a movie only because remove() does touch   *)
(* the map (CachedInCatalog); a load reads a text only because the movie   *)
(* is there once (UniqueTitles) with a row of its own (LazyRowsPresent),   *)
(* and a save over the file gives every movie its row back only because    *)
(* the rows written so far are those of a prefix (SavePrefix).             *)
(*                                                                         *)
(* What holds only up to a call of the client is proved of CachedUsage,    *)
(* with a second invariant, UInv, on top of the first, and a third, RInv,  *)
(* that relates the order to the reads of the client.                      *)
(***************************************************************************)
EXTENDS CachedUsage, CatalogData_proofs

CacheTypeOK ==
  /\ cache \in [Titles -> Synopses \cup {NotCached}]
  /\ order \in Seq(Titles)
  /\ cacheSize \in CacheSizes
  /\ fault \in BOOLEAN

CacheInv == CacheTypeOK /\ CachedInOrder /\ FaultOnlyWhenZero

IInv == DataInv /\ CacheInv /\ CachedInCatalog

-----------------------------------------------------------------------------
(* The cache *)

\* A hit finds its title in the order: erase(end()) does not run.
LEMMA HitInv ==
  ASSUME CacheInv, NEW t \in Titles, Hit(t)
  PROVE  CacheInv' /\ cache' = cache
<1>1. /\ cache \in [Titles -> Synopses \cup {NotCached}]
      /\ order \in Seq(Titles)
      /\ cache[t] # NotCached
      /\ UNCHANGED <<cache, cacheSize>>
  BY DEF CacheInv, CacheTypeOK, Hit
<1>2. PICK i \in 1 .. Len(order) + 1 :
        /\ FindsAt(t, i)
        /\ order' = Append(RemoveAt(order, i), t)
        /\ fault' = (i = Len(order) + 1)
  BY DEF Hit
<1>3. Len(order) \in Nat /\ DOMAIN order = 1 .. Len(order)
  BY <1>1
<1>4. PICK k \in DOMAIN order : order[k] = t
  BY <1>1 DEF CacheInv, CachedInOrder, CachedTitles
<1>5. i <= Len(order) /\ order[i] = t
  BY <1>2, <1>3, <1>4 DEF FindsAt
<1>6. fault' = FALSE
  <2>1. ~ (i = Len(order) + 1)
    BY <1>3, <1>5
  <2>. QED  BY <1>2, <2>1, Zenon
<1> DEFINE rest == RemoveAt(order, i)
<1>7. /\ rest \in Seq(Titles)
      /\ Len(rest) = Len(order) - 1
      /\ \A j \in 1 .. Len(rest) : rest[j] = IF j < i THEN order[j] ELSE order[j + 1]
  BY <1>1, <1>2, <1>5, RemoveAtSeq
<1>8. /\ order' \in Seq(Titles)
      /\ DOMAIN order' = 1 .. Len(order)
      /\ \A j \in 1 .. Len(order) - 1 : order'[j] = rest[j]
      /\ order'[Len(order)] = t
  <2>1. order' = Append(rest, t)
    BY <1>2
  <2>2. Len(order) \in Nat \ {0}
    BY <1>3, <1>4
  <2>. HIDE DEF rest
  <2>3. /\ order' \in Seq(Titles)
        /\ Len(order') = Len(order)
        /\ \A j \in 1 .. Len(rest) : order'[j] = rest[j]
        /\ order'[Len(rest) + 1] = t
    BY <1>7, <2>1, <2>2, AppendProperties
  <2>. QED  BY <1>7, <2>2, <2>3
<1>9. ASSUME NEW j \in DOMAIN order
      PROVE  \E n \in DOMAIN order' : order'[n] = order[j]
  <2>1. CASE j < i
    <3>1. j \in 1 .. Len(order) - 1
      BY <1>2, <1>3, <1>5, <2>1
    <3>2. rest[j] = order[j]
      BY <1>7, <2>1, <3>1
    <3>3. j \in DOMAIN order'
      BY <1>3, <1>8, <3>1
    <3>. QED  BY <1>8, <3>1, <3>2, <3>3
  <2>2. CASE j = i
    BY <1>3, <1>5, <1>8, <2>2
  <2>3. CASE j > i
    <3>1. /\ j - 1 \in 1 .. Len(order) - 1
          /\ ~ (j - 1 < i)
          /\ (j - 1) + 1 = j
      BY <1>2, <1>3, <2>3
    <3>2. rest[j - 1] = order[j]
      BY <1>7, <3>1
    <3>. QED  BY <1>8, <3>1, <3>2
  <2>. QED  BY <1>2, <1>3, <2>1, <2>2, <2>3
<1>10. CachedInOrder'
  <2>1. ASSUME NEW u \in Titles, cache[u] # NotCached
        PROVE  \E n \in DOMAIN order' : order'[n] = u
    <3>1. PICK j \in DOMAIN order : order[j] = u
      BY <2>1 DEF CacheInv, CachedInOrder, CachedTitles
    <3>. QED  BY <1>9, <3>1
  <2>. QED  BY <1>1, <2>1 DEF CachedInOrder, CachedTitles
<1>11. CacheTypeOK'
  BY <1>1, <1>6, <1>8 DEF CacheInv, CacheTypeOK
<1>. QED  BY <1>1, <1>6, <1>10, <1>11 DEF CacheInv, FaultOnlyWhenZero

\* A load with room left appends its title.
LEMMA LoadFreeInv ==
  ASSUME CacheInv, NEW t \in Titles, BaseText(t) \in Synopses, LoadFree(t)
  PROVE  CacheInv' /\ cache' = [cache EXCEPT ![t] = BaseText(t)]
<1>1. /\ cache \in [Titles -> Synopses \cup {NotCached}]
      /\ order \in Seq(Titles)
      /\ cache' = [cache EXCEPT ![t] = BaseText(t)]
      /\ order' = Append(order, t)
      /\ UNCHANGED <<cacheSize, fault>>
  BY DEF CacheInv, CacheTypeOK, LoadFree
<1>2. /\ order' \in Seq(Titles)
      /\ DOMAIN order = 1 .. Len(order) /\ Len(order) \in Nat
      /\ DOMAIN order' = 1 .. Len(order) + 1
      /\ \A j \in DOMAIN order : order'[j] = order[j]
      /\ order'[Len(order) + 1] = t
  BY <1>1, AppendProperties
<1>3. CacheTypeOK'
  BY <1>1, <1>2 DEF CacheInv, CacheTypeOK
<1>4. ASSUME NEW u \in Titles, cache'[u] # NotCached
      PROVE  \E n \in DOMAIN order' : order'[n] = u
  <2>1. CASE u = t
    BY <1>2, <2>1
  <2>2. CASE u # t
    <3>1. PICK j \in DOMAIN order : order[j] = u
      BY <1>1, <1>4, <2>2 DEF CacheInv, CachedInOrder, CachedTitles
    <3>. QED  BY <1>2, <3>1
  <2>. QED  BY <2>1, <2>2
<1>. QED
  BY <1>1, <1>3, <1>4 DEF CacheInv, CachedInOrder, CachedTitles, FaultOnlyWhenZero

\* An eviction takes the front of the order, and from the map no other title.
LEMMA LoadEvictInv ==
  ASSUME CacheInv, NEW t \in Titles, BaseText(t) \in Synopses, LoadEvict(t)
  PROVE  /\ CacheInv'
         /\ \A u \in Titles : cache'[u] # NotCached => cache[u] # NotCached \/ u = t
<1>1. /\ cache \in [Titles -> Synopses \cup {NotCached}]
      /\ order \in Seq(Titles)
      /\ order # <<>>
      /\ cache' = [cache EXCEPT ![Head(order)] = NotCached, ![t] = BaseText(t)]
      /\ order' = Append(Tail(order), t)
      /\ UNCHANGED <<cacheSize, fault>>
  BY DEF CacheInv, CacheTypeOK, LoadEvict
<1>2. /\ Head(order) = order[1] /\ Head(order) \in Titles
      /\ Tail(order) \in Seq(Titles)
      /\ Len(Tail(order)) = Len(order) - 1
      /\ \A j \in 1 .. Len(order) - 1 : Tail(order)[j] = order[j + 1]
      /\ DOMAIN order = 1 .. Len(order) /\ Len(order) \in Nat \ {0}
  BY <1>1
<1>3. /\ order' \in Seq(Titles)
      /\ DOMAIN order' = 1 .. Len(order)
      /\ \A j \in 1 .. Len(order) - 1 : order'[j] = order[j + 1]
      /\ order'[Len(order)] = t
  BY <1>1, <1>2, AppendProperties
<1>4. \A u \in Titles :
        cache'[u] = IF u = t THEN BaseText(t)
                    ELSE IF u = Head(order) THEN NotCached ELSE cache[u]
  BY <1>1, <1>2
<1>5. CacheTypeOK'
  BY <1>1, <1>2, <1>3 DEF CacheInv, CacheTypeOK
<1>6. ASSUME NEW u \in Titles, cache'[u] # NotCached
      PROVE  \E n \in DOMAIN order' : order'[n] = u
  <2>1. CASE u = t
    BY <1>2, <1>3, <2>1
  <2>2. CASE u # t
    <3>1. PICK j \in DOMAIN order : order[j] = u
      BY <1>4, <1>6, <2>2 DEF CacheInv, CachedInOrder, CachedTitles
    <3>2. j # 1
      BY <1>2, <1>4, <1>6, <2>2, <3>1
    <3>3. j - 1 \in 1 .. Len(order) - 1 /\ (j - 1) + 1 = j
      BY <1>2, <3>2
    <3>. QED  BY <1>2, <1>3, <3>1, <3>3
  <2>. QED  BY <2>1, <2>2
<1>. QED
  BY <1>1, <1>4, <1>5, <1>6
     DEF CacheInv, CachedInOrder, CachedTitles, FaultOnlyWhenZero

\* front() of an empty order: then nothing is cached, and the cache is full of
\* nothing only when its size is 0.
LEMMA LoadFaultInv ==
  ASSUME CacheInv, NEW t \in Titles, LoadFault(t)
  PROVE  CacheInv' /\ cache' = cache
<1>1. /\ Cardinality(CachedTitles) >= cacheSize
      /\ order = <<>>
      /\ fault' = TRUE
      /\ UNCHANGED <<cache, order, cacheSize>>
  BY DEF LoadFault
<1>2. CachedTitles = {}
  BY <1>1 DEF CacheInv, CachedInOrder
<1>3. Cardinality(CachedTitles) = 0
  BY <1>2, FS_EmptySet
<1>4. cacheSize \in Nat
  BY CacheSizesAssumption DEF CacheInv, CacheTypeOK
<1>5. cacheSize = 0
  BY <1>1, <1>3, <1>4
<1>. QED
  BY <1>1, <1>5
     DEF CacheInv, CacheTypeOK, CachedInOrder, CachedTitles, FaultOnlyWhenZero

\* Every way through get_synopsis_using_cache.
LEMMA UseCacheInv ==
  ASSUME CacheInv, NEW t \in Titles, BaseText(t) \in Synopses, UseCache(t)
  PROVE  /\ CacheInv'
         /\ \A u \in Titles : cache'[u] # NotCached => cache[u] # NotCached \/ u = t
<1>1. CASE Hit(t)
  BY <1>1, HitInv
<1>2. CASE LoadFree(t)
  BY <1>2, LoadFreeInv DEF CacheInv, CacheTypeOK
<1>3. CASE LoadEvict(t)
  BY <1>3, LoadEvictInv
<1>4. CASE LoadFault(t)
  BY <1>4, LoadFaultInv
<1>. QED  BY <1>1, <1>2, <1>3, <1>4 DEF UseCache

\* A step that leaves the cache alone leaves its invariant alone.
LEMMA UnchangedCache ==
  ASSUME CacheInv, UNCHANGED cacheVars
  PROVE  CacheInv' /\ cache' = cache
BY DEF CacheInv, CacheTypeOK, CachedInOrder, CachedTitles, FaultOnlyWhenZero, cacheVars

\* What is cached stays in the catalog when neither loses a title.
LEMMA CatalogKept ==
  ASSUME CachedInCatalog,
         \A u \in Titles : cache'[u] # NotCached => cache[u] # NotCached,
         \A u : Exists(u) => Exists(u)'
  PROVE  CachedInCatalog'
BY DEF CachedInCatalog, CachedTitles

-----------------------------------------------------------------------------
(* The invariant *)

\* Nothing is cached and nothing is in the catalog.
LEMMA InitInv == Init => IInv
<1>. SUFFICES ASSUME Init PROVE IInv
  OBVIOUS
<1>1. DataInv
  BY DataInitInv DEF Init
<1>2. CachedTitles = {}
  BY DEF Init, CachedTitles
<1>3. CacheTypeOK
  <2>1. cache \in [Titles -> Synopses \cup {NotCached}]
    BY DEF Init
  <2>2. order \in Seq(Titles) /\ cacheSize \in CacheSizes
    BY DEF Init
  <2>3. fault \in BOOLEAN
    BY Zenon DEF Init
  <2>. QED  BY <2>1, <2>2, <2>3 DEF CacheTypeOK
<1>. QED
  BY <1>1, <1>2, <1>3
     DEF Init, IInv, CacheInv, CachedInOrder, CachedInCatalog, FaultOnlyWhenZero

\* A step that reads a synopsis, of the client or of save().
LEMMA ReadInv ==
  ASSUME IInv, NEW t \in Titles, Exists(t), UseCache(t),
         DataInv', \A u : Exists(u)' <=> Exists(u)
  PROVE  IInv'
<1>1. BaseText(t) \in Synopses
  BY MovieOf DEF IInv, DataInv
<1>2. /\ CacheInv'
      /\ \A u \in Titles : cache'[u] # NotCached => cache[u] # NotCached \/ u = t
  BY <1>1, UseCacheInv DEF IInv
<1>3. CachedInCatalog'
  BY <1>2 DEF IInv, CachedInCatalog, CachedTitles
<1>. QED  BY <1>2, <1>3 DEF IInv

\* What is read while the cache answers is a text.
LEMMA ServedType ==
  ASSUME IInv, NEW t \in Titles, Exists(t)
  PROVE  Served(t) \in Synopses
<1>1. BaseText(t) \in Synopses
  BY MovieOf DEF IInv, DataInv
<1>2. cache[t] \in Synopses \cup {NotCached}
  BY DEF IInv, CacheInv, CacheTypeOK
<1>. QED  BY <1>1, <1>2 DEF Served

\* One step per action; what the movies do is in CatalogData_proofs.
LEMMA NextInv == IInv /\ [Next]_vars => IInv'
<1>. SUFFICES ASSUME IInv, [Next]_vars PROVE IInv'
  OBVIOUS
<1>. USE DEF IInv
<1>1. CASE Load
  <2>1. LoadMovie(FromCsv) /\ UNCHANGED cacheVars
    BY <1>1 DEF Load
  <2>2. DataInv' /\ \A u : Exists(u) => Exists(u)'
    BY <2>1, LoadInv
  <2>. QED  BY <2>1, <2>2, UnchangedCache, CatalogKept
<1>2. CASE LoadEnd
  <2>1. LoadDone /\ UNCHANGED cacheVars
    BY <1>2 DEF LoadEnd
  <2>2. DataInv' /\ \A u : Exists(u)' <=> Exists(u)
    BY <2>1, LoadDoneInv
  <2>. QED  BY <2>1, <2>2, UnchangedCache, CatalogKept
<1>3. ASSUME NEW t \in Titles, NEW s \in Synopses, AddMovie(t, s)
      PROVE  IInv'
  <2>1. /\ phase = "idle" /\ PushMovie(t, s)
        /\ UNCHANGED <<file, phase, pos, target>>
        /\ UNCHANGED cacheVars
    BY <1>3 DEF AddMovie
  <2>2. DataInv' /\ \A u : Exists(u) => Exists(u)'
    BY <2>1, AddInv
  <2>. QED  BY <2>1, <2>2, UnchangedCache, CatalogKept
<1>4. ASSUME NEW t \in Titles, NEW s \in Synopses, SetSynopsis(t, s)
      PROVE  IInv'
  <2>1. /\ phase = "idle" /\ Exists(t) /\ SetBase(t, s)
        /\ UNCHANGED <<phase, pos, target>>
        /\ UNCHANGED cacheVars
    BY <1>4 DEF SetSynopsis
  <2>2. DataInv' /\ \A u : Exists(u)' <=> Exists(u)
    BY <2>1, SetInv
  <2>. QED  BY <2>1, <2>2, UnchangedCache, CatalogKept
<1>5. ASSUME NEW t \in Titles, RemoveMovie(t)
      PROVE  IInv'
  <2>1. /\ phase = "idle" /\ EraseMovie(t)
        /\ UNCHANGED <<file, phase, pos, target>>
        /\ cache' = [cache EXCEPT ![t] = NotCached]
        /\ UNCHANGED <<order, cacheSize, fault>>
    BY <1>5 DEF RemoveMovie
  <2>2. DataInv' /\ \A u : Exists(u)' <=> Exists(u) /\ u # t
    BY <2>1, RemoveInv
  <2>3. cache \in [Titles -> Synopses \cup {NotCached}]
    BY DEF CacheInv, CacheTypeOK
  <2>4. /\ cache' \in [Titles -> Synopses \cup {NotCached}]
        /\ \A u \in Titles :
             cache'[u] # NotCached => cache[u] # NotCached /\ u # t
    BY <2>1, <2>3
  <2>5. CacheInv'
    BY <2>1, <2>4
       DEF CacheInv, CacheTypeOK, CachedInOrder, CachedTitles, FaultOnlyWhenZero
  <2>6. CachedInCatalog'
    BY <2>2, <2>4 DEF CachedInCatalog, CachedTitles
  <2>. QED  BY <2>2, <2>5, <2>6
<1>6. ASSUME NEW t \in Titles, GetSynopsis(t)
      PROVE  IInv'
  <2>1. Exists(t) /\ UseCache(t) /\ UNCHANGED dataVars
    BY <1>6 DEF GetSynopsis
  <2>2. DataInv' /\ \A u : Exists(u)' <=> Exists(u)
    BY <2>1 DEF dataVars, DataInv, DataTypeOK, UniqueTitles, LazyRowsPresent,
                SavePrefix, Exists, csv
  <2>. QED  BY <2>1, <2>2, ReadInv
<1>7. ASSUME NEW f \in Files, Save(f)
      PROVE  IInv'
  <2>1. OpenOutput(f) /\ UNCHANGED cacheVars
    BY <1>7 DEF Save
  <2>2. DataInv' /\ \A u : Exists(u)' <=> Exists(u)
    BY <2>1, OpenInv
  <2>. QED  BY <2>1, <2>2, UnchangedCache, CatalogKept
<1>8. CASE SaveRow
  <2> DEFINE t == data[pos].title
  <2>1. /\ phase = "save" /\ pos <= Len(data)
        /\ UseCache(t)
        /\ IF fault' THEN UNCHANGED dataVars ELSE WriteMovie(Served(t))
    BY <1>8 DEF SaveRow
  <2>2. t \in Titles /\ Exists(t)
    <3>1. data \in Seq(Movie) /\ pos \in 1 .. Len(data)
      BY <2>1 DEF DataInv, DataTypeOK
    <3>2. data[pos] \in Movie
      BY <3>1
    <3>. QED  BY <3>1, <3>2 DEF Movie, Exists
  <2>3. DataInv' /\ \A u : Exists(u)' <=> Exists(u)
    <3>1. CASE fault'
      <4>1. UNCHANGED dataVars
        BY <2>1, <3>1
      <4>. QED  BY <4>1 DEF dataVars, DataInv, DataTypeOK, UniqueTitles,
                            LazyRowsPresent, SavePrefix, Exists, csv
    <3>2. CASE ~ fault'
      <4>1. WriteMovie(Served(t))
        BY <2>1, <3>2
      <4>2. Served(t) \in Synopses
        BY <2>2, ServedType
      <4>. QED  BY <2>1, <4>1, <4>2, WriteInv
    <3>. QED  BY <3>1, <3>2
  <2>. QED  BY <2>1, <2>2, <2>3, ReadInv
<1>9. CASE SaveEnd
  <2>1. CloseOutput /\ UNCHANGED cacheVars
    BY <1>9 DEF SaveEnd
  <2>2. DataInv' /\ \A u : Exists(u)' <=> Exists(u)
    BY <2>1, CloseInv
  <2>. QED  BY <2>1, <2>2, UnchangedCache, CatalogKept
<1>10. CASE Restart
  <2>1. /\ Reopen
        /\ cache' = [t \in Titles |-> NotCached]
        /\ order' = <<>>
        /\ cacheSize' \in CacheSizes
        /\ fault' = FALSE
    BY <1>10 DEF Restart
  <2>2. DataInv'
    BY <2>1, ReopenInv
  <2>3. CachedTitles' = {}
    BY <2>1 DEF CachedTitles
  <2>4. CacheTypeOK'
    <3>1. cache' \in [Titles -> Synopses \cup {NotCached}]
      BY <2>1
    <3>2. order' \in Seq(Titles)
      BY <2>1
    <3>3. fault' \in BOOLEAN
      BY <2>1, Zenon
    <3>. QED  BY <2>1, <3>1, <3>2, <3>3 DEF CacheTypeOK
  <2>. QED
    BY <2>1, <2>2, <2>3, <2>4
       DEF CacheInv, CachedInOrder, CachedInCatalog, FaultOnlyWhenZero
<1>11. CASE UNCHANGED vars
  <2>1. UNCHANGED dataVars /\ UNCHANGED cacheVars
    BY <1>11 DEF vars
  <2>2. DataInv' /\ \A u : Exists(u)' <=> Exists(u)
    BY <2>1 DEF dataVars, DataInv, DataTypeOK, UniqueTitles, LazyRowsPresent,
                SavePrefix, Exists, csv
  <2>. QED  BY <2>1, <2>2, UnchangedCache, CatalogKept
<1>. QED
  BY <1>1, <1>2, <1>3, <1>4, <1>5, <1>6, <1>7, <1>8, <1>9, <1>10, <1>11 DEF Next

\* The inductive invariant holds throughout.
THEOREM Invariance == Spec => []IInv
BY InitInv, NextInv, PTL DEF Spec

-----------------------------------------------------------------------------
(* What it gives *)

\* The variables have their types: synopses read from the file, evicted and
\* saved again are texts, and the order holds titles.
THEOREM TypeCorrect == Spec => []TypeOK
<1>1. IInv => TypeOK
  BY DEF IInv, DataInv, CacheInv, CacheTypeOK, TypeOK
<1>. QED  BY <1>1, Invariance, PTL

\* No undefined statement runs in a cache of at least one movie, whatever the
\* client removes, adds again, edits and saves.
THEOREM NoFault == Spec => []FaultOnlyWhenZero
<1>1. IInv => FaultOnlyWhenZero
  BY DEF IInv, CacheInv
<1>. QED  BY <1>1, Invariance, PTL

\* A hit always has a title to move: remove() leaves the order as it is, and
\* what eviction takes from it is what it takes from the map.
THEOREM HitsFindTheirTitle == Spec => []CachedInOrder
<1>1. IInv => CachedInOrder
  BY DEF IInv, CacheInv
<1>. QED  BY <1>1, Invariance, PTL

\* No cached text outlives its movie.
THEOREM NoTextOutlivesItsMovie == Spec => []CachedInCatalog
<1>1. IInv => CachedInCatalog
  BY DEF IInv
<1>. QED  BY <1>1, Invariance, PTL

\* No title is in the catalog twice, whatever the file repeats.
THEOREM TitlesAreUnique == Spec => []UniqueTitles
<1>1. IInv => UniqueTitles
  BY DEF IInv, DataInv
<1>. QED  BY <1>1, Invariance, PTL

\* A movie that left its text on disk has a row there, also after saves over
\* that file that were cut short and reopened.
THEOREM LazyMoviesHaveRows == Spec => []LazyRowsPresent
<1>1. IInv => LazyRowsPresent
  BY DEF IInv, DataInv
<1>. QED  BY <1>1, Invariance, PTL

\* The vector, the map, the order and the file agree, whatever the client does
\* and whenever the program dies (catalog.cpp:277-362).
THEOREM RecordsStayAgreed == Spec => []RecordsAgree
<1>1. IInv => RecordsAgree
  BY DEF IInv, DataInv, CacheInv, CacheTypeOK, TypeOK, RecordsAgree
<1>. QED  BY <1>1, Invariance, PTL

\* A finished save leaves one row per movie, in order.
THEOREM SavesEveryTitle == Spec => SavedTitles
<1>1. ASSUME IInv, SaveEnd
      PROVE  /\ Len(file[target]) = Len(data)
             /\ \A i \in DOMAIN data : file[target][i].title = data[i].title
  <2>1. phase = "save" /\ pos > Len(data)
    BY <1>1 DEF SaveEnd, CloseOutput
  <2>2. data \in Seq(Movie) /\ pos \in Nat /\ pos <= Len(data) + 1
    BY <1>1, <2>1 DEF IInv, DataInv, DataTypeOK, SavePrefix
  <2>3. pos - 1 = Len(data)
    BY <2>1, <2>2
  <2>. QED  BY <1>1, <2>1, <2>2, <2>3 DEF IInv, DataInv, SavePrefix
<1>2. IInv => [SaveEnd =>
                 /\ Len(file[target]) = Len(data)
                 /\ \A i \in DOMAIN data : file[target][i].title = data[i].title]_vars
  BY <1>1
<1>. QED  BY <1>2, Invariance, PTL DEF SavedTitles

\* set_synopsis() always reaches the movie's own provider: of a movie of the
\* file there is a row to edit, whatever was saved over the file before.
THEOREM EditsReachTheBase == Spec => SetReachesBase
<1>1. ASSUME IInv, NEW t \in Titles, NEW s \in Synopses, SetSynopsis(t, s)
      PROVE  BaseText(t)' = s
  <2>1. phase = "idle" /\ Exists(t) /\ SetBase(t, s)
    BY <1>1 DEF SetSynopsis
  <2>. QED  BY <1>1, <2>1, SetBaseText DEF IInv
<1>2. IInv => [\A t \in Titles, s \in Synopses :
                 SetSynopsis(t, s) => BaseText(t)' = s]_vars
  BY <1>1
<1>. QED  BY <1>2, Invariance, PTL DEF SetReachesBase

\* The synopsis given to add() is the one served, also of a title that was
\* cached, removed and is still in the order and in the file.
THEOREM AddedIsServed == Spec => AddedSynopsisIsServed
<1>1. ASSUME IInv, NEW t \in Titles, NEW s \in Synopses,
             AddMovie(t, s), ~ Exists(t)
      PROVE  Served(t)' = s
  <2>1. PushMovie(t, s) /\ cache' = cache
    BY <1>1 DEF AddMovie, cacheVars
  <2>2. BaseText(t)' = s
    BY <1>1, <2>1, PushText DEF IInv, DataInv
  <2>3. cache[t] = NotCached
    BY <1>1 DEF IInv, CachedInCatalog, CachedTitles
  <2>. QED  BY <2>1, <2>2, <2>3 DEF Served
<1>2. IInv => [\A t \in Titles, s \in Synopses :
                 AddMovie(t, s) /\ ~ Exists(t) => Served(t)' = s]_vars
  BY <1>1
<1>. QED  BY <1>2, Invariance, PTL DEF AddedSynopsisIsServed

-----------------------------------------------------------------------------
(* Up to a call of the client *)

\* Until a cached movie is removed the order lists the cached titles.
Tidy ==
  tidy => IsListing(order, CachedTitles) /\ Cardinality(CachedTitles) <= cacheSize

\* The rows written to another file have the texts of their movies.
SavedTexts ==
  phase = "save" /\ current =>
    /\ target # "own"
    /\ \A i \in 1 .. pos - 1 : file[target][i].synopsis = BaseText(data[i].title)

UInv == IInv /\ Tidy /\ Coherent /\ SavedTexts

\* A hit keeps the titles listed; a load adds its own and, in a full cache,
\* evicts one that is cached.
LEMMA UseCacheTidy ==
  ASSUME CacheInv, IsListing(order, CachedTitles),
         Cardinality(CachedTitles) <= cacheSize,
         NEW t \in Titles, BaseText(t) \in Synopses, UseCache(t)
  PROVE  /\ IsListing(order', CachedTitles')
         /\ Cardinality(CachedTitles') <= cacheSize'
<1>1. /\ cache \in [Titles -> Synopses \cup {NotCached}]
      /\ cacheSize \in Nat
      /\ cacheSize' = cacheSize
      /\ BaseText(t) # NotCached
  BY CacheSizesAssumption, NotCachedAssumption
     DEF CacheInv, CacheTypeOK, UseCache, Hit, LoadFree, LoadEvict, LoadFault
<1>2. /\ IsFiniteSet(CachedTitles) /\ Cardinality(CachedTitles) \in Nat
      /\ Cardinality(CachedTitles) = Len(order)
      /\ order \in Seq(CachedTitles)
  BY ListingCardinality, FS_CardinalityType DEF IsListing
<1>3. CASE Hit(t)
  <2>1. t \in CachedTitles /\ cache' = cache
    BY <1>3 DEF Hit, CachedTitles
  <2>2. PICK i \in 1 .. Len(order) + 1 :
          FindsAt(t, i) /\ order' = Append(RemoveAt(order, i), t)
    BY <1>3 DEF Hit
  <2>3. DOMAIN order = 1 .. Len(order) /\ Len(order) \in Nat
    BY <1>2
  <2>4. PICK k \in DOMAIN order : order[k] = t
    BY <2>1 DEF IsListing
  <2>5. i \in DOMAIN order /\ order[i] = t
    BY <2>2, <2>3, <2>4 DEF FindsAt
  <2>6. IsListing(RemoveAt(order, i), CachedTitles \ {t})
    BY <2>5, ListingRemove
  <2>7. IsListing(order', (CachedTitles \ {t}) \cup {t})
    BY <2>2, <2>6, ListingAppend
  <2>8. (CachedTitles \ {t}) \cup {t} = CachedTitles /\ CachedTitles' = CachedTitles
    BY <2>1 DEF CachedTitles
  <2>9. IsListing(order', CachedTitles')
    BY <2>7, <2>8, Zenon
  <2>. QED  BY <1>1, <2>8, <2>9
<1>4. CASE LoadFree(t)
  <2>1. /\ t \notin CachedTitles
        /\ Cardinality(CachedTitles) < cacheSize
        /\ cache' = [cache EXCEPT ![t] = BaseText(t)]
        /\ order' = Append(order, t)
    BY <1>4 DEF LoadFree, CachedTitles
  <2>2. CachedTitles' = CachedTitles \cup {t}
    BY <1>1, <2>1 DEF CachedTitles
  <2>3. IsListing(order', CachedTitles')
    BY <2>1, <2>2, ListingAppend
  <2>4. Cardinality(CachedTitles') = Cardinality(CachedTitles) + 1
    BY <1>2, <2>1, <2>2, FS_AddElement
  <2>. QED  BY <1>1, <1>2, <2>1, <2>3, <2>4
<1>5. CASE LoadEvict(t)
  <2> DEFINE left == CachedTitles \ {Head(order)}
  <2>1. /\ t \notin CachedTitles
        /\ order # <<>>
        /\ cache' = [cache EXCEPT ![Head(order)] = NotCached, ![t] = BaseText(t)]
        /\ order' = Append(Tail(order), t)
    BY <1>5 DEF LoadEvict, CachedTitles
  <2>2. Head(order) \in CachedTitles /\ IsListing(Tail(order), left)
    BY <2>1, ListingTail
  <2>3. CachedTitles' = left \cup {t}
    BY <1>1, <2>1, <2>2 DEF CachedTitles
  <2>4. t \notin left
    BY <2>1
  <2>. HIDE DEF left
  <2>5. IsListing(order', CachedTitles')
    BY <2>1, <2>2, <2>3, <2>4, ListingAppend
  <2>6. /\ IsFiniteSet(left) /\ Cardinality(left) = Len(Tail(order))
        /\ Cardinality(CachedTitles') = Cardinality(left) + 1
    BY <2>2, <2>3, <2>4, ListingCardinality, FS_AddElement
  <2>7. Len(Tail(order)) = Len(order) - 1 /\ Len(order) \in Nat
    BY <1>2, <2>1
  <2>8. Cardinality(CachedTitles') = Len(order)
    BY <2>6, <2>7
  <2>. QED  BY <1>1, <1>2, <2>5, <2>8
<1>6. CASE LoadFault(t)
  <2>1. UNCHANGED <<cache, order>>
    BY <1>6 DEF LoadFault
  <2>. QED  BY <1>1, <2>1 DEF CachedTitles
<1>. QED  BY <1>3, <1>4, <1>5, <1>6 DEF UseCache

\* A read caches nothing but the text it loads.
LEMMA UseCacheTexts ==
  ASSUME CacheInv, NEW t \in Titles, UseCache(t),
         NEW u \in Titles, cache'[u] # NotCached
  PROVE  cache'[u] = cache[u] \/ (u = t /\ cache'[u] = BaseText(u))
<1>1. cache \in [Titles -> Synopses \cup {NotCached}] /\ order \in Seq(Titles)
  BY DEF CacheInv, CacheTypeOK
<1>2. CASE Hit(t) \/ LoadFault(t)
  BY <1>2 DEF Hit, LoadFault
<1>3. CASE LoadFree(t)
  BY <1>1, <1>3 DEF LoadFree
<1>4. CASE LoadEvict(t)
  <2>1. /\ Head(order) \in Titles
        /\ cache' = [cache EXCEPT ![Head(order)] = NotCached, ![t] = BaseText(t)]
    BY <1>1, <1>4 DEF LoadEvict
  <2>. QED  BY <1>1, <2>1
<1>. QED  BY <1>2, <1>3, <1>4 DEF UseCache

\* The cache stays coherent when it takes in only texts of providers, and those
\* of cached movies stay what they are.
LEMMA CoherentKept ==
  ASSUME Coherent, current' => current,
         \A u \in Titles : current' /\ cache'[u] # NotCached =>
           /\ cache'[u] = cache[u] \/ cache'[u] = BaseText(u)
           /\ BaseText(u)' = BaseText(u)
  PROVE  Coherent'
BY DEF Coherent, CachedTitles

\* What is served of a coherent cache.
LEMMA ServedText ==
  ASSUME Coherent, current, NEW t \in Titles
  PROVE  Served(t) = BaseText(t)
BY DEF Coherent, CachedTitles, Served

-----------------------------------------------------------------------------
(* What changes the answers *)

\* What a client is to be answered: in a coherent cache it is.
Shown(t) == IF Exists(t) THEN BaseText(t) ELSE NotCached

\* The call changes what is shown.
Given(t) ==
  \/ \E s \in Synopses : (AddMovie(t, s) \/ SetSynopsis(t, s)) /\ Shown(t)' = s
  \/ RemoveMovie(t) /\ Shown(t)' = NotCached
  \/ Load /\ csv[pos].title = t /\ Shown(t)' = GetField(csv, t)
  \/ Restart /\ Shown(t)' = NotCached

\* Nothing else does.
ClientStep == current' => \A u \in Titles : Shown(u)' = Shown(u) \/ Given(u)

\* Movies have texts.
TextsTyped == \A t : Exists(t) => BaseText(t) \in Synopses

(* What MovieOf reads of the synopses is a synopsis. *)
LEMMA TextsInv == IInv => TextsTyped
BY MovieOf DEF IInv, DataInv, TextsTyped

(* The same after a step. *)
LEMMA TextsInvNext == IInv' => TextsTyped'
BY TextsInv, PTL

\* A step that keeps the movies and their texts, or ends the promise.
LEMMA NothingShown ==
  ASSUME \A u \in Titles : current' =>
           /\ Exists(u)' <=> Exists(u)
           /\ Exists(u) => BaseText(u)' = BaseText(u)
  PROVE  ClientStep
BY DEF ClientStep, Shown

\* The texts of movies are a matter of the vector and of the own file.
LEMMA SameData ==
  ASSUME data' = data, csv' = csv, NEW u
  PROVE  (Exists(u)' <=> Exists(u)) /\ BaseText(u)' = BaseText(u)
BY DEF Exists, BaseText, IndexOf

\* The list of the cached titles is left alone.
LEMMA TidyKept ==
  ASSUME Tidy, UNCHANGED <<order, cacheSize>>, tidy' => tidy,
         tidy' => CachedTitles' = CachedTitles
  PROVE  Tidy'
BY DEF Tidy

\* What a step of each kind that does not read does to the second invariant.
LEMMA QuietStep ==
  ASSUME UInv, UNCHANGED cacheVars, tidy' => tidy, current' => current,
         \A u \in Titles : current' /\ Exists(u) /\ cache[u] # NotCached =>
                            BaseText(u)' = BaseText(u),
         phase' # "save"
  PROVE  Tidy' /\ Coherent' /\ SavedTexts'
<1>1. UNCHANGED <<cache, order, cacheSize>> /\ CachedTitles' = CachedTitles
  BY DEF cacheVars, CachedTitles
<1>2. Tidy'
  BY <1>1, TidyKept DEF UInv
<1>3. \A u \in Titles : cache[u] # NotCached => Exists(u)
  BY DEF UInv, IInv, CachedInCatalog, CachedTitles
<1>4. Coherent'
  BY <1>1, <1>3, CoherentKept DEF UInv
<1>. QED  BY <1>2, <1>4 DEF SavedTexts

\* A read of a synopsis, between calls or by save().
LEMMA ReadStep ==
  ASSUME UInv, NEW t \in Titles, Exists(t), UseCache(t), Used(t),
         \A u : current => (Exists(u)' <=> Exists(u)) /\ BaseText(u)' = BaseText(u)
  PROVE  Tidy' /\ Coherent' /\ ClientStep
<1>1. BaseText(t) \in Synopses /\ CacheInv
  BY TextsInv DEF UInv, IInv, TextsTyped
<1>2. (tidy' => tidy) /\ (current' => current)
  BY DEF Used
<1>3. Tidy'
  BY <1>1, <1>2, UseCacheTidy DEF UInv, Tidy
<1>4. Coherent'
  BY <1>1, <1>2, UseCacheTexts, CoherentKept DEF UInv
<1>5. ClientStep
  BY <1>2, NothingShown
<1>. QED  BY <1>3, <1>4, <1>5

\* A movie of a row shows the text of the row.
LEMMA ShownFromCsv ==
  ASSUME DataTypeOK, UniqueTitles, NEW t \in Titles, ~ Exists(t),
         PushMovie(t, FromCsv), UNCHANGED file
  PROVE  Shown(t)' = GetField(csv, t)
<1>1. data'[IndexOf(t)'].base = FromCsv
  BY PushBase
<1>2. Exists(t)'
  BY PushMovieData
<1>3. csv' = csv
  BY DEF csv
<1>. QED  BY <1>1, <1>2, <1>3 DEF Shown, BaseText

(* The invariant of the clients holds before the first call. *)
LEMMA UsageInitInv == UsageInit => UInv
<1>. SUFFICES ASSUME UsageInit PROVE UInv
  OBVIOUS
<1>1. Init /\ IInv
  BY InitInv DEF UsageInit
<1>2. CachedTitles = {} /\ order = <<>> /\ phase = "load" /\ cacheSize \in Nat
  BY <1>1, CacheSizesAssumption DEF Init, DataInit, CachedTitles
<1>3. IsListing(<<>>, {}) /\ Cardinality({}) = 0
  <2>1. <<>> \in Seq({}) /\ DOMAIN <<>> = {}
    OBVIOUS
  <2>. QED  BY <2>1, FS_EmptySet DEF IsListing
<1>. QED  BY <1>1, <1>2, <1>3 DEF UInv, Tidy, Coherent, SavedTexts

\* One step per action.
LEMMA UsageNextInv ==
  ASSUME UInv, [UsageNext]_usageVars
  PROVE  UInv' /\ ClientStep
<1>1. IInv /\ TextsTyped /\ DataInv /\ DataTypeOK /\ UniqueTitles
  BY TextsInv DEF UInv, IInv, DataInv
<1>2. [Next]_vars
  BY Zenon DEF UsageNext, usageVars, Next
<1>3. IInv' /\ TextsTyped'
  BY <1>1, <1>2, NextInv, TextsInvNext
<1>4. SUFFICES (Tidy' /\ Coherent' /\ SavedTexts') /\ ClientStep
  BY <1>3 DEF UInv
<1>5. file \in [Files -> Seq(Row)] /\ data \in Seq(Movie) /\ csv \in Seq(Row)
  BY <1>1 DEF DataTypeOK, csv, Files
<1>6. ASSUME NEW t \in Titles, NEW base \in Synopses \cup {FromCsv},
             PushMovie(t, base), UNCHANGED file, UNCHANGED cacheVars,
             UNCHANGED usage, phase' # "save"
      PROVE  /\ Tidy' /\ Coherent' /\ SavedTexts'
             /\ \A u \in Titles : Shown(u)' = Shown(u) \/ (u = t /\ ~ Exists(t))
  <2>1. /\ csv' = csv /\ (tidy' => tidy) /\ current' = current
    BY <1>6 DEF csv, usage
  <2>2. /\ \A u : Exists(u)' <=> Exists(u) \/ u = t
        /\ \A u : Exists(u) => BaseText(u)' = BaseText(u)
    BY <1>1, <1>6, <2>1, PushMovieData, PushTexts
  <2>3. Tidy' /\ Coherent' /\ SavedTexts'
    BY <1>6, <2>1, <2>2, QuietStep
  <2>4. \A u \in Titles : Shown(u)' = Shown(u) \/ (u = t /\ ~ Exists(t))
    BY <2>2 DEF Shown
  <2>. QED  BY <2>3, <2>4
<1>7. CASE Load /\ UNCHANGED usage
  <2> DEFINE t == csv[pos].title
  <2>1. /\ PushMovie(t, FromCsv) /\ pos <= Len(csv)
        /\ UNCHANGED <<file, phase>> /\ phase = "load"
        /\ UNCHANGED cacheVars
    BY <1>7 DEF Load, LoadMovie
  <2>2. t \in Titles
    <3>1. pos \in 1 .. Len(csv)
      BY <1>1, <2>1 DEF DataTypeOK
    <3>2. csv[pos] \in Row
      BY <1>5, <3>1
    <3>. QED  BY <3>2 DEF Row
  <2>3. /\ Tidy' /\ Coherent' /\ SavedTexts'
        /\ \A u \in Titles : Shown(u)' = Shown(u) \/ (u = t /\ ~ Exists(t))
    <3>. HIDE DEF t
    <3>. QED  BY <1>6, <1>7, <2>1, <2>2
  <2>4. ASSUME NEW u \in Titles, u = t, ~ Exists(u) PROVE Given(u)
    <3>1. PushMovie(u, FromCsv) /\ UNCHANGED file
      BY <2>1, <2>4
    <3>2. Shown(u)' = GetField(csv, u)
      BY <1>1, <2>4, <3>1, ShownFromCsv
    <3>. QED  BY <1>7, <2>4, <3>2 DEF Given
  <2>. QED  BY <2>3, <2>4 DEF ClientStep
<1>8. CASE LoadEnd /\ UNCHANGED usage
  <2>1. /\ UNCHANGED <<file, data>> /\ phase' = "idle" /\ UNCHANGED cacheVars
        /\ (tidy' => tidy) /\ (current' => current)
    BY <1>8 DEF LoadEnd, LoadDone, usage
  <2>2. \A u : (Exists(u)' <=> Exists(u)) /\ BaseText(u)' = BaseText(u)
    BY <2>1, SameData DEF csv
  <2>. QED  BY <2>1, <2>2, QuietStep, NothingShown
<1>9. ASSUME NEW t \in Titles, NEW s \in Synopses, AddMovie(t, s),
             UNCHANGED usage
      PROVE  (Tidy' /\ Coherent' /\ SavedTexts') /\ ClientStep
  <2>1. PushMovie(t, s) /\ UNCHANGED file /\ UNCHANGED cacheVars /\ phase' # "save"
    BY <1>9 DEF AddMovie
  <2>2. /\ Tidy' /\ Coherent' /\ SavedTexts'
        /\ \A u \in Titles : Shown(u)' = Shown(u) \/ (u = t /\ ~ Exists(t))
    BY <1>6, <1>9, <2>1
  <2>3. ASSUME ~ Exists(t) PROVE Given(t)
    <3>1. BaseText(t)' = s /\ Exists(t)'
      BY <1>1, <2>1, <2>3, PushText, PushMovieData
    <3>2. Shown(t)' = s
      BY <3>1 DEF Shown
    <3>. QED  BY <1>9, <3>2 DEF Given
  <2>. QED  BY <2>2, <2>3 DEF ClientStep
<1>10. ASSUME NEW t \in Titles, NEW s \in Synopses, SetSynopsis(t, s),
              current' = (current /\ cache[t] = NotCached),
              UNCHANGED <<older, tidy>>
       PROVE  (Tidy' /\ Coherent' /\ SavedTexts') /\ ClientStep
  <2>1. /\ phase = "idle" /\ phase' # "save" /\ Exists(t) /\ SetBase(t, s)
        /\ UNCHANGED <<phase, pos, target>> /\ UNCHANGED cacheVars
    BY <1>10 DEF SetSynopsis
  <2>2. current' => current /\ cache[t] = NotCached
    BY <1>10, Zenon
  <2>3. \A u : Exists(u)' <=> Exists(u)
    BY <1>1, <2>1, SetBaseData
  <2>4. \A u : Exists(u) /\ u # t => BaseText(u)' = BaseText(u)
    BY <1>1, <2>1, SetTexts
  <2>5. BaseText(t)' = s
    BY <1>1, <2>1, SetBaseText
  <2>6. Tidy' /\ Coherent' /\ SavedTexts'
    BY <1>10, <2>1, <2>2, <2>4, QuietStep
  <2>7. Given(t)
    <3>1. Shown(t)' = s
      BY <2>1, <2>3, <2>5 DEF Shown
    <3>. QED  BY <1>10, <3>1 DEF Given
  <2>8. ClientStep
    BY <2>3, <2>4, <2>7 DEF ClientStep, Shown
  <2>. QED  BY <2>6, <2>8
<1>11. ASSUME NEW t \in Titles, RemoveMovie(t),
              tidy' = (tidy /\ cache[t] = NotCached), UNCHANGED current
       PROVE  (Tidy' /\ Coherent' /\ SavedTexts') /\ ClientStep
  <2>1. /\ phase' # "save" /\ EraseMovie(t) /\ csv' = csv
        /\ cache' = [cache EXCEPT ![t] = NotCached]
        /\ UNCHANGED <<order, cacheSize>>
    BY <1>11 DEF RemoveMovie, csv
  <2>2. tidy' => tidy /\ cache[t] = NotCached
    BY <1>11, Zenon
  <2>3. cache \in [Titles -> Synopses \cup {NotCached}]
    BY <1>1 DEF IInv, CacheInv, CacheTypeOK
  <2>4. \A u : Exists(u)' <=> Exists(u) /\ u # t
    BY <1>1, <2>1, EraseMovieData
  <2>5. \A u : Exists(u) /\ u # t => BaseText(u)' = BaseText(u)
    BY <1>1, <2>1, EraseTexts
  <2>6. Tidy'
    <3>1. tidy' => CachedTitles' = CachedTitles
      BY <2>1, <2>2, <2>3 DEF CachedTitles
    <3>. QED  BY <2>1, <2>2, <3>1, TidyKept DEF UInv
  <2>7. Coherent'
    <3>1. \A u \in Titles : cache'[u] # NotCached => cache'[u] = cache[u] /\ u # t
      BY <2>1, <2>3
    <3>2. \A u \in Titles : cache[u] # NotCached => Exists(u)
      BY <1>1 DEF IInv, CachedInCatalog, CachedTitles
    <3>. QED  BY <1>11, <2>5, <3>1, <3>2, CoherentKept DEF UInv
  <2>8. Given(t)
    BY <1>11, <2>4 DEF Given, Shown
  <2>9. ClientStep
    BY <2>4, <2>5, <2>8 DEF ClientStep, Shown
  <2>. QED  BY <2>1, <2>6, <2>7, <2>9 DEF SavedTexts
<1>12. ASSUME NEW t \in Titles, GetSynopsis(t), Used(t)
       PROVE  (Tidy' /\ Coherent' /\ SavedTexts') /\ ClientStep
  <2>1. Exists(t) /\ UseCache(t) /\ UNCHANGED dataVars /\ phase = "idle"
    BY <1>12 DEF GetSynopsis
  <2>2. data' = data /\ csv' = csv /\ phase' # "save"
    BY <2>1 DEF dataVars, csv
  <2>3. Tidy' /\ Coherent' /\ ClientStep
    BY <1>12, <2>1, <2>2, SameData, ReadStep
  <2>. QED  BY <2>2, <2>3 DEF SavedTexts
<1>13. ASSUME NEW f \in Files, Save(f),
              current' = (current /\ f # "own"), UNCHANGED <<older, tidy>>
       PROVE  (Tidy' /\ Coherent' /\ SavedTexts') /\ ClientStep
  <2>1. /\ data' = data /\ target' = f /\ pos' = 1
        /\ file' = [file EXCEPT ![f] = <<>>]
        /\ UNCHANGED cacheVars
    BY <1>13 DEF Save, OpenOutput
  <2>2. current' => current /\ f # "own"
    BY <1>13, Zenon
  <2>3. f # "own" => csv' = csv
    BY <1>5, <2>1 DEF csv, Files
  <2>4. \A u : current' => (Exists(u)' <=> Exists(u)) /\ BaseText(u)' = BaseText(u)
    BY <2>1, <2>2, <2>3, SameData
  <2>5. Tidy'
    BY <1>13, <2>1, TidyKept DEF UInv, cacheVars, CachedTitles
  <2>6. Coherent'
    BY <2>1, <2>2, <2>4, CoherentKept DEF UInv, cacheVars
  <2>7. SavedTexts'
    BY <2>1, <2>2 DEF SavedTexts
  <2>. QED  BY <2>2, <2>4, <2>5, <2>6, <2>7, NothingShown
<1>14. CASE SaveRow /\ Used(data[pos].title)
  <2> DEFINE t == data[pos].title
             row == [title |-> t, synopsis |-> Served(t)]
  <2>1. /\ phase = "save" /\ pos <= Len(data) /\ UseCache(t)
        /\ IF fault' THEN UNCHANGED dataVars ELSE WriteMovie(Served(t))
    BY <1>14 DEF SaveRow
  <2>2. pos \in 1 .. Len(data) /\ t \in Titles /\ Exists(t)
    <3>1. pos \in 1 .. Len(data)
      BY <1>1, <1>5, <2>1 DEF DataTypeOK
    <3>2. data[pos] \in Movie
      BY <1>5, <3>1
    <3>. QED  BY <1>5, <3>1, <3>2 DEF Movie, Exists
  <2>3. data' = data /\ target' = target /\ phase' = phase
    BY <2>1 DEF dataVars, WriteMovie
  <2>4. current => target # "own" /\ csv' = csv
    <3>1. current => target # "own"
      BY <2>1 DEF UInv, SavedTexts
    <3>2. target # "own" => csv' = csv
      BY <1>1, <1>5, <2>1 DEF DataTypeOK, dataVars, WriteMovie, csv, Files
    <3>. QED  BY <3>1, <3>2
  <2>5. \A u : current => (Exists(u)' <=> Exists(u)) /\ BaseText(u)' = BaseText(u)
    BY <2>3, <2>4, SameData
  <2>6. Tidy' /\ Coherent' /\ ClientStep
    BY <1>14, <2>1, <2>2, <2>5, ReadStep
  <2>7. current' => current
    BY <1>14 DEF Used
  <2>8. SavedTexts'
    <3>1. CASE fault'
      <4>1. UNCHANGED <<file, pos>>
        BY <2>1, <3>1 DEF dataVars
      <4>. QED  BY <2>1, <2>3, <2>4, <2>5, <2>7, <4>1 DEF UInv, SavedTexts
    <3>2. CASE ~ fault'
      <4> DEFINE old == file[target]
      <4>1. /\ file' = [file EXCEPT ![target] = Append(old, row)]
            /\ pos' = pos + 1
        BY <2>1, <3>2 DEF WriteMovie
      <4>2. target \in Files /\ old \in Seq(Row) /\ Len(old) = pos - 1 /\ pos \in Nat
        BY <1>1, <1>5, <2>1 DEF DataTypeOK, DataInv, SavePrefix
      <4>3. row \in Row
        BY <1>1, <2>2, ServedType DEF Row
      <4>4. /\ file'[target] = Append(old, row)
            /\ \A i \in 1 .. pos - 1 : Append(old, row)[i] = old[i]
            /\ Append(old, row)[pos] = row
        <5>. HIDE DEF row, old
        <5>1. file'[target] = Append(old, row)
          BY <1>5, <4>1, <4>2
        <5>. QED  BY <4>2, <4>3, <5>1, AppendProperties
      <4>5. current => row.synopsis = BaseText(t)
        BY <2>2, ServedText DEF UInv
      <4>6. current => \A i \in 1 .. pos - 1 : old[i].synopsis = BaseText(data[i].title)
        BY <2>1 DEF UInv, SavedTexts
      <4>. HIDE DEF row, old
      <4>7. current => \A i \in 1 .. pos : file'[target][i].synopsis = BaseText(data[i].title)
        BY <4>2, <4>4, <4>5, <4>6
      <4>. QED  BY <2>3, <2>4, <2>5, <2>7, <4>1, <4>2, <4>7 DEF SavedTexts
    <3>. QED  BY <3>1, <3>2
  <2>. QED  BY <2>6, <2>8
<1>15. CASE SaveEnd /\ UNCHANGED usage
  <2>1. /\ data' = data /\ phase' = "idle" /\ UNCHANGED cacheVars
        /\ file' = [file EXCEPT !["copy"] = <<>>]
        /\ (tidy' => tidy) /\ (current' => current)
    BY <1>15 DEF SaveEnd, CloseOutput, ForgetCopy, usage
  <2>2. csv' = csv
    BY <1>5, <2>1 DEF csv, Files
  <2>3. \A u : (Exists(u)' <=> Exists(u)) /\ BaseText(u)' = BaseText(u)
    BY <2>1, <2>2, SameData
  <2>. QED  BY <2>1, <2>3, QuietStep, NothingShown
<1>16. CASE Restart
  <2>1. /\ data' = <<>> /\ phase' = "load"
        /\ CachedTitles' = {}
        /\ order' = <<>> /\ cacheSize' \in Nat
    BY <1>16, CacheSizesAssumption DEF Restart, Reopen, CachedTitles
  <2>2. IsListing(<<>>, {}) /\ Cardinality({}) = 0
    <3>1. <<>> \in Seq({}) /\ DOMAIN <<>> = {}
      OBVIOUS
    <3>. QED  BY <3>1, FS_EmptySet DEF IsListing
  <2>3. \A u \in Titles : Given(u)
    BY <1>16, <2>1 DEF Given, Shown, Exists
  <2>. QED  BY <2>1, <2>2, <2>3 DEF Tidy, Coherent, SavedTexts, ClientStep
<1>17. CASE UNCHANGED usageVars
  <2>1. UNCHANGED dataVars /\ UNCHANGED cacheVars /\ UNCHANGED <<tidy, current>>
    BY <1>17 DEF usageVars, vars, usage
  <2>2. data' = data /\ csv' = csv /\ UNCHANGED <<file, phase, pos, target>>
    BY <2>1 DEF dataVars, csv
  <2>3. \A u : (Exists(u)' <=> Exists(u)) /\ BaseText(u)' = BaseText(u)
    BY <2>2, SameData
  <2>4. Tidy'
    BY <2>1, TidyKept DEF UInv, cacheVars, CachedTitles
  <2>5. Coherent'
    BY <2>1, <2>3, CoherentKept DEF UInv, cacheVars
  <2>6. SavedTexts'
    BY <2>1, <2>2, <2>3 DEF UInv, SavedTexts
  <2>. QED  BY <2>1, <2>3, <2>4, <2>5, <2>6, NothingShown
<1>. QED
  BY <1>7, <1>8, <1>9, <1>10, <1>11, <1>12, <1>13, <1>14, <1>15, <1>16, <1>17
     DEF UsageNext

\* The second invariant, and what the store does meanwhile.
THEOREM UsageInvariance == UsageSpec => []UInv
<1>1. UInv /\ [UsageNext]_usageVars => UInv'
  BY UsageNextInv
<1>. QED  BY <1>1, UsageInitInv, PTL DEF UsageSpec

\* A cache never holds more than it is configured for, as long as no movie is
\* removed whose synopsis it holds (catalog.cpp:321-324, 346-357).
THEOREM CapacityKept == UsageSpec => []WithinCapacity
<1>1. UInv => WithinCapacity
  BY DEF UInv, Tidy, WithinCapacity
<1>. QED  BY <1>1, UsageInvariance, PTL

\* A cached text is the text behind it, through loads, evictions and titles
\* left in the order, as long as no cached synopsis is set and the own file is
\* not rewritten (catalog.cpp:326-357).
THEOREM CacheCoherent == UsageSpec => []Coherent
<1>1. UInv => Coherent
  BY DEF UInv
<1>. QED  BY <1>1, UsageInvariance, PTL

\* Under the same condition a save to another file writes every movie with its
\* own text, although each read may evict the text of a movie still to come
\* (catalog.cpp:255-271, 326-357).
THEOREM CopiesAreExact == UsageSpec => CopyIsExact
<1>1. ASSUME UInv, SaveEnd, current
      PROVE  file[target] = WholeCatalog
  <2>1. phase = "save" /\ pos > Len(data)
    BY <1>1 DEF SaveEnd, CloseOutput
  <2>2. /\ data \in Seq(Movie) /\ pos \in Nat /\ pos <= Len(data) + 1
        /\ file[target] \in Seq(Row)
    BY <1>1, <2>1 DEF UInv, IInv, DataInv, DataTypeOK, SavePrefix
  <2>3. pos - 1 = Len(data) /\ DOMAIN data = 1 .. Len(data)
    BY <2>1, <2>2
  <2>4. /\ Len(file[target]) = Len(data)
        /\ \A i \in DOMAIN data : file[target][i].title = data[i].title
    BY <1>1, <2>1, <2>3 DEF UInv, IInv, DataInv, SavePrefix
  <2>5. \A i \in DOMAIN data : file[target][i].synopsis = BaseText(data[i].title)
    BY <1>1, <2>1, <2>3 DEF UInv, SavedTexts
  <2> DEFINE rows == file[target]
             movie(i) == [title |-> data[i].title, synopsis |-> BaseText(data[i].title)]
  <2>6. ASSUME NEW i \in DOMAIN data PROVE rows[i] = movie(i)
    <3>1. rows[i] \in Row
      BY <2>2, <2>3, <2>4
    <3>2. rows[i] = [title |-> rows[i].title, synopsis |-> rows[i].synopsis]
      BY <3>1 DEF Row
    <3>. QED  BY <2>4, <2>5, <3>2
  <2>7. rows = [i \in DOMAIN rows |-> rows[i]] /\ DOMAIN rows = DOMAIN data
    BY <2>2, <2>3, <2>4
  <2>8. WholeCatalog = [i \in DOMAIN data |-> movie(i)]
    BY DEF WholeCatalog
  <2>. HIDE DEF rows, movie
  <2>9. rows = WholeCatalog
    BY <2>6, <2>7, <2>8
  <2>. QED  BY <2>9 DEF rows
<1>2. UInv => [SaveEnd /\ current => file[target] = WholeCatalog]_usageVars
  BY <1>1
<1>. QED  BY <1>2, UsageInvariance, PTL DEF CopyIsExact

-----------------------------------------------------------------------------
(* Only the client changes what is served *)

\* A coherent cache answers what is shown.
AnswersAreShown == current => \A t \in Titles : Answer(t) = Shown(t)

LEMMA AnswersShown == UInv => AnswersAreShown
<1>. SUFFICES ASSUME UInv, current, NEW t \in Titles PROVE Answer(t) = Shown(t)
  BY DEF AnswersAreShown
<1>1. Served(t) = BaseText(t)
  BY ServedText DEF UInv
<1>. QED  BY <1>1 DEF Answer, Shown

(* The answers of a step are the texts the clients see after it. *)
LEMMA AnswersShownNext == UInv' => AnswersAreShown'
BY AnswersShown, PTL

\* A promise that was ended comes back with another catalog only.
LEMMA CurrentEnds == [UsageNext]_usageVars => Restart \/ (current' => current)
<1>. SUFFICES ASSUME [UsageNext]_usageVars, ~ Restart PROVE current' => current
  OBVIOUS
<1>. QED  BY DEF UsageNext, Used, usage, usageVars

\* For a client of any kind, every file and every size of the cache: as long as
\* no cached synopsis is set and the own file is not rewritten, what the catalog
\* serves of a title changes only by add(), remove() and set_synopsis() of that
\* title, to the text they are given, and when a catalog is built, to that of
\* its row; hits, loads, evictions and saves change no answer
\* (catalog.cpp:277-362).
THEOREM ServesTheClient == UsageSpec => OnlyTheClientChanges
<1>1. ASSUME UInv, UInv', [UsageNext]_usageVars, current', NEW t \in Titles,
             Answer(t)' # Answer(t)
      PROVE  AnswerGiven(t)
  <2>1. Answer(t)' = Shown(t)'
    BY <1>1, AnswersShownNext DEF AnswersAreShown
  <2>2. CASE Restart
    <3>1. Answer(t)' = NotCached
      BY <2>2 DEF Restart, Reopen, Answer, Exists
    <3>. QED  BY <2>2, <3>1 DEF AnswerGiven
  <2>3. CASE ~ Restart
    <3>1. Answer(t) = Shown(t)
      BY <1>1, <2>3, CurrentEnds, AnswersShown DEF AnswersAreShown
    <3>2. Given(t)
      BY <1>1, <2>1, <3>1, UsageNextInv DEF ClientStep
    <3>. QED  BY <2>1, <3>2 DEF Given, AnswerGiven
  <2>. QED  BY <2>2, <2>3
<1>2. UInv /\ UInv' /\ [UsageNext]_usageVars =>
        [current' => \A t \in Titles : Answer(t)' # Answer(t) => AnswerGiven(t)]_usageVars
  BY <1>1
<1>. QED  BY <1>2, UsageInvariance, PTL DEF UsageSpec, OnlyTheClientChanges

-----------------------------------------------------------------------------
(* CachedUsage implements LruCache *)

\* Of two titles at most one was read longer ago.
Asymmetric == \A t, u \in Titles : <<t, u>> \in older => <<u, t>> \notin older

\* The first of two titles of a vector was read longer ago.
InOrderOfUse(s) == \A i, j \in DOMAIN s : i < j => <<s[i], s[j]>> \in older

\* Until a cached movie is removed the order is that of the reads.
ReadInOrder == tidy => InOrderOfUse(order)

RInv == UInv /\ Asymmetric /\ ReadInOrder

\* The title read last goes to the back of those that are left in their order.
LEMMA UsedAtTheBack ==
  ASSUME NEW r \in Seq(Titles), InOrderOfUse(r), NEW t \in Titles,
         \A j \in DOMAIN r : r[j] # t, Used(t), order' = Append(r, t)
  PROVE  InOrderOfUse(order)'
<1>1. /\ DOMAIN r = 1 .. Len(r) /\ Len(r) \in Nat
      /\ DOMAIN order' = 1 .. Len(r) + 1
      /\ \A i \in 1 .. Len(r) : order'[i] = r[i]
      /\ order'[Len(r) + 1] = t
  BY AppendProperties
<1>2. ASSUME NEW i \in DOMAIN order', NEW j \in DOMAIN order', i < j
      PROVE  <<order'[i], order'[j]>> \in older'
  <2>1. i \in DOMAIN r /\ order'[i] = r[i] /\ r[i] # t /\ r[i] \in Titles
    BY <1>1, <1>2
  <2>2. CASE j \in DOMAIN r
    <3>1. <<r[i], r[j]>> \in older /\ order'[j] = r[j]
      BY <1>1, <1>2, <2>1, <2>2 DEF InOrderOfUse
    <3>. QED  BY <2>1, <3>1 DEF Used
  <2>3. CASE j \notin DOMAIN r
    <3>1. order'[j] = t
      BY <1>1, <2>3
    <3>. QED  BY <2>1, <3>1 DEF Used
  <2>. QED  BY <2>2, <2>3
<1>. QED  BY <1>2 DEF InOrderOfUse

\* Reading a title makes the others older.
LEMMA UsedKeepsAsymmetric ==
  ASSUME Asymmetric, NEW t \in Titles, Used(t)
  PROVE  Asymmetric'
BY DEF Asymmetric, Used

\* What is left of a vector in its order, without one element, stays in order.
LEMMA RemovalKeepsOrder ==
  ASSUME NEW s \in Seq(Titles), InOrderOfUse(s), NEW i \in DOMAIN s
  PROVE  InOrderOfUse(RemoveAt(s, i))
<1> DEFINE r == RemoveAt(s, i)
<1>1. /\ r \in Seq(Titles) /\ Len(r) = Len(s) - 1 /\ Len(s) \in Nat
      /\ DOMAIN r = 1 .. Len(r) /\ DOMAIN s = 1 .. Len(s)
      /\ \A j \in 1 .. Len(r) : r[j] = IF j < i THEN s[j] ELSE s[j + 1]
  BY RemoveAtSeq
<1>. HIDE DEF r
<1>2. ASSUME NEW a \in DOMAIN r, NEW b \in DOMAIN r, a < b
      PROVE  <<r[a], r[b]>> \in older
  <2>1. PICK k \in DOMAIN s, l \in DOMAIN s : k < l /\ r[a] = s[k] /\ r[b] = s[l]
    <3>1. CASE b < i
      BY <1>1, <1>2, <3>1
    <3>2. CASE a < i /\ ~ (b < i)
      BY <1>1, <1>2, <3>2
    <3>3. CASE ~ (a < i)
      BY <1>1, <1>2, <3>3
    <3>. QED  BY <3>1, <3>2, <3>3, <1>1
  <2>. QED  BY <2>1 DEF InOrderOfUse
<1>3. InOrderOfUse(r)
  BY <1>2 DEF InOrderOfUse
<1>. QED  BY <1>3 DEF r

\* The steps of the abstract cache, on the order itself.
OrderStep(t) ==
  \/ UNCHANGED <<order, cacheSize>>
  \/ \E i \in DOMAIN order :
       /\ order[i] = t
       /\ order' = Append(RemoveAt(order, i), t)
       /\ UNCHANGED cacheSize
  \/ /\ \A i \in DOMAIN order : order[i] # t
     /\ Len(order) < cacheSize
     /\ order' = Append(order, t)
     /\ UNCHANGED cacheSize
  \/ /\ \A i \in DOMAIN order : order[i] # t
     /\ Len(order) = cacheSize
     /\ order # <<>>
     /\ order' = Append(Tail(order), t)
     /\ UNCHANGED cacheSize

\* A read of a tidy cache is a step of an LRU cache, and keeps the order of use.
LEMMA ReadsLru ==
  ASSUME CacheInv, IsListing(order, CachedTitles), InOrderOfUse(order),
         Cardinality(CachedTitles) <= cacheSize,
         NEW t \in Titles, UseCache(t), Used(t)
  PROVE  OrderStep(t) /\ InOrderOfUse(order)'
<1>1. /\ order \in Seq(Titles) /\ order \in Seq(CachedTitles)
      /\ Cardinality(CachedTitles) = Len(order)
      /\ DOMAIN order = 1 .. Len(order) /\ Len(order) \in Nat
      /\ cacheSize \in Nat
  BY ListingCardinality, CacheSizesAssumption DEF IsListing, CacheInv, CacheTypeOK
<1>2. \A i \in DOMAIN order : order[i] = t => cache[t] # NotCached
  BY <1>1 DEF CachedTitles
<1>3. CASE Hit(t)
  <2>1. t \in CachedTitles
    BY <1>3 DEF Hit, CachedTitles
  <2>2. PICK i \in 1 .. Len(order) + 1 :
          FindsAt(t, i) /\ order' = Append(RemoveAt(order, i), t)
    BY <1>3 DEF Hit
  <2>3. PICK k \in DOMAIN order : order[k] = t
    BY <2>1 DEF IsListing
  <2>4. i \in DOMAIN order /\ order[i] = t
    BY <1>1, <2>2, <2>3 DEF FindsAt
  <2>5. IsListing(RemoveAt(order, i), CachedTitles \ {t})
    BY <2>4, ListingRemove
  <2>6. \A j \in DOMAIN RemoveAt(order, i) : RemoveAt(order, i)[j] # t
    BY <2>5 DEF IsListing
  <2>7. RemoveAt(order, i) \in Seq(Titles) /\ InOrderOfUse(RemoveAt(order, i))
    BY <1>1, <2>4, RemoveAtSeq, RemovalKeepsOrder
  <2>8. InOrderOfUse(order)'
    BY <2>2, <2>6, <2>7, UsedAtTheBack
  <2>9. cacheSize' = cacheSize
    BY <1>3 DEF Hit
  <2>. QED  BY <2>2, <2>4, <2>8, <2>9 DEF OrderStep
<1>4. CASE LoadFree(t)
  <2>1. /\ cache[t] = NotCached /\ Len(order) < cacheSize
        /\ order' = Append(order, t) /\ cacheSize' = cacheSize
    BY <1>1, <1>4 DEF LoadFree
  <2>2. InOrderOfUse(order)'
    BY <1>1, <1>2, <2>1, UsedAtTheBack
  <2>. QED  BY <1>2, <2>1, <2>2 DEF OrderStep
<1>5. CASE LoadEvict(t)
  <2>1. /\ cache[t] = NotCached /\ Len(order) = cacheSize /\ order # <<>>
        /\ order' = Append(Tail(order), t) /\ cacheSize' = cacheSize
    BY <1>1, <1>5 DEF LoadEvict
  <2>2. /\ Tail(order) \in Seq(Titles) /\ Len(Tail(order)) = Len(order) - 1
        /\ DOMAIN Tail(order) = 1 .. Len(order) - 1
        /\ \A j \in 1 .. Len(order) - 1 : Tail(order)[j] = order[j + 1]
    BY <1>1, <2>1
  <2>3. \A j \in DOMAIN Tail(order) : Tail(order)[j] # t
    BY <1>1, <1>2, <2>1, <2>2
  <2>4. InOrderOfUse(Tail(order))
    BY <1>1, <2>2 DEF InOrderOfUse
  <2>5. InOrderOfUse(order)'
    BY <2>1, <2>2, <2>3, <2>4, UsedAtTheBack
  <2>. QED  BY <1>2, <2>1, <2>5 DEF OrderStep
<1>6. CASE LoadFault(t)
  <2>1. order' = <<>> /\ order = <<>> /\ cacheSize' = cacheSize
    BY <1>6 DEF LoadFault
  <2>. QED  BY <2>1 DEF OrderStep, InOrderOfUse
<1>. QED  BY <1>3, <1>4, <1>5, <1>6 DEF UseCache

-----------------------------------------------------------------------------
\* Two lists of the same titles, both in the order of use, are one list.
LEMMA OneOrderOfUse ==
  ASSUME Asymmetric, NEW S \in SUBSET Titles, NEW s, IsListing(s, S), InOrderOfUse(s),
         NEW r \in [1 .. Len(s) -> S], InOrderOfUse(r)
  PROVE  r = s
<1> DEFINE n == Len(s)
           D == { i \in Nat : i \in 1 .. n /\ r[i] # s[i] }
           R == OpToRel(<, Nat)
<1>1. s \in [1 .. n -> S] /\ n \in Nat /\ DOMAIN s = 1 .. n /\ DOMAIN r = 1 .. n
  BY DEF IsListing
<1>2. IsFiniteSet(S) /\ Cardinality(S) = n
  BY ListingCardinality
<1>. HIDE DEF n
<1>3. \A i, j \in 1 .. n : r[i] = r[j] => i = j
  <2>. SUFFICES ASSUME NEW i \in 1 .. n, NEW j \in 1 .. n, r[i] = r[j], i < j PROVE FALSE
    BY <1>1
  <2>1. <<r[i], r[j]>> \in older /\ r[i] \in Titles
    BY <1>1 DEF InOrderOfUse, n
  <2>. QED  BY <2>1 DEF Asymmetric
<1>4. r \in Surjection(1 .. n, S)
  <2>1. r \in Injection(1 .. n, S)
    BY <1>1, <1>3 DEF Injection, IsInjective, n
  <2>2. Cardinality(1 .. n) = n
    BY <1>1, FS_Interval
  <2>. QED  BY <1>2, <2>1, <2>2, FS_Injection
<1>5. ASSUME NEW i \in D PROVE FALSE
  <2>1. PICK k \in D : \A j \in D : <<j, k>> \notin R
    <3>1. D \subseteq Nat /\ D # {}
      BY <1>5
    <3>. HIDE DEF D, R
    <3>2. IsWellFoundedOn(R, Nat)
      BY NatLessThanWellFounded DEF R
    <3>. QED  BY <3>1, <3>2, WFMin
  <2>2. \A j \in 1 .. n : j < k => r[j] = s[j]
    <3>1. k \in Nat /\ \A j \in D : ~ (j < k)
      BY <2>1 DEF OpToRel
    <3>. QED  BY <1>1, <3>1
  <2>3. k \in 1 .. n /\ r[k] # s[k] /\ r[k] \in S /\ s[k] \in S
    BY <1>1, <2>1 DEF n
  <2>4. PICK j \in 1 .. n : s[j] = r[k]
    BY <1>1, <2>3 DEF IsListing
  <2>5. PICK l \in 1 .. n : r[l] = s[k]
    BY <1>4, <2>3 DEF Surjection
  <2>6. k < j
    <3>1. j # k
      BY <2>3, <2>4
    <3>2. ~ (j < k)
      BY <1>3, <2>2, <2>3, <2>4
    <3>. QED  BY <3>1, <3>2, <2>3
  <2>7. k < l
    <3>1. l # k
      BY <2>3, <2>5
    <3>2. ASSUME l < k PROVE FALSE
      <4>1. s[l] = s[k]
        BY <2>2, <2>5, <3>2
      <4>. QED  BY <1>1, <2>3, <3>1, <4>1 DEF IsListing
    <3>. QED  BY <3>1, <3>2, <2>3
  <2>8. <<s[k], r[k]>> \in older /\ <<r[k], s[k]>> \in older
    BY <1>1, <2>3, <2>4, <2>5, <2>6, <2>7 DEF InOrderOfUse
  <2>. QED  BY <2>3, <2>8 DEF Asymmetric
<1>6. \A i \in 1 .. n : r[i] = s[i]
  BY <1>1, <1>5
<1>. QED  BY <1>1, <1>6 DEF n

\* What an LRU cache goes by, and the catalog's own record of it, are the same.
RecencyIsOrder ==
  (IF tidy THEN CachedByUse ELSE <<>>) = (IF tidy THEN order ELSE <<>>)

(* The invariant makes them the same. *)
LEMMA OrderByUse == RInv => RecencyIsOrder
<1>. SUFFICES ASSUME RInv, tidy PROVE CachedByUse = order
  BY DEF RecencyIsOrder
<1>1. IsListing(order, CachedTitles) /\ InOrderOfUse(order)
  BY DEF RInv, UInv, Tidy, ReadInOrder
<1>2. /\ Cardinality(CachedTitles) = Len(order)
      /\ order \in [1 .. Len(order) -> CachedTitles]
  BY <1>1, ListingCardinality DEF IsListing
<1> DEFINE good(r) == \A i, j \in DOMAIN r : i < j => <<r[i], r[j]>> \in older
           F == [1 .. Cardinality(CachedTitles) -> CachedTitles]
<1>3. order \in F /\ good(order)
  BY <1>1, <1>2 DEF InOrderOfUse
<1>4. \A r \in F : good(r) => r = order
  <2>. SUFFICES ASSUME NEW r \in F, good(r) PROVE r = order
    OBVIOUS
  <2>1. InOrderOfUse(r) /\ r \in [1 .. Len(order) -> CachedTitles]
    BY <1>2 DEF InOrderOfUse
  <2>2. CachedTitles \in SUBSET Titles /\ Asymmetric
    BY DEF CachedTitles, RInv
  <2>. QED  BY <1>1, <2>1, <2>2, OneOrderOfUse
<1>5. CachedByUse = CHOOSE r \in F : good(r)
  BY DEF CachedByUse
<1>. HIDE DEF F, good
<1>. QED  BY <1>3, <1>4, <1>5

(* The same after a step. *)
LEMMA OrderByUseNext == RInv' => RecencyIsOrder'
BY OrderByUse, PTL

(* Nothing was read before the first call. *)
LEMMA RecencyInit == UsageInit => RInv
<1>. SUFFICES ASSUME UsageInit PROVE RInv
  OBVIOUS
<1>1. UInv
  BY UsageInitInv
<1>2. older = {} /\ DOMAIN order = {}
  BY DEF UsageInit, Init
<1>. QED  BY <1>1, <1>2 DEF RInv, Asymmetric, ReadInOrder, InOrderOfUse

\* What the steps do to the order, to the history and to each other's terms.
RecencyStep ==
  \/ UNCHANGED <<order, cacheSize>> /\ (tidy' <=> tidy)
  \/ order' = <<>> /\ cacheSize' \in Nat
  \/ ~ tidy' /\ cacheSize' \in Nat
  \/ \E t \in Titles : tidy /\ tidy' /\ OrderStep(t)

\* A read, between calls or by save().
LEMMA ReadRecency ==
  ASSUME RInv, UInv', NEW t \in Titles, UseCache(t), Used(t)
  PROVE  Asymmetric' /\ ReadInOrder' /\ RecencyStep
<1>1. tidy' = tidy
  BY DEF Used
<1>2. cacheSize' \in Nat
  BY CacheSizesAssumption DEF UInv, IInv, CacheInv, CacheTypeOK
<1>3. Asymmetric'
  BY UsedKeepsAsymmetric DEF RInv
<1>4. CASE tidy
  <2>1. OrderStep(t) /\ InOrderOfUse(order)'
    BY <1>4, ReadsLru DEF RInv, UInv, IInv, Tidy, ReadInOrder
  <2>. QED  BY <1>1, <1>3, <1>4, <2>1 DEF ReadInOrder, RecencyStep
<1>5. CASE ~ tidy
  BY <1>1, <1>2, <1>3, <1>5 DEF ReadInOrder, RecencyStep
<1>. QED  BY <1>4, <1>5

(* One step per action. *)
LEMMA RecencyNext ==
  ASSUME RInv, [UsageNext]_usageVars
  PROVE  RInv' /\ RecencyStep
<1>1. UInv'
  BY UsageNextInv DEF RInv
<1>2. SUFFICES Asymmetric' /\ ReadInOrder' /\ RecencyStep
  BY <1>1 DEF RInv
<1>3. ASSUME UNCHANGED <<order, cacheSize, older>>, tidy' => tidy
      PROVE  Asymmetric' /\ ReadInOrder' /\ RecencyStep
  <2>1. cacheSize' \in Nat
    BY <1>1, CacheSizesAssumption DEF UInv, IInv, CacheInv, CacheTypeOK
  <2>2. Asymmetric' /\ ReadInOrder'
    BY <1>3 DEF RInv, Asymmetric, ReadInOrder, InOrderOfUse
  <2>3. RecencyStep
    BY <1>3, <2>1 DEF RecencyStep
  <2>. QED  BY <2>2, <2>3
<1>4. ASSUME NEW t \in Titles, GetSynopsis(t), Used(t)
      PROVE  Asymmetric' /\ ReadInOrder' /\ RecencyStep
  BY <1>1, <1>4, ReadRecency DEF GetSynopsis
<1>5. CASE SaveRow /\ Used(data[pos].title)
  <2>1. pos \in 1 .. Len(data) /\ data \in Seq(Movie)
    <3>1. data \in Seq(Movie) /\ pos \in Nat \ {0}
      BY DEF RInv, UInv, IInv, DataInv, DataTypeOK
    <3>2. pos <= Len(data)
      BY <1>5 DEF SaveRow
    <3>. QED  BY <3>1, <3>2
  <2>2. data[pos].title \in Titles
    <3>1. data[pos] \in Movie
      BY <2>1
    <3>. QED  BY <3>1 DEF Movie
  <2>3. UseCache(data[pos].title)
    BY <1>5 DEF SaveRow
  <2>. QED  BY <1>1, <1>5, <2>2, <2>3, ReadRecency
<1>6. CASE Restart /\ older' = {}
  <2>1. order' = <<>> /\ cacheSize' \in Nat
    BY <1>6, CacheSizesAssumption DEF Restart
  <2>. QED  BY <1>6, <2>1 DEF Asymmetric, ReadInOrder, InOrderOfUse, RecencyStep
<1>7. CASE \/ \E t \in Titles :
                RemoveMovie(t) /\ tidy' = (tidy /\ cache[t] = NotCached) /\ UNCHANGED older
           \/ \E t \in Titles, s \in Synopses : SetSynopsis(t, s) /\ UNCHANGED <<older, tidy>>
           \/ \E f \in Files : Save(f) /\ UNCHANGED <<older, tidy>>
           \/ /\ \/ Load \/ LoadEnd \/ SaveEnd
                 \/ \E t \in Titles, s \in Synopses : AddMovie(t, s)
              /\ UNCHANGED usage
           \/ UNCHANGED usageVars
  <2>1. UNCHANGED <<order, cacheSize, older>>
    BY <1>7 DEF RemoveMovie, SetSynopsis, Save, Load, LoadEnd, SaveEnd, AddMovie,
                usage, usageVars, vars, cacheVars
  <2>2. tidy' => tidy
    BY <1>7, Zenon DEF usage, usageVars
  <2>. QED  BY <1>3, <2>1, <2>2
<1>. QED  BY <1>4, <1>5, <1>6, <1>7 DEF UsageNext

\* Until a movie is removed whose synopsis is cached, the map and the vector kept
\* beside it are an LRU cache of at most _cache_size synopses: a hit or a load
\* makes its title the last used, and a load into a full cache evicts the title
\* read longest ago, and no other (catalog.h:190-193, catalog.cpp:326-357).
THEOREM ImplementsLru == UsageSpec => EvictsLeastRecent
<1> DEFINE recency == IF tidy THEN CachedByUse ELSE <<>>
<1>1. UsageInit => Lru!LruInit
  <2>. SUFFICES ASSUME UsageInit PROVE Lru!LruInit
    OBVIOUS
  <2>1. recency = (IF tidy THEN order ELSE <<>>)
    BY RecencyInit, OrderByUse DEF RecencyIsOrder
  <2>2. order = <<>> /\ cacheSize \in Nat
    BY CacheSizesAssumption DEF UsageInit, Init
  <2>. QED  BY <2>1, <2>2 DEF Lru!LruInit
<1>2. RInv /\ RInv' /\ RecencyStep => [Lru!LruNext]_<<recency, cacheSize>>
  <2>. SUFFICES ASSUME RInv, RInv', RecencyStep
                PROVE  [Lru!LruNext]_<<recency, cacheSize>>
    OBVIOUS
  <2>1. recency = (IF tidy THEN order ELSE <<>>)
    BY OrderByUse DEF RecencyIsOrder
  <2>2. recency' = (IF tidy' THEN order' ELSE <<>>)
    BY OrderByUseNext DEF RecencyIsOrder
  <2>3. CASE UNCHANGED <<order, cacheSize>> /\ (tidy' <=> tidy)
    BY <2>1, <2>2, <2>3
  <2>4. CASE (order' = <<>> \/ ~ tidy') /\ cacheSize' \in Nat
    <3>1. recency' = <<>>
      BY <2>2, <2>4
    <3>2. Lru!LruReset
      BY <2>4, <3>1 DEF Lru!LruReset
    <3>. QED  BY <3>2 DEF Lru!LruNext
  <2>5. ASSUME NEW t \in Titles, tidy, tidy', OrderStep(t)
        PROVE  [Lru!LruNext]_<<recency, cacheSize>>
    <3>1. recency = order /\ recency' = order'
      BY <2>1, <2>2, <2>5
    <3>2. CASE UNCHANGED <<order, cacheSize>>
      BY <3>1, <3>2
    <3>. HIDE DEF recency
    <3>3. ASSUME NEW i \in DOMAIN order, order[i] = t,
                 order' = Append(RemoveAt(order, i), t), UNCHANGED cacheSize
          PROVE  Lru!Touch(t)
      BY <3>1, <3>3 DEF Lru!Touch, Lru!RemoveAt, RemoveAt, recency
    <3>4. CASE /\ \A i \in DOMAIN order : order[i] # t
               /\ Len(order) < cacheSize
               /\ order' = Append(order, t)
               /\ UNCHANGED cacheSize
      <4>1. Lru!Insert(t)
        BY <3>1, <3>4 DEF Lru!Insert, Lru!Cached, recency
      <4>. QED  BY <4>1 DEF Lru!LruNext
    <3>5. CASE /\ \A i \in DOMAIN order : order[i] # t
               /\ Len(order) = cacheSize
               /\ order # <<>>
               /\ order' = Append(Tail(order), t)
               /\ UNCHANGED cacheSize
      <4>1. Lru!Replace(t)
        BY <3>1, <3>5 DEF Lru!Replace, Lru!Cached, recency
      <4>. QED  BY <4>1 DEF Lru!LruNext
    <3>. QED  BY <2>5, <3>2, <3>3, <3>4, <3>5 DEF OrderStep, Lru!LruNext
  <2>. QED  BY <2>3, <2>4, <2>5 DEF RecencyStep
<1>3. RInv /\ [UsageNext]_usageVars => RInv' /\ RecencyStep
  BY RecencyNext
<1>. QED
  BY <1>1, <1>2, <1>3, RecencyInit, PTL
     DEF UsageSpec, EvictsLeastRecent, Lru!LruSpec


=============================================================================

--------------------------- MODULE CachedCatalog ---------------------------
(***************************************************************************)
(* The catalog with one cached synopsis per movie                          *)
(* (src/core/catalog.cpp:277-362).  Movies read from the file leave their  *)
(* synopsis there (CSVFileSynopsisProvider) and every read of a synopsis,  *)
(* the client's or save()'s, goes through get_synopsis_using_cache.        *)
(*                                                                         *)
(* "order" is a vector kept beside the map: remove() and set_synopsis() do *)
(* not touch it, so that it may hold titles that are no longer cached, or  *)
(* one title twice.  Two statements of the code are undefined when the     *)
(* vector has not what they expect, erase(end()) and front() of an empty   *)
(* vector: "fault" records that one ran.  The process is then lost, until  *)
(* a new one reopens the file.                                             *)
(***************************************************************************)
EXTENDS CatalogData

CONSTANTS
  NotCached,   \* the title is not a key of _cache
  CacheSizes,  \* the sizes a program may configure
  MaxStale     \* bound: entries of order that belong to no cached title

ASSUME NotCachedAssumption == NotCached \notin Synopses
ASSUME CacheSizesAssumption == CacheSizes \subseteq Nat
ASSUME MaxStaleAssumption == MaxStale \in Nat
ASSUME TitlesFinite == IsFiniteSet(Titles)

VARIABLES
  cache,      \* _cache: title -> synopsis
  order,      \* _order: least recently used first
  cacheSize,  \* _cache_size, fixed by the constructor
  fault       \* undefined behaviour was executed

cacheVars == <<cache, order, cacheSize, fault>>
vars == <<dataVars, cacheVars>>

CachedTitles == { t \in Titles : cache[t] # NotCached }

TypeOK ==
  /\ DataTypeOK
  /\ cache \in [Titles -> Synopses \cup {NotCached}]
  /\ order \in Seq(Titles)
  /\ cacheSize \in CacheSizes
  /\ fault \in BOOLEAN

Init ==
  /\ DataInit
  /\ cache = [t \in Titles |-> NotCached]
  /\ order = <<>>
  /\ cacheSize \in CacheSizes
  /\ fault = FALSE

-----------------------------------------------------------------------------
\* std::find(order, t) returns the position i, Len(order) + 1 being end().
FindsAt(t, i) ==
  /\ i \in 1 .. Len(order) + 1
  /\ i <= Len(order) => order[i] = t
  /\ \A j \in 1 .. i - 1 : order[j] # t

\* The text get_synopsis_using_cache returns.
Served(t) == IF cache[t] # NotCached THEN cache[t] ELSE BaseText(t)

\* Mutant: the title is not pushed back.
HitForgets(t) ==
  /\ cache[t] # NotCached
  /\ \E i \in 1 .. Len(order) + 1 :
       /\ FindsAt(t, i)
       /\ order' = RemoveAt(order, i)
       /\ fault' = (i = Len(order) + 1)
  /\ UNCHANGED <<cache, cacheSize>>

\* Mutant: a hit does not count as a use (FIFO).
HitFifo(t) ==
  /\ cache[t] # NotCached
  /\ UNCHANGED cacheVars

\* 1. cached: the title moves to the back of the order.  erase(end()) is
\*    undefined.
Hit(t) ==
  /\ cache[t] # NotCached
  /\ \E i \in 1 .. Len(order) + 1 :
       /\ FindsAt(t, i)
       /\ order' = Append(RemoveAt(order, i), t)
       /\ fault' = (i = Len(order) + 1)
  /\ UNCHANGED <<cache, cacheSize>>

\* Mutant: the size is compared with <=.
LoadFreeOneMore(t) ==
  /\ cache[t] = NotCached
  /\ Cardinality(CachedTitles) <= cacheSize
  /\ cache' = [cache EXCEPT ![t] = BaseText(t)]
  /\ order' = Append(order, t)
  /\ UNCHANGED <<cacheSize, fault>>

\* 2. and 4. not cached, room left: load from the base provider and insert.
LoadFree(t) ==
  /\ cache[t] = NotCached
  /\ Cardinality(CachedTitles) < cacheSize
  /\ cache' = [cache EXCEPT ![t] = BaseText(t)]
  /\ order' = Append(order, t)
  /\ UNCHANGED <<cacheSize, fault>>

\* Mutant: the evicted title's text is kept under the new title.
LoadEvictMixedUp(t) ==
  /\ cache[t] = NotCached
  /\ Cardinality(CachedTitles) >= cacheSize
  /\ order # <<>>
  /\ cache' = [cache EXCEPT ![Head(order)] = NotCached,
                            ![t] = cache[Head(order)]]
  /\ order' = Append(Tail(order), t)
  /\ UNCHANGED <<cacheSize, fault>>

\* 3. cache full: the front of the order goes, from the map if it is there.
LoadEvict(t) ==
  /\ cache[t] = NotCached
  /\ Cardinality(CachedTitles) >= cacheSize
  /\ order # <<>>
  /\ cache' = [cache EXCEPT ![Head(order)] = NotCached, ![t] = BaseText(t)]
  /\ order' = Append(Tail(order), t)
  /\ UNCHANGED <<cacheSize, fault>>

\* 3. cache full, order empty: front() of an empty vector.
LoadFault(t) ==
  /\ cache[t] = NotCached
  /\ Cardinality(CachedTitles) >= cacheSize
  /\ order = <<>>
  /\ fault' = TRUE
  /\ UNCHANGED <<cache, order, cacheSize>>

\* get_synopsis_using_cache(t), for a movie of the catalog.
UseCache(t) == Hit(t) \/ LoadFree(t) \/ LoadEvict(t) \/ LoadFault(t)

-----------------------------------------------------------------------------
Load == ~ fault /\ LoadMovie(FromCsv) /\ UNCHANGED cacheVars

LoadEnd == ~ fault /\ LoadDone /\ UNCHANGED cacheVars

AddMovie(t, s) ==
  /\ phase = "idle" /\ ~ fault
  /\ t \in Addable
  /\ PushMovie(t, s)
  /\ UNCHANGED <<file, phase, pos, target, cacheVars>>

\* Mutant: the cached text stays.
RemoveMovieKeepsText(t) ==
  /\ phase = "idle" /\ ~ fault
  /\ t \in Removable
  /\ Len(order) - Cardinality(CachedTitles) < MaxStale
  /\ EraseMovie(t)
  /\ UNCHANGED <<file, phase, pos, target, cacheVars>>

\* Mutant: the order entry goes and the cached text stays.
RemoveMovieFromOrder(t) ==
  /\ phase = "idle" /\ ~ fault
  /\ t \in Removable
  /\ EraseMovie(t)
  /\ order' = SelectSeq(order, LAMBDA x : x # t)
  /\ UNCHANGED <<file, phase, pos, target, cache, cacheSize, fault>>

\* remove: the movie and its cached synopsis go, its order entries stay.
RemoveMovie(t) ==
  /\ phase = "idle" /\ ~ fault
  /\ t \in Removable
  /\ Len(order) - Cardinality(CachedTitles) < MaxStale    \* the bound
  /\ EraseMovie(t)
  /\ cache' = [cache EXCEPT ![t] = NotCached]
  /\ UNCHANGED <<file, phase, pos, target, order, cacheSize, fault>>

\* CachedSynopsisProvider::set_synopsis: straight to the base provider.
SetSynopsis(t, s) ==
  /\ phase = "idle" /\ ~ fault
  /\ t \in Editable
  /\ Exists(t)
  /\ SetBase(t, s)
  /\ UNCHANGED <<phase, pos, target, cacheVars>>

GetSynopsis(t) ==
  /\ phase = "idle" /\ ~ fault
  /\ Exists(t)
  /\ UseCache(t)
  /\ UNCHANGED dataVars

Save(f) == ~ fault /\ OpenOutput(f) /\ UNCHANGED cacheVars

\* One movie of save(): synopsis() is evaluated before the row is written.
SaveRow ==
  /\ phase = "save" /\ ~ fault
  /\ pos <= Len(data)
  /\ LET t == data[pos].title IN
       /\ UseCache(t)
       /\ IF fault' THEN UNCHANGED dataVars ELSE WriteMovie(Served(t))

SaveEnd == ~ fault /\ CloseOutput /\ UNCHANGED cacheVars

Restart ==
  /\ Reopen
  /\ cache' = [t \in Titles |-> NotCached]
  /\ order' = <<>>
  /\ cacheSize' \in CacheSizes
  /\ fault' = FALSE

Next ==
  \/ Load
  \/ LoadEnd
  \/ \E t \in Titles, s \in Synopses : AddMovie(t, s) \/ SetSynopsis(t, s)
  \/ \E t \in Titles : RemoveMovie(t) \/ GetSynopsis(t)
  \/ \E f \in Files : Save(f)
  \/ SaveRow
  \/ SaveEnd
  \/ Restart

Spec == Init /\ [][Next]_vars

-----------------------------------------------------------------------------
(* Whatever the client does. *)

\* erase(end()) never runs, and front() runs on an empty order only in a cache
\* configured for nothing (catalog.cpp:331-332 and 346-347).
FaultOnlyWhenZero == fault => cacheSize = 0

\* remove() drops the cached text but not the title in the order; a hit still
\* always finds its title there, and eviction always has a title to take.
CachedInOrder ==
  \A t \in CachedTitles : \E i \in DOMAIN order : order[i] = t

\* No text outlives its movie: a title removed and added again is not served
\* the old movie's synopsis (catalog.cpp:321-324).
CachedInCatalog == \A t \in CachedTitles : Exists(t)

\* The vector, the map and the order, which different functions update, and the
\* file agree: besides, no title is in the vector twice, and a movie whose text
\* is on disk has its row (catalog.cpp:170-182, 306-362).
RecordsAgree ==
  /\ TypeOK
  /\ CachedInOrder
  /\ CachedInCatalog
  /\ UniqueTitles
  /\ LazyRowsPresent

\* A synopsis given to add() is the one served: neither a leftover in the cache
\* nor a row of the file shadows it (catalog.cpp:306-319).
AddedSynopsisIsServed ==
  [][\A t \in Titles, s \in Synopses :
       AddMovie(t, s) /\ ~ Exists(t) => Served(t)' = s]_vars

\* set_synopsis reaches the movie's own provider: for a movie of the file there
\* is a row to edit, although edit_field would not report its absence
\* (movie.cpp:141-165, utils.cpp:139-181).
SetReachesBase ==
  [][\A t \in Titles, s \in Synopses : SetSynopsis(t, s) => BaseText(t)' = s]_vars

\* A finished save leaves one row per movie, in order, whatever the caching
\* and evicting behind synopsis() does meanwhile (catalog.cpp:256-271).
SavedTitles ==
  [][SaveEnd =>
       /\ Len(file[target]) = Len(data)
       /\ \A i \in DOMAIN data : file[target][i].title = data[i].title]_vars

-----------------------------------------------------------------------------
(* What catalog.h says and the code does not do. *)

\* "Save catalog contents to a CSV file.", catalog.h:102: of a client that
\* neither adds nor edits, a save writes rows the file started with.
SavedRowsAreOriginal ==
  [][SaveEnd => \A i \in DOMAIN file[target] : \E rows \in InitialCsv :
                  \E j \in DOMAIN rows : rows[j] = file[target][i]]_vars

=============================================================================

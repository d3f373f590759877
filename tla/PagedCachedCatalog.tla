------------------------- MODULE PagedCachedCatalog -------------------------
(***************************************************************************)
(* The catalog that caches synopses by pages of PageSize consecutive       *)
(* movies (src/core/catalog.cpp:365-506).  A page is keyed by its number,  *)
(* the position of a movie divided by PageSize, and holds the titles that  *)
(* stood there when it was loaded.  remove() is BasicCatalog's: it shifts  *)
(* the positions behind it and leaves the cached pages as they are, so a   *)
(* page may hold titles that now stand elsewhere, or nowhere.              *)
(***************************************************************************)
EXTENDS CatalogData

CONSTANTS
  CacheSizes,  \* the sizes, in pages, a program may configure
  PageSize     \* PAGE_SIZE

ASSUME CacheSizesAssumption == CacheSizes \subseteq Nat
ASSUME PageSizeAssumption == PageSize \in Nat \ {0}

VARIABLES
  cache,      \* _cache: page number -> (title -> synopsis)
  order,      \* _order: the pages, least recently used first
  cacheSize,  \* _cache_size, fixed by the constructor
  fault       \* erase(end()) or front() of an empty vector was executed

cacheVars == <<cache, order, cacheSize, fault>>
vars == <<dataVars, cacheVars>>

CachedPages == DOMAIN cache

TypeOK ==
  /\ DataTypeOK
  /\ CachedPages \subseteq Nat
  /\ \A p \in CachedPages :
       /\ DOMAIN cache[p] \subseteq Titles
       /\ \A t \in DOMAIN cache[p] : cache[p][t] \in Synopses
  /\ order \in Seq(Nat)
  /\ cacheSize \in CacheSizes
  /\ fault \in BOOLEAN

Init ==
  /\ DataInit
  /\ cache = [p \in {} |-> <<>>]
  /\ order = <<>>
  /\ cacheSize \in CacheSizes
  /\ fault = FALSE

-----------------------------------------------------------------------------
\* The page a position of the vector belongs to.
PageAt(i) == (i - 1) \div PageSize

PageOf(t) == PageAt(IndexOf(t))

TitlesOf(p) == { data[i].title : i \in { j \in DOMAIN data : PageAt(j) = p } }

\* load_page: the last row with the title, the movie's own provider without one.
PageText(t) ==
  IF FirstHits(csv, t) # {} THEN ParsedField(csv, t) ELSE BaseText(t)

\* Mutant: no fallback for movies without a row.
ReadPageFromFile(p) == [t \in TitlesOf(p) |-> ParsedField(csv, t)]

ReadPage(p) == [t \in TitlesOf(p) |-> PageText(t)]

\* The title is on its page in the cache.
OnPage(t) == PageOf(t) \in CachedPages /\ t \in DOMAIN cache[PageOf(t)]

\* The text get_synopsis_using_cache returns.
Served(t) == IF OnPage(t) THEN cache[PageOf(t)][t] ELSE PageText(t)

\* std::find(order, p) returns the position i, Len(order) + 1 being end().
FindsAt(p, i) ==
  /\ i \in 1 .. Len(order) + 1
  /\ i <= Len(order) => order[i] = p
  /\ \A j \in 1 .. i - 1 : order[j] # p

-----------------------------------------------------------------------------
\* load_page, when the pages "kept" and the order "rest" remain after page p
\* itself was erased; "broken": the order did not hold p.
Insert(p, kept, rest, broken) ==
  /\ cache' = [q \in kept \cup {p} |-> IF q = p THEN ReadPage(p) ELSE cache[q]]
  /\ order' = Append(rest, p)
  /\ fault' = broken
  /\ UNCHANGED cacheSize

\* Mutant: the size compared with <=.
LoadPageOneMore(p, rest, broken) ==
  LET kept == CachedPages \ {p} IN
  \/ /\ Cardinality(kept) <= cacheSize
     /\ Insert(p, kept, rest, broken)
  \/ /\ Cardinality(kept) > cacheSize
     /\ Insert(p, kept \ {Head(rest)}, Tail(rest), broken)

LoadPage(p, rest, broken) ==
  LET kept == CachedPages \ {p} IN
  \/ /\ Cardinality(kept) < cacheSize
     /\ Insert(p, kept, rest, broken)
  \/ /\ Cardinality(kept) >= cacheSize
     /\ rest # <<>>
     /\ Insert(p, kept \ {Head(rest)}, Tail(rest), broken)
  \/ /\ Cardinality(kept) >= cacheSize
     /\ rest = <<>>
     /\ fault' = TRUE
     /\ UNCHANGED <<cache, order, cacheSize>>

\* Mutant: the page is not pushed back.
HitForgets(t) ==
  /\ OnPage(t)
  /\ \E i \in 1 .. Len(order) + 1 :
       /\ FindsAt(PageOf(t), i)
       /\ order' = RemoveAt(order, i)
       /\ fault' = (i = Len(order) + 1)
  /\ UNCHANGED <<cache, cacheSize>>

\* get_page and the title is on the page: the page moves to the back.
Hit(t) ==
  /\ OnPage(t)
  /\ \E i \in 1 .. Len(order) + 1 :
       /\ FindsAt(PageOf(t), i)
       /\ order' = Append(RemoveAt(order, i), PageOf(t))
       /\ fault' = (i = Len(order) + 1)
  /\ UNCHANGED <<cache, cacheSize>>

\* Mutant: the old entry of the order stays.
ReloadKeepsOrder(t) ==
  /\ PageOf(t) \in CachedPages
  /\ ~ OnPage(t)
  /\ LoadPage(PageOf(t), order, FALSE)

\* The page is there without the title: get_page, then load_page again.
Reload(t) ==
  /\ PageOf(t) \in CachedPages
  /\ ~ OnPage(t)
  /\ \E i \in 1 .. Len(order) + 1 :
       /\ FindsAt(PageOf(t), i)
       /\ LoadPage(PageOf(t), RemoveAt(order, i), i = Len(order) + 1)

\* The page is not there.
Fetch(t) ==
  /\ PageOf(t) \notin CachedPages
  /\ LoadPage(PageOf(t), order, FALSE)

\* get_synopsis_using_cache(t), for a movie of the catalog.
UseCache(t) == Hit(t) \/ Reload(t) \/ Fetch(t)

-----------------------------------------------------------------------------
Load == ~ fault /\ LoadMovie(FromCsv) /\ UNCHANGED cacheVars

LoadEnd == ~ fault /\ LoadDone /\ UNCHANGED cacheVars

AddMovie(t, s) ==
  /\ phase = "idle" /\ ~ fault
  /\ t \in Addable
  /\ PushMovie(t, s)
  /\ UNCHANGED <<file, phase, pos, target, cacheVars>>

\* BasicCatalog::remove, not overridden.
RemoveMovie(t) ==
  /\ phase = "idle" /\ ~ fault
  /\ t \in Removable
  /\ EraseMovie(t)
  /\ UNCHANGED <<file, phase, pos, target, cacheVars>>

\* CachedSynopsisProvider::set_synopsis: straight to the base provider.
SetSynopsis(t, s) ==
  /\ phase = "idle" /\ ~ fault
  /\ t \in Editable
  /\ Exists(t)
  /\ SetBase(t, s)
  /\ UNCHANGED <<phase, pos, target, cacheVars>>

GetSynopsis(t) ==
  /\ phase = "idle" /\ ~ fault
  /\ Exists(t)
  /\ UseCache(t)
  /\ UNCHANGED dataVars

Save(f) == ~ fault /\ OpenOutput(f) /\ UNCHANGED cacheVars

\* One movie of save(): synopsis() is evaluated before the row is written, and
\* may load its page from the file being written.
SaveRow ==
  /\ phase = "save" /\ ~ fault
  /\ pos <= Len(data)
  /\ LET t == data[pos].title IN
       /\ UseCache(t)
       /\ IF fault' THEN UNCHANGED dataVars ELSE WriteMovie(Served(t))

SaveEnd == ~ fault /\ CloseOutput /\ UNCHANGED cacheVars

Restart ==
  /\ Reopen
  /\ cache' = [p \in {} |-> <<>>]
  /\ order' = <<>>
  /\ cacheSize' \in CacheSizes
  /\ fault' = FALSE

Next ==
  \/ Load
  \/ LoadEnd
  \/ \E t \in Titles, s \in Synopses : AddMovie(t, s) \/ SetSynopsis(t, s)
  \/ \E t \in Titles : RemoveMovie(t) \/ GetSynopsis(t)
  \/ \E f \in Files : Save(f)
  \/ SaveRow
  \/ SaveEnd
  \/ Restart

Spec == Init /\ [][Next]_vars

-----------------------------------------------------------------------------
(* Whatever the client does. *)

\* erase(end()) never runs, and front() runs on an empty order only in a cache
\* configured for nothing (catalog.cpp:450-451, 462-463, 493-496).
FaultOnlyWhenZero == fault => cacheSize = 0

\* The order lists the cached pages, each once, although pages are erased and
\* reinserted in three places (catalog.cpp:445-506).
OrderIsPages ==
  /\ ToSet(order) = CachedPages
  /\ Len(order) = Cardinality(CachedPages)

\* The vector, the map, the order and the file agree: besides, no title is in the
\* vector twice, and a movie whose text is on disk has its row, although rows are
\* found by title and pages by position (catalog.cpp:170-182, 401-506).
RecordsAgree ==
  /\ TypeOK
  /\ OrderIsPages
  /\ UniqueTitles
  /\ LazyRowsPresent

\* "Maximum number of cached pages.", catalog.h:339, also while stale pages
\* are loaded again.
WithinCapacity == Cardinality(CachedPages) <= cacheSize

\* A movie that was read stays on its page until the vector or the cache
\* changes: two reads in a row cost one load (catalog.cpp:417-434).
ReadIsOnPage ==
  [][\A t \in Titles : GetSynopsis(t) /\ ~ fault' => OnPage(t)']_vars

\* A finished save leaves one row per movie, in order, whatever pages its own
\* reads load and evict (catalog.cpp:256-271).
SavedTitles ==
  [][SaveEnd =>
       /\ Len(file[target]) = Len(data)
       /\ \A i \in DOMAIN data : file[target][i].title = data[i].title]_vars

=============================================================================

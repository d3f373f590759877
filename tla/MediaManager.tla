---------------------------- MODULE MediaManager ----------------------------
(***************************************************************************)
(* The media manager (src/core/media_manager.cpp): a catalog of one of     *)
(* three classes and a search index, changed together.  The catalog is     *)
(* used through the actions of its own module.  Every read of a synopsis,  *)
(* by reindex(), reindex_all() and the save() in flush(), goes through the *)
(* catalog's cache, which an edit does not refresh, and may go to the      *)
(* file, which flush() has truncated by then; the loops are one step per   *)
(* movie, for each movie may evict another.                                *)
(*                                                                         *)
(* The two halves are made durable one after the other: flush() saves the  *)
(* file row by row and then commits the index, and the program may die     *)
(* anywhere in between.  A save() that throws, the file not being opened,  *)
(* has changed nothing, and is no step.                                    *)
(***************************************************************************)
EXTENDS CatalogData, Indexer

CONSTANTS
  Configs,       \* the cache_type of each program that is started
  NotCached, CacheSizes, MaxStale, PageSize    \* of the catalogs

ASSUME ConfigsAssumption ==
  Configs \subseteq {"NO_CACHE", "INDIVIDUAL_CACHE", "PAGED_CACHE"}

\* Those of the catalogs' own modules.
ASSUME CatalogAssumption ==
  /\ NotCached \notin Synopses
  /\ CacheSizes \subseteq Nat
  /\ MaxStale \in Nat
  /\ PageSize \in Nat \ {0}
  /\ IsFiniteSet(Titles)

VARIABLES
  config,                            \* the cache_type of this program
  cache, order, cacheSize, fault,    \* of the catalog, if it has a cache
  job,             \* the call that runs: "reindex_all", "flush"; else "none"
  indexed,         \* movies reindex_all() has indexed so far
  unsynced,        \* history: titles whose document is not known to have the
                   \*   text of the movie
  unsyncedOnDisk,  \* history: the same of the two halves on disk
  torn,            \* history: the index is not that of the file it came with,
                   \*   and reindex_all() has not been called since
  tornOnDisk       \* history: the same of the two halves on disk

Basic == INSTANCE BasicCatalog
Cached == INSTANCE CachedCatalog
Paged == INSTANCE PagedCachedCatalog

cacheVars == <<cache, order, cacheSize, fault>>
jobVars == <<job, indexed>>
history == <<unsynced, unsyncedOnDisk, torn, tornOnDisk>>
vars == <<dataVars, config, cacheVars, indexVars, jobVars, history>>

-----------------------------------------------------------------------------
(* The virtual functions of the catalog. *)

\* The action of the class the manager was configured with.
Dispatch(basic, individual, paged) ==
  \/ config = "NO_CACHE" /\ basic /\ UNCHANGED cacheVars
  \/ config = "INDIVIDUAL_CACHE" /\ individual
  \/ config = "PAGED_CACHE" /\ paged

\* Movie::synopsis() of a movie of the catalog: what it does and returns.
UseCache(t) == Dispatch(TRUE, Cached!UseCache(t), Paged!UseCache(t))

Served(t) ==
  CASE config = "NO_CACHE" -> BaseText(t)
    [] config = "INDIVIDUAL_CACHE" -> Cached!Served(t)
    [] config = "PAGED_CACHE" -> Paged!Served(t)

EmptyCache(kind) ==
  IF kind = "INDIVIDUAL_CACHE" THEN [t \in Titles |-> NotCached] ELSE <<>>

\* The text served is read from the movie's own provider now.
ReadsOwnText(t) ==
  CASE config = "NO_CACHE" -> TRUE
    [] config = "INDIVIDUAL_CACHE" -> cache[t] = NotCached
    [] config = "PAGED_CACHE" ->
         /\ ~ Paged!OnPage(t)
         /\ data[IndexOf(t)].base = FromCsv \/ FirstHits(csv, t) = {}

\* The paged cache serves an added movie the text of a row, or of a page, of
\* another movie of its title.
Shadowed(t) ==
  config = "PAGED_CACHE" /\ data[IndexOf(t)].base \notin {FromCsv, Served(t)}

\* The titles whose rows are read when a save asks for the text of t: it has
\* truncated their file.
ReadWith(t) ==
  CASE config = "NO_CACHE" -> {}
    [] config = "INDIVIDUAL_CACHE" -> IF cache[t] = NotCached THEN {t} ELSE {}
    [] config = "PAGED_CACHE" ->
         IF Paged!OnPage(t) THEN {} ELSE Paged!TitlesOf(Paged!PageOf(t))

LostBySaving(t) ==
  { u \in ReadWith(t) : data[IndexOf(u)].base = FromCsv }
    \cup (IF Shadowed(t) THEN {t} ELSE {})

-----------------------------------------------------------------------------
\* The other movies with the term of t: a change of its document is one of theirs.
Sharing(t) == { u \in Titles \ {t} : Slug[u] = Slug[t] /\ Exists(u) }

\* The constructor opens the index, creates a missing file without rows and
\* builds the catalog.
Init ==
  /\ DataInit
  /\ config \in Configs
  /\ cache = EmptyCache(config)
  /\ order = <<>>
  /\ cacheSize \in CacheSizes
  /\ fault = FALSE
  /\ IndexInit
  /\ job = "none"
  /\ indexed = 0
  /\ unsynced = {}
  /\ unsyncedOnDisk = {}
  /\ torn = (csv # <<>>)      \* a new index beside an old file
  /\ tornOnDisk = torn

Ready == phase = "idle" /\ job = "none" /\ ~ fault

Load ==
  /\ Dispatch(Basic!Load \/ Basic!LoadEnd,
              Cached!Load \/ Cached!LoadEnd,
              Paged!Load \/ Paged!LoadEnd)
  /\ UNCHANGED <<config, indexVars, jobVars, history>>

\* add: the index first, whatever the catalog then does with the movie; of a
\* title already present the document is now that of the movie refused.
AddMovie(t, s) ==
  /\ Ready
  /\ IndexAdd(t, s)
  /\ Dispatch(Basic!AddMovie(t, s), Cached!AddMovie(t, s), Paged!AddMovie(t, s))
  /\ unsynced' = IF Exists(t) THEN unsynced \cup Sharing(t) \cup {t}
                              ELSE (unsynced \cup Sharing(t)) \ {t}
  /\ UNCHANGED <<config, jobVars, unsyncedOnDisk, torn, tornOnDisk>>

RemoveMovie(t) ==
  /\ Ready
  /\ IndexRemove(t)
  /\ Dispatch(Basic!RemoveMovie(t), Cached!RemoveMovie(t), Paged!RemoveMovie(t))
  /\ unsynced' = (unsynced \cup Sharing(t)) \ {t}
  /\ UNCHANGED <<config, jobVars, unsyncedOnDisk, torn, tornOnDisk>>

\* get_movie(title) gives the client the movie itself; the manager is not told
\* of what it sets there, which may be in the file at once.
EditMovie(t, s) ==
  /\ Ready
  /\ Dispatch(Basic!SetSynopsis(t, s), Cached!SetSynopsis(t, s),
              Paged!SetSynopsis(t, s))
  /\ unsynced' = unsynced \cup {t}
  /\ unsyncedOnDisk' = IF data[IndexOf(t)].base = FromCsv
                       THEN unsyncedOnDisk \cup {t} ELSE unsyncedOnDisk
  /\ UNCHANGED <<config, indexVars, jobVars, torn, tornOnDisk>>

ReadMovie(t) ==
  /\ Ready
  /\ Exists(t)
  /\ UseCache(t)
  /\ UNCHANGED <<dataVars, config, indexVars, jobVars, history>>

-----------------------------------------------------------------------------
\* The document of t was made of the text the catalog serves.
NowIndexed(t) ==
  LET others == unsynced \cup Sharing(t) IN
  unsynced' = CASE ReadsOwnText(t) -> others \ {t}
                [] Shadowed(t) -> others \cup {t}
                [] OTHER -> others

\* reindex: "Please, call it whenever you edit a movie" (media_manager.h:113).
Reindex(t) ==
  /\ Ready
  /\ Exists(t)
  /\ UseCache(t)
  /\ IndexEdit(t, t, Served(t))
  /\ NowIndexed(t)
  /\ UNCHANGED <<dataVars, config, jobVars, unsyncedOnDisk, torn, tornOnDisk>>

\* reindex_all: clear(), then add() of each movie.
ReindexAll ==
  /\ Ready
  /\ IndexClear
  /\ job' = "reindex_all"
  /\ indexed' = 0
  /\ UNCHANGED <<dataVars, config, cacheVars, history>>

ReindexAllMovie ==
  /\ job = "reindex_all" /\ ~ fault
  /\ indexed < Len(data)
  /\ LET t == data[indexed + 1].title IN
       /\ UseCache(t)
       /\ IndexAdd(t, Served(t))
       /\ NowIndexed(t)
  /\ indexed' = indexed + 1
  /\ UNCHANGED <<dataVars, config, job, unsyncedOnDisk, torn, tornOnDisk>>

ReindexAllEnd ==
  /\ job = "reindex_all" /\ ~ fault
  /\ indexed = Len(data)
  /\ job' = "none"
  /\ indexed' = 0
  /\ torn' = FALSE
  /\ UNCHANGED <<dataVars, config, cacheVars, indexVars,
                 unsynced, unsyncedOnDisk, tornOnDisk>>

-----------------------------------------------------------------------------
\* flush, 1: save the catalog over its file.
Flush ==
  /\ Ready
  /\ Dispatch(Basic!Save("own"), Cached!Save("own"), Paged!Save("own"))
  /\ job' = "flush"
  /\ UNCHANGED <<config, indexed, indexVars, history>>

FlushRow ==
  /\ job = "flush"
  /\ Dispatch(Basic!SaveRow, Cached!SaveRow, Paged!SaveRow)
  /\ unsynced' = unsynced \cup LostBySaving(data[pos].title)
  /\ UNCHANGED <<config, indexVars, jobVars, unsyncedOnDisk, torn, tornOnDisk>>

FlushSaved ==
  /\ job = "flush"
  /\ Dispatch(Basic!SaveEnd, Cached!SaveEnd, Paged!SaveEnd)
  /\ UNCHANGED <<config, indexVars, jobVars, history>>

\* Mutant: the commit is forgotten.
FlushWithoutCommit ==
  /\ job = "flush" /\ ~ fault
  /\ phase = "idle"
  /\ job' = "none"
  /\ unsyncedOnDisk' = unsynced
  /\ tornOnDisk' = torn
  /\ UNCHANGED <<dataVars, config, cacheVars, indexVars, indexed, unsynced, torn>>

\* flush, 2: commit the index.
FlushCommit ==
  /\ job = "flush" /\ ~ fault
  /\ phase = "idle"
  /\ IndexCommit
  /\ job' = "none"
  /\ unsyncedOnDisk' = unsynced
  /\ tornOnDisk' = torn
  /\ UNCHANGED <<dataVars, config, cacheVars, indexed, unsynced, torn>>

-----------------------------------------------------------------------------
\* Another manager is started, configured anew, after the program died.
Reborn(isTorn) ==
  /\ config' \in Configs
  /\ cache' = EmptyCache(config')
  /\ order' = <<>>
  /\ cacheSize' \in CacheSizes
  /\ fault' = FALSE
  /\ IndexReopen
  /\ job' = "none"
  /\ indexed' = 0
  /\ unsynced' = IF isTorn THEN {} ELSE unsyncedOnDisk
  /\ unsyncedOnDisk' = unsynced'
  /\ torn' = isTorn
  /\ tornOnDisk' = isTorn

\* Between two calls or anywhere in flush(), also when the flush() of the
\* destructor throws, which ends the program before the index is committed.
Crash ==
  /\ Reopen
  /\ Reborn(tornOnDisk \/ job = "flush")

\* In the set_synopsis() of a movie of the file, between remove() and rename():
\* the file does not exist, and the constructor creates it, without rows.
CrashInEdit(t) ==
  /\ Ready
  /\ Restarts
  /\ t \in Editable
  /\ Exists(t)
  /\ data[IndexOf(t)].base = FromCsv
  /\ file' = [file EXCEPT !["own"] = <<>>]
  /\ data' = <<>>
  /\ phase' = "load"
  /\ UNCHANGED <<pos, target>>
  /\ Reborn(TRUE)

Next ==
  \/ Load
  \/ \E t \in Titles, s \in Synopses : AddMovie(t, s) \/ EditMovie(t, s)
  \/ \E t \in Titles :
       RemoveMovie(t) \/ ReadMovie(t) \/ Reindex(t) \/ CrashInEdit(t)
  \/ ReindexAll
  \/ ReindexAllMovie
  \/ ReindexAllEnd
  \/ Flush
  \/ FlushRow
  \/ FlushSaved
  \/ FlushCommit
  \/ Crash

Spec == Init /\ [][Next]_vars

-----------------------------------------------------------------------------
TypeOK ==
  /\ config \in Configs
  /\ config = "INDIVIDUAL_CACHE" => Cached!TypeOK
  /\ config = "PAGED_CACHE" => Paged!TypeOK
  /\ config = "NO_CACHE" => Basic!TypeOK
  /\ IndexTypeOK
  /\ job \in {"none", "reindex_all", "flush"}
  /\ indexed \in 0 .. Len(data)
  /\ unsynced \subseteq Titles
  /\ unsyncedOnDisk \subseteq Titles
  /\ torn \in BOOLEAN
  /\ tornOnDisk \in BOOLEAN

\* search() turns every document it finds into a movie of the catalog with
\* .value(), which throws without one (media_manager.cpp:87-98).
DocumentsHaveMovies == \A k \in Slugs : index[k] # NoDoc => Exists(index[k].title)

\* No search throws, with titles added twice and terms shared, until a flush or
\* the edit of the file is cut short, and again once reindex_all() was called
\* (media_manager.cpp:60-95).
SearchFindsMovies == Ready /\ ~ torn => DocumentsHaveMovies

\* Every movie of the catalog has its document, and the document the movie's
\* text, although reindexing reads it through a cache that evicts while it
\* goes; unless the client edited the movie, added it twice or gave its term to
\* another one without a reindex, the cache served an older text, or a flush
\* lost the text (media_manager.cpp:60-85).
IndexMatchesCatalog ==
  Ready /\ ~ torn => \A i \in DOMAIN data :
    LET t == data[i].title IN
    t \notin unsynced => index[Slug[t]] = Doc(t, BaseText(t))

\* Between two calls the two halves on disk name the same movies, whatever was
\* changed in memory since: what a crash, or a destructor that throws, then
\* leaves is a state that was flushed (media_manager.cpp:32-36, 82-85).
DiskHalvesAgree ==
  job # "flush" /\ ~ tornOnDisk => \A t \in Titles :
    (\A u \in Titles \ {t} : Slug[u] # Slug[t]) =>
      ( (\E i \in DOMAIN csv : csv[i].title = t)
          <=> stored[Slug[t]] # NoDoc /\ stored[Slug[t]].title = t )

-----------------------------------------------------------------------------
(* What media_manager.h says and the code does not do. *)

\* "Flush pending data and ensure consistency.", media_manager.h:123: whenever
\* the program died, the next search finds a movie for each document.
SearchNeverThrows == Ready => DocumentsHaveMovies

=============================================================================

# FeatherPiFlix: a TLA+ verification project

FeatherPiFlix is a small C++ media server. Its core keeps a list of movies in a
CSV file, serves their synopses through one of three catalog classes (two of
them with a cache), keeps a Xapian full text index beside the list, and sorts,
selects and pages through the movies. A second part, a router and an HTTP
server, does not use the core yet. This directory holds TLA+ models of all of it,
the TLC runs that check them and the TLAPS proofs about them. Source
locations are relative to the repository's `src/`.

    tlc -workers 2 -config CachedCatalog.cfg MCCachedCatalog.tla
    tlapm CachedCatalog_proofs.tla

## The system

| Part | State | Operations | Modelled in |
|---|---|---|---|
| CSV files (`core/utils.cpp:14-181`) | the lines of a file | `read`, `get_field`, `edit_field`, `write_row` | `CsvTable` (well formed files, at once), `CsvFile` (any file, in steps) |
| Movie, synopsis providers (`core/movie.cpp`) | title, a provider: the text itself, or title and file name | `synopsis`, `set_synopsis` | `CatalogData`, `CsvFile` |
| `BasicCatalog` (`core/catalog.cpp:150-274`) | `_data`, a vector of movies | constructor, `add`, `remove`, `save`, `get_movie`, `exists`; `all_movies`, `movies_slice` | `CatalogData`, `BasicCatalog`; `MovieLists` |
| `CachedCatalog` (`catalog.cpp:277-362`) | and `_cache`, `_order`, `_cache_size` | the same, `get_synopsis_using_cache` | `CachedCatalog`, `CachedUsage` |
| `PagedCachedCatalog` (`catalog.cpp:365-506`) | and pages of ten movies | the same, `get_page`, `load_page` | `PagedCachedCatalog`, `PagedUsage` |
| `Indexer` (`core/search.cpp`) | a Xapian database | `add`, `edit`, `remove`, `clear`, `flush`, `search` | `Indexer` |
| `MediaManager` (`core/media_manager.cpp`) | a catalog of one class and an index | `add`, `remove`, `reindex`, `reindex_all`, `flush`, `search` | `MediaManager` |
| Sorting and selection (`core/sort.cpp`) | none; lists of references | five comparators, five selections | `MovieOrder`, `MovieLists` |
| `slug` (`core/utils.cpp:185-216`) | none | `slug` | `Slug` |
| Covers (`core/cover.cpp`, `core/img_format.cpp`) | image files, GD images | `create_covers`, `resize_*`, `scale_image` | `Covers` |
| `Router` (`server/router.cpp`) | a list of routes | `add_route`, `get_route`, `dispatch` | `Router` |
| `HttpServer` (`server/http_server.cpp`) | the daemon's handle; connections, responses, descriptors | `start`, `stop`, destructor, `callback` | `HttpServer` |

How they interact: a catalog owns its movies; a movie owns its synopsis
provider; the provider of a movie in a cached catalog calls back into the
catalog (`get_synopsis_using_cache`), which calls the provider underneath, which
opens the CSV file. So `save()`, which asks every movie for its synopsis, runs
the cache while it writes the very file the texts may be in. The media manager
calls the index and then the catalog, and its client reaches the movies behind
its back through `get_movie()`. The HTTP server owns a libmicrohttpd daemon, whose
polling thread calls back into the server object.

What is hard here:

- *Two containers kept by hand.* `_cache` and `_order` are updated in different
  places and `remove()` updates one of them. `erase(find(...))` and `front()` are
  undefined when the other container is not what the code expects.
- *Several copies of one text.* The row of the file, the provider's own text, the
  cached text and the indexed text change at different times.
- *Positions used as names.* A page is keyed by the position of a movie divided
  by the page size, and positions shift.
- *Files written in place, or copied, removed and renamed.* `save()` truncates
  first; `set_synopsis()` leaves no file for a moment; the program may die
  anywhere, and no stream is asked whether a write failed.
- *Two stores made durable one after the other*, CSV file and index.
- *Two threads and counted references* in the HTTP server: the object, the
  responses and their descriptors have owners on both threads.
- *Integers of a width*, in slices, intervals and image sizes.

The hazards are listed one by one, with their lines and the properties that
cover them, in `PROJECT.json`.

## The modules

**The catalog**

`CsvTable`: a file is the sequence of its data rows, a row its title and
synopsis. `GetField` and `EditField` are what `csv::get_field` and
`csv::edit_field` compute (the first matching row), `ParsedField` what `load_page`
keeps of a file (the last one).

`CatalogData`: the state the three classes share (`file`, `data`, and where the
constructor or `save()` stands) and `BasicCatalog`'s operations on it, as operators
the class modules compose. The base of a movie is its provider without caches:
`FromCsv` for `CSVFileSynopsisProvider`, otherwise the text of
`DirectSynopsisProvider`. The constructor and `save()` are one step per row; they
cannot be interleaved with other calls (`phase` forbids it, as the single thread
does) but the program may die between two rows. Each row written is flushed
(`endl`), so a read or a crash after it sees it. `"copy"` stands for any other file
than the catalog's own; no catalog reads it, so its contents are forgotten when
the save ends.

`BasicCatalog`, `CachedCatalog`, `PagedCachedCatalog`: one action per member
function. In the cached classes a read is one of several actions, one per path:
hit, load into free room, load with eviction, and the undefined path. `fault`
records that undefined behaviour ran. The only such statement that turns out to
be reachable reads the front of a vector that never held an element; the model
stops there until a new process starts. `cacheSize` is chosen by each process
among `CacheSizes`. `MaxStale` bounds `_order` of `CachedCatalog`, which grows
without limit when a client removes and adds titles forever.

`CachedUsage` and `PagedUsage` add history variables: which of two titles was read
last (`older`, a set of pairs), which lets the LRU policy be stated without the code's own
record of it, and whether the client has made one of the calls after which the
headers' promises no longer hold (`tidy`, `current`, see below). Their properties
are conditions on that client, not restrictions of the model: every passing run
takes the forbidden calls, too.

`CachedUsage` ties what is served to the call: the answer to a read of a title
may change only in `AddMovie` or `SetSynopsis` of that title, to the text given,
in its `RemoveMovie`, in the `Load` of its row or in a `Restart` (`AnswerGiven`).
`PagedUsage` knows two texts of a movie: what its provider returns (`BaseText`,
from the first row of its title) and, where the file has two rows of the title,
what `load_page` takes instead, the last; together they are `OwnText`. Of the text
of a page, `PageText`, no property speaks.

`LruCache` and `SynopsisStore` are abstract specifications: what an LRU cache is,
and what a catalog promises a client that sets no synopsis, one fixed text per
movie; reads, reloads and saves have to be invisible in it.

**The file under a catalog**

`CsvFile` takes `set_synopsis()` of the CSV provider apart: open both files, one
step per line copied, `remove()`, `rename()`. A file is a sequence of lines, the
header first; headers may lack the columns, rows may end before the synopsis,
opening, reading, writing, removing and renaming may fail, and the program may die
between any two steps.

Reads and writes fail between two lines or within one. A row is written by several
`<<` and a flush, so that a full disk leaves nothing, a part or all of it, and what
follows is dropped, as the stream is bad from then on (`outBad`); a read that fails
ends the loop of `csv::read` as the end of the file does (`inBad`), and what was
read of the line is handed over as a last row. In both cases what there is of the
line is any row, shorter than its columns too, and of a header one with or
without the columns (`RestOf`). The copy then replaces the file all the same, and
a later read of a row that was cut may go beyond its end (`fault`).

`SynopsisTable` is its specification: an edit at once, or not at all, but of a copy
that was damaged, in which rows are missing at the end and the last that is left
is any row.

**The index**

`Indexer` and `MediaManager`: the index maps a unique term, the slug of a title,
to a document; what is committed is kept apart from what searches see.
`MediaManager` instantiates the three catalog classes, chooses one for each
process, and adds the order of the calls, `reindex_all()` and `flush()` one movie
at a time (each reads a synopsis through the cache and may evict another), and
crashes between any two steps, in an edit of the file too. History variables say
of which titles the document is not known to have the text (`unsynced`) and whether
a flush was cut short since the last `reindex_all()` (`torn`); each has a twin for
what is on disk. A `save()` that cannot open its file has changed nothing.

**Lists, images, slugs**

`MovieOrder` and `MovieLists`: the comparators and selections, and a client that
obtains lists (all, a slice, the next page), sorts and selects. Movies live at
places in memory that `remove()` frees and `add()` uses again; a list holds
references. `int` and `size_t` have a width and wrap.

`Covers`: `create_covers()` in its steps. An image is its dimensions.

`Slug`: both loops byte by byte, on titles in UTF-8. It gives the slugs that
`MediaManager` takes as a function with a collision.

**The server**

`Router` and its specification `RouteTable`: the answer to each request is given
once, by the first route that fits. A regular expression is the set of urls it
matches.

`HttpServer`: the client's thread (`start`, `stop`, destructor) and the polling
thread (a callback in its steps: make a response, queue it, give it up). The
daemon is external and modelled from the calls: `MHD_stop_daemon` returns when the
thread has ended; a queued response has a reference of its own.

What the client does is a parameter of the models: the titles it adds, removes
and edits, the files it saves to, whether it dies.

## The runs

| Run | Instance | What it shows |
|---|---|---|
| `basic_catalog` | 3 titles, 2 texts, every file of up to 2 rows, both targets, crashes | constructor and `save` are inverse on files with one row per title (`SaveRoundTrip`, `LoadRoundTrip`); what a crash in a save leaves (`SavingLeavesPrefix`); only the client changes what is served |
| `cached_catalog` | 3 titles, sizes 0 to 2, both targets, crashes | vector, map, order and file agree (`RecordsAgree`); no undefined behaviour but in a cache of size 0 (`FaultOnlyWhenZero`); no lost row or edit (`SavedTitles`, `SetReachesBase`, `AddedSynopsisIsServed`); eviction of the least recently read within the capacity (`WithinCapacity`, `EvictsLeastRecent`: `LruCache` is implemented); no read, eviction or save changes an answer (`OnlyTheClientChanges`), and copies are exact (`CopyIsExact`) |
| `cached_save_in_place` | a file with a text for each movie | **found**: saving over the catalog's own file writes the empty text for every synopsis that is not cached |
| `paged_catalog` | 3 titles on pages of 2, sizes 0 to 2, both targets, crashes | the same of the cache of pages, whose movies shift between pages: `RecordsAgree`, `FaultOnlyWhenZero`, `WithinCapacity`; a copy has the text of each movie's own provider, or of the last of two rows (`CopyIsExact`); `SynopsisStore` is implemented (`ServesStore`) |
| `media_manager` | 3 titles, 2 of one slug, each of the three catalogs, crashes anywhere | types of all three catalogs and of the index (`TypeOK`); no search throws (`SearchFindsMovies`), every movie has its document with its text (`IndexMatchesCatalog`), the halves on disk name the same movies (`DiskHalvesAgree`) |
| `media_torn_search` | the same | **found**: a crash inside `flush()` leaves documents without movies, on which `search()` throws |
| `csv_file` | 6 files of up to 3 rows, malformed ones too, every failure | `EditsTable`: `SynopsisTable` is implemented; `ReturnMeansWritten`; `CallsEnd` |
| `http_server` | 3 connections, 2 lost descriptors, a second `start()` | handle and thread (`StartedMeansRunning`), object and callback (`CallBackOnLiveServer`), references (`ResponsesBalanced`), descriptors (`DescriptorsAccounted`); every request ends (`RequestsEnd`), `stop()` returns (`StopReturns`) |
| `movie_lists` | 3 movies in 3 places, `int` of 3 bits, `size_t` of 3, pages of 2 | references hold (`ListsHold`), sorting has one result (`SortedStrictly`), pages show every movie once (`PagesShowAll`), slices and intervals are exact (`SlicesReturn`, `SelectsInterval`) |
| `covers` | 3 names, 2 failures | images and empty files left behind (`CallsAccounted`), covers that have their images (`CoversHaveImages`) |
| `router` | 2 methods, 2 urls, 2 patterns, 3 routes | `RouteTable` is implemented (`ImplementsTable`) |
| `slug` | titles of up to 3 out of 10 characters of 1, 2 and 3 bytes | each character is replaced by itself, only letters, digits and underscores are left (`SlugOfTitle`) |

An invariant that has others as its parts (`RecordsAgree`, `ListsHold`,
`CallsAccounted`, `SlugOfTitle`) is what the records of one component have to agree
on, its types included. The types of `BasicCatalog` are checked in `media_manager`,
those of `CsvFile`, `HttpServer` and `Router` are proved.

Every passing run explores its instance completely. `slug` disables the deadlock
check, because a slug that was returned ends the run; no other one does.

**The bounds.** A cache of two and three titles is the smallest instance in which
a hit, a load with room, an eviction, an eviction of a stale title, and an eviction
of the title that is read next all occur; sizes 0 and 1 beside it take the
undefined path and evict at every load. Three movies on pages of two give a full
page, a partial last one, movies that shift, and a stale page. What the client may
do with a title is split among the titles (one comes and goes, one only goes, one
only comes), and only one is edited: each kind of title is there, next to the
others. A file with a title twice is among the initial ones of the passing runs of
each catalog and of `csv_file`, where a line that was cut may become every row, at
every place of the file. Two titles of
one slug and one of another are enough for every way a document can be taken from
its movie. Three connections are one callback beside a queued and a new request.
`int` of three bits has the least and greatest value, and an interval beyond each.
Three characters of up to three bytes have every border a pair of bytes can
straddle, at the start, in the middle and at the end. The bounds named in the
guards are `MaxStale`, `MaxLeaked`, `MaxFailures`, `MaxRoutes` and `StartsTwice`.

**Fairness** is assumed in two runs, for code that is running, never for clients
or crashes:

- `csv_file`: weak fairness of the steps of `set_synopsis()`, a sequential function.
- `http_server`: weak fairness of the steps of a callback, which runs on its
  thread; strong fairness of the callback of each connection, and of the end of
  the thread once `stop()` was called. Both are enabled only between callbacks, so
  weak fairness would not do; the polling thread looks at every ready connection,
  and at the shutdown flag, in each of its rounds. There is none for the reader of
  a response: the daemon is started without a connection timeout
  (`http_server.cpp:25-27`), and a response may never be sent.

## Where the code and its headers disagree

Two disagreements are runs of their own (`cached_save_in_place` against
`catalog.h:102`, `media_torn_search` against `media_manager.h:123`). The others are
in the models, too, and the properties name the condition under which what the
header says does hold; none of these properties says anything of the case it sets
aside, and removing the condition makes TLC show it.

- `CachedCatalog::remove()` leaves the title in `_order` (`catalog.cpp:321-324`). The
  next eviction takes that title instead of a cached one and the cache outgrows its
  size (`catalog.h:253`). Condition: `tidy`, no movie was removed whose synopsis was
  cached.
- `set_synopsis()` of a cached synopsis is not seen by the next read
  (`catalog.cpp:36-38`, `catalog.h:54`). Condition: `current`.
- A movie removed from a `PagedCachedCatalog` and added again is served the synopsis
  of the row, or page, left behind (`catalog.cpp:476-482`, `catalog.h:284`).
  Condition: `current`.
- Of two rows with one title a page has the last, and the provider underneath, to
  which the cache is said to delegate (`catalog.h:24-25`), reads the first
  (`catalog.cpp:476-482`, `utils.cpp:128-132`). Condition: `OneRow`, in `OwnText`.
- `reindex()`, to be called "whenever you edit a movie" (`media_manager.h:113`), reads
  the text through the cache and indexes the one before the edit
  (`media_manager.cpp:72-75`); `reindex_all()` likewise. Condition: `unsynced`.
- `flush()` over a file whose texts are not cached loses them, as in
  `cached_save_in_place`. Condition: `unsynced`.
- A title that is added twice leaves the document of the movie that was refused
  (`media_manager.cpp:60-64`). Condition: `unsynced`.
- `edit_field` swallows the missing column that `utils.h:132` announces, and
  `set_synopsis()` replaces the file by the empty copy (`utils.cpp:180`,
  `movie.cpp:158-164`). A read of the original or a write to the copy that fails is
  not thrown either, as `movie.h:109-110` says; the file is cut at that line.
  Condition: `CopyDamaged`.
- A row that ends before the synopsis is accessed beyond its end
  (`catalog.cpp:120`, `utils.cpp:131`, `170`): `fault`. `CallsEnd` names it.
- `movies_slice()` with a count near the greatest `size_t` throws
  (`catalog.cpp:219-221`), and `val - delta` wraps (`sort.cpp:105`, `136`; `sort.h:91`).
  Conditions: the end of the slice, and both ends of the interval, are representable.
- A second `start()` loses the handle of the running daemon, which neither `stop()`
  nor the destructor then ends (`http_server.cpp:23-43`). Condition: `startedTwice`.
- `make_file_response()` leaves its descriptor open on two paths
  (`http_server.cpp:136-145`): `leaked`.
- `create_covers()` loses two images when an output cannot be opened
  (`img_format.cpp:27-39`): `failures`. A flat image has the height 0, a large one
  overflows, and the image that was not created is drawn upon
  (`img_format.cpp:58-90`): `fault`, of which no property speaks.
- A name that is another one followed by `_square` shares a file with it
  (`img_format.cpp:24-25`); the run has names apart.
- Capitals with an accent become underscores (`utils.cpp:185-208`).

## The proofs

| Module | Proved | Assumptions besides those the modules state |
|---|---|---|
| `MediaManager_proofs` | `TypeOK`, `SearchFindsMovies`, `DiskHalvesAgree`, `IndexMatchesCatalog` | of the last one: `FilesUnique` |
| `CachedCatalog_proofs` | `RecordsAgree` (`TypeOK`, `CachedInOrder`, `CachedInCatalog`, `UniqueTitles`, `LazyRowsPresent`), `FaultOnlyWhenZero`, `SavedTitles`, `SetReachesBase`, `AddedSynopsisIsServed`; with the history, `WithinCapacity`, `Coherent`, `CopyIsExact`, `OnlyTheClientChanges`, and the refinement of `LruCache` (`EvictsLeastRecent`) | none |
| `PagedCachedCatalog_proofs` | `RecordsAgree` (`TypeOK`, `OrderIsPages`, `UniqueTitles`, `LazyRowsPresent`), `FaultOnlyWhenZero`, `WithinCapacity`, `ReadIsOnPage`, `SavedTitles`; with the history, `PagesAreOwn`, `CopyIsExact` and the refinement of `SynopsisStore` (`ServesStore`) | none |
| `BasicCatalog_proofs` | `TypeOK`, `SavingLeavesPrefix`, `SaveRoundTrip`, `LoadRoundTrip`, `OnlyTheClientChanges` | none |
| `CatalogData_proofs` | the lemmas about movies and files that the modules of the catalogs use | none |
| `Utils_proofs` | of `CsvFile`: `TypeOK`, the refinement of `SynopsisTable` (`EditsTable`), `ReturnMeansWritten`; of `Slug`: `SlugOfTitle` | of the last one: `LettersListed` |
| `ListsAndCovers_proofs` | every comparator is a strict total order; `ListsHold`, `SortedStrictly`, `PagesShowAll`, `SlicesReturn`, `SelectsInterval`; of `Covers`: `CallsAccounted`, `CoversHaveImages` | of the last one: `FilesApart` |
| `HttpServer_proofs` | `TypeOK`, `StartedMeansRunning`, `CallBackOnLiveServer`, `ResponsesBalanced`, `DescriptorsAccounted`; of `Router`: `RouterTypeOK` and the refinement of `RouteTable` (`ImplementsTable`) | none |

They hold for every set of titles, texts, terms, connections, routes, names and
places, every file, client, capacity and page size that meets the named
assumptions of the modules, which are those the types of the code give: `FromCsv`
is not a text, `NoDoc` not a document, cache sizes are natural numbers, a page has
at least one movie, as many movies as there are places can be counted in a
`size_t`. Three hypotheses say more:

- `FilesUnique`: a manager with the cache of pages starts from files with one row
  per title. Of two rows `load_page` takes the last (`catalog.cpp:476-482`), and what
  the constructor keeps, which `get_field` reads, is the first; the texts indexed
  then depend on which page is cached. The run's files have one row per title.
- `LettersListed`: the accented letters that titles have are those of the table in
  `slug()`, each with what it is without its accent. `MCSlug` has TLC evaluate it.
- `FilesApart`: no two covers share a file, see the disagreement above. The run's
  names are apart.

The arguments:

- *Movies and files* (`DataInv`, in `CatalogData_proofs`). `LazyRowsPresent` is broken
  while the own file is rewritten, and restored at the end because the rows written
  so far are those of the movies before `pos`, in order (`SavePrefix`).
- *`BasicCatalog`* (`IInv` = `DataInv`, `TextsInMemory`, `RowsLoaded`,
  `RowsSaved`): no provider is lazy, so what a save writes is what is served, and the
  rows written, or read, are those of the movies up to `pos`, with their texts.
- *The cache of synopses* (`IInv` = `DataInv`, `CacheInv`, `CachedInCatalog`). None of
  the properties is inductive by itself but `UniqueTitles`. A hit is defined only if
  the order holds the title; `remove()` keeps that by not touching the order, an
  eviction because what it takes from the front of the order it takes from the map.
  `front()` of an empty order then means that nothing is cached.
- *Its history* (`UInv`, on top of `IInv`): up to a removal, the order lists the
  cached titles, each once (`Tidy`), which bounds the cache; up to an edit, each
  cached text is the one behind it (`Coherent`) and the rows of a copy have the
  movies' own texts (`SavedTexts`). An answer is then the text underneath, or no
  text without the movie (`Shown`), and each step but the client's own call of that
  title leaves it alone (`ClientStep`): a read and its eviction touch no text
  underneath, a removal none of another title, and a constructor shows a title when
  it has read its row (`ShownFromCsv`).
- *Least recently used* (`RInv`, on top of `UInv`): the order lists the titles as they
  were last read (`ReadInOrder`), and of two titles at most one was read before the
  other (`Asymmetric`). The only such listing of a set is the queue of `LruCache`.
- *The cache of pages* (`IInv` = `DataInv`, `CacheInv`): the order lists the cached
  pages, each once (`IsListing`), and texts on pages are texts. A stale page is
  erased and inserted again on the way; the listing is why the capacity is kept.
- *Its history* (`UInv`, on top of `IInv`): until an edit or the return of a title,
  what a page has for a movie is what `load_page` would read for it now
  (`PagesCurrent`). It speaks of what pages hold and not of where their movies stand,
  so that it survives a `remove()`, which shifts them. That this is the movie's own
  text and not the page's is a third invariant (`OInv`): until then a movie that was
  added has no row (`AddedHaveNoRow`), so that `load_page` falls back on its provider,
  and one that was read has a row, which is what its provider reads if it is the
  only one (`PageTextIsOwn`).
- *The manager* (`StateInv`, `NamesInv`, `TextsInv`, each on top of the one before).
  `StateInv` is the catalog's invariant, of whichever catalog runs, and uses the
  theorems about them through `INSTANCE`. `NamesInv` pairs documents and movies: every
  document names a movie, every movie not in `unsynced` has its document, and the
  same on disk; `reindex_all()` has done so up to `pos`, and a flush has a prefix of
  the movies in the file, while the committed documents are still the old ones.
  `TextsInv` adds the texts. Reindexing reads them through the cache, so a cached copy
  of a movie not in `unsynced` has to be the text underneath, on every page it is on,
  which for pages needs one row per title in the file (`UniqueFile`).
- *The file* (`CInv`): the copy is the beginning of what it should be, and all of it
  up to `pos` unless a read or a write failed; if one did, all of it but its last
  line is. Where the header lacks a column nothing is copied. When the original is
  gone the copy has a header line, and if nothing failed the edit is in it. So the
  content that exists changes at `remove()`, or at a `rename()` over an original that could
  not be removed, at once: to the edited rows, or, of a damaged copy, to the first of
  them and one row that may be any.
- *Slugs* (`SInv`): the first pass is at byte `p` of character `n`, with `p` beyond the
  first only in a character that is no letter of the table, and its result is that of
  the characters before and those bytes. A pair of the table starts with a byte that
  leads two and ends with one that continues, so that it is found neither within a
  character nor across the end of one (`NoneFound`), and a letter is found where it
  starts (`LetterFound`). `FlattenSeq` is reasoned about through the concatenations
  of the first characters (`Join`), by induction over sets of numbers
  (`SetInduction`): the induction theorems of the library cannot be used here.
- *Lists* (`LInv` = `PInv`, `Owned`, `Lists`): the places of the catalog are pairwise
  different and in use, so that it is no longer than there are places and the next
  page does not wrap; a reference whose movie was not removed is at a place of the
  catalog, and no other movie is put there.
- *Covers* (`CoversInv` = `CoversTypeOK`, `ImagesHeld`, `NewFilesCreated`): a call holds the
  images its stage says, besides those that failed calls lost, and the only empty
  files are those the running call has created.
- *The server* (`IInv` = `TypeOK`, `Life`, `Asked`, `Referred`, `ResponsesBalanced`,
  `DescriptorsAccounted`): as long as no `start()` came twice the handle follows the
  thread; a callback runs only while the thread does, and a response exists exactly
  while it is referred to, so that descriptors can be counted by responses.
- *The router*: the first route that fits is unique; appending one changes the
  answer only of requests that had none.

Each invariant was checked with TLC on an instance before it was proved.

Only model-checked: liveness under fairness (`CallsEnd`, `RequestsEnd`,
`StopReturns`), which is out of the prover's reach. No model has a recursive
operator. `CachedSaveInPlace.cfg` and `MediaTornSearch.cfg` show violations.

## Not modelled

- The bytes of the CSV format: quoting, separators and parse errors are libcsv's. The
  rest of a line that was cut is read as at most one row.
- Writes of `save()` that fail, whose output is not tested either: the file under a
  catalog is written whole there. Writes the system takes and loses later, in a power
  failure for instance: the models have crashes of the program.
- The columns other than title and synopsis: they are copied between file and
  movie and no control flow depends on them. Sorting and selection have year,
  duration, category and director.
- Queries, stemming and ranking, which are Xapian's, and its automatic commits:
  the model commits only when asked to.
- Pixels and image formats, which are libgd's.
- `Movie`'s, `Cover`'s and the catalog's plain getters and setters.
- A `save()` that cannot open its file, as a step: it throws before anything
  changed. Out of the destructor of `MediaManager` it ends the program, and is a crash.

## Plan

1. The manager over a paged catalog whose file has a title twice: which titles a
   client may still trust, instead of `FilesUnique`.
2. Covers whose names share a file: which images a client may still trust, instead
   of `FilesApart`.

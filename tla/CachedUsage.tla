---------------------------- MODULE CachedUsage ----------------------------
(***************************************************************************)
(* CachedCatalog with three history variables, in which what catalog.h     *)
(* promises can be stated.  "older" is what an LRU cache goes by; the      *)
(* code goes by "order", its own record of it.  Two promises are kept only *)
(* up to a call of the client, and "tidy" and "current" say whether it was *)
(* made since the catalog was built.                                       *)
(***************************************************************************)
EXTENDS CachedCatalog

VARIABLES
  older,     \* two titles, <<u, t>>, when u was not read since t was read last
  tidy,      \* no movie was removed whose synopsis was cached
  current    \* no cached synopsis was set, nor the catalog's own file rewritten

usage == <<older, tidy, current>>
usageVars == <<vars, usage>>

Used(t) ==
  /\ older' = { p \in older : p[1] # t } \cup { <<u, t>> : u \in Titles \ {t} }
  /\ UNCHANGED <<tidy, current>>

UsageInit == Init /\ older = {} /\ tidy = TRUE /\ current = TRUE

UsageNext ==
  \/ \E t \in Titles : GetSynopsis(t) /\ Used(t)
  \/ SaveRow /\ Used(data[pos].title)
  \/ \E t \in Titles :
       /\ RemoveMovie(t)
       /\ tidy' = (tidy /\ cache[t] = NotCached)
       /\ UNCHANGED <<older, current>>
  \/ \E t \in Titles, s \in Synopses :
       /\ SetSynopsis(t, s)
       /\ current' = (current /\ cache[t] = NotCached)
       /\ UNCHANGED <<older, tidy>>
  \/ \E f \in Files :
       /\ Save(f)
       /\ current' = (current /\ f # "own")
       /\ UNCHANGED <<older, tidy>>
  \/ Restart /\ older' = {} /\ tidy' = TRUE /\ current' = TRUE
  \/ /\ \/ Load
        \/ LoadEnd
        \/ \E t \in Titles, s \in Synopses : AddMovie(t, s)
        \/ SaveEnd
     /\ UNCHANGED usage

UsageSpec == UsageInit /\ [][UsageNext]_usageVars

-----------------------------------------------------------------------------
(* Of a client that removes no movie whose synopsis is cached. *)

\* "Maximum number of cached items.", catalog.h:253.
WithinCapacity == tidy => Cardinality(CachedTitles) <= cacheSize

\* The cached titles, least recently read first.
CachedByUse ==
  CHOOSE r \in [1 .. Cardinality(CachedTitles) -> CachedTitles] :
    \A i, j \in DOMAIN r : i < j => <<r[i], r[j]>> \in older

Lru == INSTANCE LruCache WITH
  Keys <- Titles,
  recency <- IF tidy THEN CachedByUse ELSE <<>>,
  capacity <- cacheSize

\* What a read evicts is the synopsis read longest ago, and only when the cache
\* is full (catalog.h:190-193, catalog.cpp:326-357).
EvictsLeastRecent == Lru!LruSpec

-----------------------------------------------------------------------------
(* Of a client that sets no cached synopsis and saves to other files, also   *)
(* with titles left in the order by remove().                                *)

\* A cached text is the text behind it (catalog.cpp:326-357).
Coherent == current => \A t \in CachedTitles : cache[t] = BaseText(t)

\* A save to another file writes each movie's own synopsis although reading
\* one may evict another (catalog.cpp:266, 346-354).
CopyIsExact == [][SaveEnd /\ current => file[target] = WholeCatalog]_usageVars

\* What the client is answered, NotCached without the movie.
Answer(t) == IF Exists(t) THEN Served(t) ELSE NotCached

\* The call that changes the answer, and to what: add() and set_synopsis() of
\* this title to the text they are given, the constructor to that of the row.
AnswerGiven(t) ==
  \/ \E s \in Synopses : (AddMovie(t, s) \/ SetSynopsis(t, s)) /\ Answer(t)' = s
  \/ RemoveMovie(t) /\ Answer(t)' = NotCached
  \/ Load /\ csv[pos].title = t /\ Answer(t)' = GetField(csv, t)
  \/ Restart /\ Answer(t)' = NotCached

\* The promise of catalog.h: only the client changes what is served, and of no
\* other title than that of its call.  Reads, hits and evictions, the rows and
\* the end of a save change no answer (catalog.cpp:277-362).
OnlyTheClientChanges ==
  [][current' => \A t \in Titles : Answer(t)' # Answer(t) => AnswerGiven(t)]_usageVars

=============================================================================

----------------------------- MODULE PagedUsage -----------------------------
(***************************************************************************)
(* PagedCachedCatalog with a history variable, "current": since the        *)
(* catalog was built the client set no synopsis, did not save over the     *)
(* catalog's own file and added no title that the file or a cached page    *)
(* has.  The pages serve what the movies have as long as it is true.       *)
(***************************************************************************)
EXTENDS PagedCachedCatalog

VARIABLE current

usageVars == <<vars, current>>

\* A text for the title can be found without its movie.
LeftBehind(t) ==
  FirstHits(csv, t) # {} \/ \E p \in CachedPages : t \in DOMAIN cache[p]

UsageInit == Init /\ current = TRUE

UsageNext ==
  \/ \E t \in Titles, s \in Synopses :
       /\ AddMovie(t, s)
       /\ current' = (current /\ (Exists(t) \/ ~ LeftBehind(t)))
  \/ \E t \in Titles, s \in Synopses : SetSynopsis(t, s) /\ current' = FALSE
  \/ \E f \in Files : Save(f) /\ current' = (current /\ f # "own")
  \/ Restart /\ current' = TRUE
  \/ /\ \/ Load
        \/ LoadEnd
        \/ \E t \in Titles : RemoveMovie(t) \/ GetSynopsis(t)
        \/ SaveRow
        \/ SaveEnd
     /\ UNCHANGED current

UsageSpec == UsageInit /\ [][UsageNext]_usageVars

-----------------------------------------------------------------------------
\* The file has at most one row with the title.
OneRow(t) == \A i, j \in DOMAIN csv : csv[i].title = t /\ csv[j].title = t => i = j

\* What the movie's own provider returns; but of a title with two rows, of which
\* it returns the first, the last one.
OwnText(t) == IF OneRow(t) THEN BaseText(t) ELSE ParsedField(csv, t)

\* A save to another file writes each movie's own synopsis although it is taken
\* from a page, found by position and read by title, and reading one page may
\* evict another (catalog.cpp:266, 466-497).
CopyIsExact ==
  [][SaveEnd /\ current => \A i \in DOMAIN data :
       file[target][i] = [title |-> data[i].title,
                          synopsis |-> OwnText(data[i].title)]]_usageVars

Store == INSTANCE SynopsisStore WITH
  Absent <- FromCsv,
  store <- [t \in Titles |-> IF current /\ Exists(t) THEN Served(t) ELSE FromCsv]

\* The promise of catalog.h: only the client changes what is served, although
\* removing shifts movies between pages, the last page grows under its cached
\* copy and stale pages stay behind.
ServesStore == Store!StoreSpec

=============================================================================

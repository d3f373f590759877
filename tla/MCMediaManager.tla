--------------------------- MODULE MCMediaManager ---------------------------
(* The media manager on three titles, two of them with one slug, over a catalog
   of each class; the caches hold one synopsis or one page of two. *)
EXTENDS MediaManager

CONSTANTS a, b, c, none, some, p, q

MCTitles == {a, b, c}
MCSynopses == {none, some}
MCSlugs == {p, q}
MCSlug == [t \in MCTitles |-> IF t = a THEN q ELSE p]

\* A new index beside a file without rows, or beside one with two movies.
MCInitialCsv == { <<>>, << [title |-> b, synopsis |-> none],
                           [title |-> c, synopsis |-> none] >> }

AllConfigs == {"NO_CACHE", "INDIVIDUAL_CACHE", "PAGED_CACHE"}
OneCached == {1}

\* The bound on this client: only a is added and edited, and has a text to lose
\* once it is in the file; c stays.
AddedTitles == {a}
EditedTitles == {a}
RemovedTitles == {a, b}
OwnFile == {"own"}

=============================================================================

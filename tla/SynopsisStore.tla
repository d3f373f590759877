--------------------------- MODULE SynopsisStore ---------------------------
(***************************************************************************)
(* What a catalog promises a client that sets no synopsis, whatever it     *)
(* caches: every movie has one, fixed when the movie is added.  Reading,   *)
(* saving and eviction are invisible: in a catalog that implements this    *)
(* module they must be stuttering steps.  This is the contract of          *)
(* include/core/catalog.h, not a translation of one class.                 *)
(***************************************************************************)
CONSTANTS
  Titles,
  Synopses,
  Absent      \* not a synopsis: the movie is not in the catalog

VARIABLE store    \* the synopsis of each movie, Absent without the movie

StoreInit == store = [t \in Titles |-> Absent]

\* A title already present is not added again: no step.
StoreAdd(t, s) ==
  /\ store[t] = Absent
  /\ store' = [store EXCEPT ![t] = s]

StoreRemove(t) == store' = [store EXCEPT ![t] = Absent]

\* The catalog object is destroyed and another one built in its place.
StoreReset == store' = [t \in Titles |-> Absent]

StoreNext ==
  \/ \E t \in Titles, s \in Synopses : StoreAdd(t, s)
  \/ \E t \in Titles : StoreRemove(t)
  \/ StoreReset

StoreSpec == StoreInit /\ [][StoreNext]_store

=============================================================================

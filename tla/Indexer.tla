------------------------------ MODULE Indexer ------------------------------
(***************************************************************************)
(* The search index (src/core/search.cpp), one Xapian document per unique  *)
(* term "Q" + slug(title).  A change is seen at once by searches on the    *)
(* open database and is on disk after a commit.  Of a document, "title" is *)
(* its data (what a search returns) and "text" all its indexed fields,     *)
(* which the media manager reads from the movie when it indexes it.        *)
(***************************************************************************)
EXTENDS CsvTable

CONSTANTS
  Slugs,     \* the unique terms
  Slug,      \* slug(): two titles may have one slug ("Germinal", "germinal")
  NoDoc      \* no document has the term

Document == [title : Titles, text : Synopses]

ASSUME SlugAssumption == Slug \in [Titles -> Slugs]
ASSUME NoDocAssumption == NoDoc \notin Document

VARIABLES
  index,    \* the database as searches see it: term -> document
  stored    \* the database as the last commit left it

indexVars == <<index, stored>>

IndexTypeOK ==
  /\ index \in [Slugs -> Document \cup {NoDoc}]
  /\ stored \in [Slugs -> Document \cup {NoDoc}]

IndexInit ==
  /\ index = [k \in Slugs |-> NoDoc]
  /\ stored = [k \in Slugs |-> NoDoc]

Doc(t, text) == [title |-> t, text |-> text]

\* add: replace_document adds the document, or replaces the one of its term.
IndexAdd(t, text) ==
  /\ index' = [index EXCEPT ![Slug[t]] = Doc(t, text)]
  /\ UNCHANGED stored

\* remove: delete_document of the term; without a document nothing happens.
IndexRemove(t) ==
  /\ index' = [index EXCEPT ![Slug[t]] = NoDoc]
  /\ UNCHANGED stored

\* Mutant: added, then removed.
IndexEditSwapped(old, t, text) ==
  /\ index' = [index EXCEPT ![Slug[t]] = Doc(t, text), ![Slug[old]] = NoDoc]
  /\ UNCHANGED stored

\* edit: remove the document of the old title, add the movie.
IndexEdit(old, t, text) ==
  /\ index' = [index EXCEPT ![Slug[old]] = NoDoc, ![Slug[t]] = Doc(t, text)]
  /\ UNCHANGED stored

\* Mutant: the last document stays (did < maxid).
IndexClearAllButOne ==
  /\ \E k \in Slugs : index' = [l \in Slugs |-> IF l = k THEN index[k] ELSE NoDoc]
  /\ UNCHANGED stored

\* clear: delete_document of every document number, those not in use skipped.
IndexClear ==
  /\ index' = [k \in Slugs |-> NoDoc]
  /\ UNCHANGED stored

\* flush, and the destructor: commit.
IndexCommit ==
  /\ stored' = index
  /\ UNCHANGED index

\* The database is opened again after the program died without a commit.
IndexReopen ==
  /\ index' = stored
  /\ UNCHANGED stored

=============================================================================

------------------------------ MODULE CsvFile ------------------------------
(***************************************************************************)
(* The CSV file under CSVFileSynopsisProvider (src/core/movie.cpp:128-165, *)
(* src/core/utils.cpp:101-181) with what CsvTable leaves out: lines that   *)
(* are not well formed, a set_synopsis() of several steps, failures of the *)
(* file system, and a program that dies between any two of the steps.      *)
(*                                                                         *)
(* A file is the sequence of its lines, the header first.  set_synopsis()  *)
(* copies the lines to a temporary file, each flushed by endl, removes the *)
(* original and renames the copy.  The standard streams report no error by *)
(* themselves.  "outBad" is the badbit of the output stream, set by a      *)
(* write that fails and never cleared, after which nothing is written.     *)
(* "inBad" is that of the input stream, which ends the reading loop as the *)
(* end of the file does.  Neither need happen between two lines: RestOf    *)
(* says what can be found of the line on which it does.                    *)
(***************************************************************************)
EXTENDS CsvTable, SequencesExt

CONSTANTS
  NoFile,        \* no file of that name
  Header,        \* a header line with all the columns
  BadHeader,     \* a header line without the title or the synopsis column
  NoField,       \* a field of a row that ends before its column
  InitialFiles,  \* the contents the file may start with
  OpenErrors,    \* whether the temporary file may fail to open,
  ReadErrors,    \*   a read of the file to fail,
  WriteErrors,   \*   a write to the copy to fail,
  ReplaceErrors  \*   remove() or rename() to fail

AnyRow == [title : Titles \cup {NoField}, synopsis : Synopses \cup {NoField}]

Line == AnyRow \cup {Header, BadHeader}

ASSUME LineAssumption ==
  /\ NoField \notin Titles \cup Synopses
  /\ {Header, BadHeader} \cap AnyRow = {}
  /\ Header # BadHeader
  /\ NoFile \notin Seq(Line)
ASSUME InitialFilesAssumption ==
  \A f \in InitialFiles :
    /\ f \in Seq(Line)
    /\ \A i \in DOMAIN f : (i = 1) <=> (f[i] \in {Header, BadHeader})
ASSUME ErrorsAssumption ==
  /\ OpenErrors \in BOOLEAN
  /\ ReadErrors \in BOOLEAN
  /\ WriteErrors \in BOOLEAN
  /\ ReplaceErrors \in BOOLEAN

VARIABLES
  disk,      \* the file and its temporary copy
  stage,     \* where set_synopsis() stands
  edit,      \* its title and its new text
  pos,       \* the next line to copy
  inBad,     \* a read of the file failed
  outBad,    \* a write to the copy failed
  result,    \* how the last call ended: "ok", "threw"; "none" while one runs
  fault      \* a row was accessed beyond its last field

vars == <<disk, stage, edit, pos, inBad, outBad, result, fault>>

Stages == {"idle", "copying", "copied", "removed"}

TypeOK ==
  /\ disk \in [{"csv", "tmp"} -> Seq(Line) \cup {NoFile}]
  /\ stage \in Stages
  /\ edit \in Row
  /\ pos \in Nat \ {0}
  /\ inBad \in BOOLEAN
  /\ outBad \in BOOLEAN
  /\ result \in {"none", "ok", "threw"}
  /\ fault \in BOOLEAN

Init ==
  /\ \E f \in InitialFiles : disk = [n \in {"csv", "tmp"} |->
                                       IF n = "csv" THEN f ELSE NoFile]
  /\ stage = "idle"
  /\ edit \in Row
  /\ pos = 1
  /\ inBad = FALSE
  /\ outBad = FALSE
  /\ result = "none"
  /\ fault = FALSE

Ready == stage = "idle" /\ ~ fault

\* A file without a header line is empty, a file without rows.
Rows(f) == IF f = <<>> THEN <<>> ELSE Tail(f)

Missing == disk["csv"] = NoFile

Returns(r) == result' = r /\ UNCHANGED <<disk, stage, edit, pos, inBad, outBad, fault>>

-----------------------------------------------------------------------------
\* What can be found of a line when reading or writing fails on the way.  A row
\* is several writes and a flush: fields may be cut or missing, or, when close()
\* writes again what the failed flush left in the buffer, several in one.
RestOf(line) ==
  CASE line = BadHeader -> {BadHeader}
    [] line = Header    -> {Header, BadHeader}
    [] OTHER            -> AnyRow

\* csv::read: the file as a reader gets it.  A read that fails ends the loop, and
\* what was read of the line is handed over as a last row.
FilesRead(f) ==
  {f} \cup UNION { { SubSeq(f, 1, n - 1) }
                   \cup { Append(SubSeq(f, 1, n - 1), l) : l \in RestOf(f[n]) } :
                   n \in IF ReadErrors THEN DOMAIN f ELSE {} }

HeaderMissing(f) == f # <<>> /\ f[1] = BadHeader

\* No file, or a header line without the columns.
Unreadable == Missing \/ HeaderMissing(disk["csv"])

\* Scanning the rows of f at "seen", and taking the synopsis of those at "hits".
Reads(f, seen, hits) ==
  /\ ~ HeaderMissing(f)
  /\ fault' = \/ \E i \in seen : Rows(f)[i].title = NoField
              \/ \E i \in hits : Rows(f)[i].synopsis = NoField
  /\ result' = "ok"
  /\ UNCHANGED <<disk, stage, edit, pos, inBad, outBad>>

\* get_synopsis: an empty file or a title without row reads as the empty text.
GetSynopsis(t) ==
  /\ Ready
  /\ \/ Missing /\ Returns("threw")
     \/ /\ ~ Missing
        /\ \E f \in FilesRead(disk["csv"]) :
             LET hits == FirstHits(Rows(f), t) IN
             \/ HeaderMissing(f) /\ Returns("threw")
             \/ Reads(f, { i \in DOMAIN Rows(f) : \A j \in hits : i <= j }, hits)

\* parse_csv, in the constructor of a catalog, reads every row.
Construct ==
  /\ Ready
  /\ \/ Missing /\ Returns("threw")
     \/ /\ ~ Missing
        /\ \E f \in FilesRead(disk["csv"]) :
             \/ HeaderMissing(f) /\ Returns("threw")
             \/ Reads(f, DOMAIN Rows(f), DOMAIN Rows(f))

-----------------------------------------------------------------------------
\* set_synopsis, 1 and 2: opening the copy truncates it, once the file is open.
OpenCopy(t, s) ==
  /\ Ready
  /\ ~ Missing
  /\ disk' = [disk EXCEPT !["tmp"] = <<>>]
  /\ stage' = "copying"
  /\ edit' = [title |-> t, synopsis |-> s]
  /\ pos' = 1
  /\ inBad' = FALSE
  /\ outBad' = FALSE
  /\ result' = "none"
  /\ UNCHANGED fault

\* Mutant: the copy is opened, and truncated, before the file.
OpenThrowsLate ==
  /\ Ready
  /\ Missing
  /\ disk' = [disk EXCEPT !["tmp"] = <<>>]
  /\ result' = "threw"
  /\ UNCHANGED <<stage, edit, pos, inBad, outBad, fault>>

\* set_synopsis, 1 and 2: one of the two files cannot be opened.
OpenThrows ==
  /\ Ready
  /\ Missing \/ OpenErrors
  /\ Returns("threw")

\* The loop goes on while the stream is good and not at its end.
Copying ==
  /\ stage = "copying" /\ ~ fault
  /\ ~ inBad
  /\ pos <= Len(disk["csv"])

\* csv::read hands over the line at pos, or the rest of it: then it is the last.
Hands(l) ==
  /\ \/ l = disk["csv"][pos] /\ UNCHANGED inBad
     \/ ReadErrors /\ l \in RestOf(disk["csv"][pos]) /\ inBad' = TRUE
  /\ stage' = IF inBad' THEN "copied" ELSE "copying"

\* write_row.  A write that fails leaves nothing or a rest of the line, and what
\* follows is dropped once the stream is bad.
WriteLine(line) ==
  \/ outBad /\ UNCHANGED <<disk, outBad>>
  \/ ~ outBad /\ disk' = [disk EXCEPT !["tmp"] = Append(@, line)] /\ UNCHANGED outBad
  \/ /\ ~ outBad /\ WriteErrors
     /\ \/ UNCHANGED disk
        \/ \E l \in RestOf(line) : disk' = [disk EXCEPT !["tmp"] = Append(@, l)]
     /\ outBad' = TRUE

\* Mutant: the last row of the title.
IsEditedLast(l) ==
  pos > 1 /\ l.title = edit.title /\ pos - 1 \in LastHits(Rows(disk["csv"]), edit.title)

\* The line is a row of the title, and none before it was ("updated").
IsEdited(l) ==
  /\ pos > 1
  /\ l.title = edit.title
  /\ \A i \in 2 .. pos - 1 : disk["csv"][i].title # edit.title

\* edit_field compares the title of every row, and writes the synopsis of one.
EndsEarly(l) ==
  /\ pos > 1
  /\ l.title = NoField \/ (IsEdited(l) /\ l.synopsis = NoField)

\* edit_field, the header and the rows it copies as they are.
CopyLine ==
  /\ Copying
  /\ \E l \in Line :
       /\ Hands(l)
       /\ l # BadHeader /\ ~ EndsEarly(l) /\ ~ IsEdited(l)
       /\ WriteLine(l)
  /\ pos' = pos + 1
  /\ UNCHANGED <<edit, result, fault>>

\* edit_field, the row it edits.
CopyEdited ==
  /\ Copying
  /\ \E l \in Line :
       /\ Hands(l)
       /\ ~ EndsEarly(l) /\ IsEdited(l)
  /\ WriteLine(edit)
  /\ pos' = pos + 1
  /\ UNCHANGED <<edit, result, fault>>

\* edit_field, a row without a field it needs: accessed beyond its end.
CopyShort ==
  /\ Copying
  /\ \E l \in Line : Hands(l) /\ EndsEarly(l)
  /\ fault' = TRUE
  /\ UNCHANGED <<disk, edit, pos, outBad, result>>

\* edit_field, a column is missing: the exception is caught and dropped, and
\* nothing was written yet.
CopyBadHeader ==
  /\ Copying
  /\ \/ disk["csv"][pos] = BadHeader /\ UNCHANGED inBad
     \/ ReadErrors /\ BadHeader \in RestOf(disk["csv"][pos]) /\ inBad' = TRUE
  /\ stage' = "copied"
  /\ UNCHANGED <<disk, edit, pos, outBad, result, fault>>

\* Mutant: the loop goes on until the end of the file.
ReadFailsAgain ==
  /\ Copying
  /\ ReadErrors
  /\ inBad' = TRUE
  /\ UNCHANGED <<disk, stage, edit, pos, outBad, result, fault>>

\* csv::read, reading fails where nothing of a line is left to hand over.
ReadFails ==
  /\ Copying
  /\ ReadErrors
  /\ stage' = "copied"
  /\ inBad' = TRUE
  /\ UNCHANGED <<disk, edit, pos, outBad, result, fault>>

CopyDone ==
  /\ stage = "copying" /\ ~ fault
  /\ pos > Len(disk["csv"])
  /\ stage' = "copied"
  /\ UNCHANGED <<disk, edit, pos, inBad, outBad, result, fault>>

\* set_synopsis, 5: r1 = remove().
RemoveOriginal ==
  /\ stage = "copied"
  /\ \/ disk' = [disk EXCEPT !["csv"] = NoFile]
     \/ ReplaceErrors /\ UNCHANGED disk
  /\ stage' = "removed"
  /\ UNCHANGED <<edit, pos, inBad, outBad, result, fault>>

\* set_synopsis, 5: r2 = rename(), called whatever r1 is, and which replaces an
\* original that could not be removed.
RenameCopy ==
  /\ stage = "removed"
  /\ \/ /\ disk' = [csv |-> disk["tmp"], tmp |-> NoFile]
        /\ result' = IF Missing THEN "ok" ELSE "threw"
     \/ /\ ReplaceErrors
        /\ UNCHANGED disk
        /\ result' = "threw"
  /\ stage' = "idle"
  /\ UNCHANGED <<edit, pos, inBad, outBad, fault>>

SetSynopsisStep ==
  CopyLine \/ CopyEdited \/ CopyShort \/ CopyBadHeader \/ ReadFails \/ CopyDone
    \/ RemoveOriginal \/ RenameCopy

\* The program dies, after undefined behaviour at the latest, and another one
\* starts: what is on disk stays.
Crash ==
  /\ stage' = "idle"
  /\ pos' = 1
  /\ inBad' = FALSE
  /\ outBad' = FALSE
  /\ result' = "none"
  /\ fault' = FALSE
  /\ UNCHANGED <<disk, edit>>

Next ==
  \/ \E t \in Titles : GetSynopsis(t)
  \/ Construct
  \/ \E t \in Titles, s \in Synopses : OpenCopy(t, s)
  \/ OpenThrows
  \/ SetSynopsisStep
  \/ Crash

Spec == Init /\ [][Next]_vars

\* A call that runs goes on by itself; the client and crashes need not come.
FairSpec == Spec /\ WF_vars(SetSynopsisStep)

-----------------------------------------------------------------------------
\* The content that exists: that of the file, or of the copy without the file.
Content == IF Missing THEN disk["tmp"] ELSE disk["csv"]

\* The copy is not the whole file: a read of the file or a write to the copy
\* failed, or the columns are not found, and edit_field ends without a word.
CopyDamaged == inBad \/ outBad \/ (~ Missing /\ Unreadable)

Table == INSTANCE SynopsisTable WITH table <- Rows(Content), damaged <- CopyDamaged

\* Whatever call dies or throws where, the rows are those before the edit or
\* those after it, in the file or, when the file is gone, in the temporary one,
\* which no later call damages.  Of a damaged copy, which replaces the file too,
\* there are the rows up to some row, and that one may have become any row: no
\* other is changed, and none is lost from the middle (movie.cpp:141-165,
\* utils.cpp:51-93, 149-181).
EditsTable == Table!TableSpec

\* When set_synopsis returns without an exception, and its copy was whole, the
\* title reads as the new text, if it has a row at all
\* (movie.cpp:152-164, utils.cpp:168-174).
ReturnMeansWritten ==
  [][RenameCopy /\ result' = "ok" /\ ~ CopyDamaged =>
       LET rows == Rows(disk'["csv"]) IN
       FirstHits(rows, edit.title) # {} =>
         GetField(rows, edit.title) = edit.synopsis]_vars

\* Every call of set_synopsis ends, or undefined behaviour ends the program,
\* whatever the file holds (utils.cpp:51-70, 149-180).
CallsEnd == stage # "idle" ~> (stage = "idle" \/ fault)

=============================================================================

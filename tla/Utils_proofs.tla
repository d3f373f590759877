---------------------------- MODULE Utils_proofs ----------------------------
(***************************************************************************)
(* The two algorithms of src/core/utils.cpp, for files and titles of any   *)
(* length.                                                                 *)
(*                                                                         *)
(* On files of any number of rows, well formed or not, set_synopsis()      *)
(* edits the table at once or not at all, whichever of its calls fail and  *)
(* whenever the program dies; of a copy that a failing read or write has   *)
(* damaged, the first rows are left and a last one that may have become    *)
(* any row.  The invariant says how far the copy has come.  What makes it  *)
(* inductive is that the copy is, line by line, the beginning of what it   *)
(* should be: all of it if nothing failed and the columns are there, and   *)
(* in the other case up to a last line that may be a rest of the right one.*)
(* And without the original no call opens, and truncates, the copy.        *)
(*                                                                         *)
(* slug() makes the slug of a title character by character, although both  *)
(* of its passes are over bytes.  The invariant says at which byte of      *)
(* which character the first pass is, and what it has made of those before.*)
(***************************************************************************)
EXTENDS CsvFile, Slug, SequenceTheorems, NaturalsInduction, WellFoundedInduction,
        TLAPS

\* The first line of a file is its header, and no other is.
HasHeader(f) ==
  /\ f \in Seq(Line)
  /\ \A i \in DOMAIN f : (i = 1) <=> (f[i] \in {Header, BadHeader})

\* The line that edit_field writes for line i.
NewLine(i) ==
  IF i - 1 \in FirstHits(Rows(disk["csv"]), edit.title) THEN edit ELSE disk["csv"][i]

\* Something failed while the file was copied.
Broken == inBad \/ outBad

\* The copy has the new lines before "end", or the first of them, and, if
\* something failed, perhaps only a rest of the last of these.
CopiedTo(end) ==
  /\ disk["tmp"] \in Seq(Line)
  /\ Len(disk["tmp"]) <= end - 1
  /\ ~ Broken => Len(disk["tmp"]) = end - 1
  /\ \A i \in 1 .. Len(disk["tmp"]) :
       /\ disk["tmp"][i] \in RestOf(NewLine(i))
       /\ ~ Broken \/ i < Len(disk["tmp"]) => disk["tmp"][i] = NewLine(i)

\* Where copying ends: at the header when it lacks a column.
CopyEnd == IF Unreadable THEN 1 ELSE Len(disk["csv"]) + 1

\* A reader of the copy finds the new text, if the title has a row.
EditDone ==
  LET rows == Rows(disk["tmp"]) IN
  FirstHits(rows, edit.title) # {} => GetField(rows, edit.title) = edit.synopsis

\* While lines are copied both files are there.
GInv ==
  /\ TypeOK
  /\ stage = "copying" => disk["csv"] \in Seq(Line) /\ disk["tmp"] \in Seq(Line)

\* And the copy has come as far as the stage says.
CInv ==
  /\ GInv
  /\ ~ Missing => HasHeader(disk["csv"])
  /\ Missing => stage \in {"idle", "removed"} /\ HasHeader(disk["tmp"])
  /\ stage = "copying" =>
       pos <= Len(disk["csv"]) + 1 /\ CopiedTo(pos) /\ (Unreadable => pos = 1)
  /\ stage \in {"copied", "removed"} /\ ~ Missing => CopiedTo(CopyEnd)
  /\ stage = "removed" /\ Missing /\ ~ Broken => EditDone

-----------------------------------------------------------------------------
(* Files and their rows *)

\* The first elements of a sequence, one by one.
LEMMA FirstElements ==
  ASSUME NEW n \in Nat, NEW m \in 0 .. n, NEW e, e = [i \in 1 .. n |-> e[i]]
  PROVE  /\ Len(e) = n
         /\ SubSeq(e, 1, m) = [i \in 1 .. m |-> e[i]]
<1> DEFINE S == {e[i] : i \in 1 .. n}
<1>1. e \in [1 .. n -> S]
  OBVIOUS
<1>2. e \in Seq(S) /\ Len(e) = n
  BY <1>1
<1>. HIDE DEF S
<1>3. m \in Nat /\ m <= Len(e)
  BY <1>2
<1>. QED  BY <1>2, <1>3

\* A line that is no header is a row.
LEMMA LineOrRow ==
  ASSUME NEW l \in Line, l \notin {Header, BadHeader}
  PROVE  l \in AnyRow
BY DEF Line, AnyRow

\* A row is no header.
LEMMA RowIsNoHeader ==
  ASSUME NEW l \in AnyRow
  PROVE  l \in Line /\ l \notin {Header, BadHeader}
BY LineAssumption DEF Line, AnyRow

\* What can be left of a line is a line of the same kind, and has its own rests.
LEMMA RestOfLine ==
  ASSUME NEW l \in Line
  PROVE  /\ l \in RestOf(l) /\ RestOf(l) \subseteq Line
         /\ l \in AnyRow => RestOf(l) = AnyRow
         /\ \A r \in RestOf(l) :
              /\ (r \in {Header, BadHeader}) <=> (l \in {Header, BadHeader})
              /\ r \in AnyRow <=> l \in AnyRow
              /\ RestOf(r) \subseteq RestOf(l)
         /\ l = BadHeader => RestOf(l) = {BadHeader}
<1>1. AnyRow \subseteq Line /\ {Header, BadHeader} \subseteq Line
      /\ Header \notin AnyRow /\ BadHeader \notin AnyRow /\ Header # BadHeader
  BY LineAssumption DEF Line
<1>2. CASE l = BadHeader
  BY <1>1, <1>2 DEF RestOf
<1>3. CASE l = Header
  BY <1>1, <1>3 DEF RestOf
<1>4. CASE l \in AnyRow
  <2>1. \A r \in AnyRow : RestOf(r) = AnyRow
    BY <1>1 DEF RestOf
  <2>. QED  BY <1>1, <1>4, <2>1
<1>. QED  BY <1>2, <1>3, <1>4 DEF Line

\* A file with a header is that and rows.
LEMMA RowsOf ==
  ASSUME NEW f, HasHeader(f)
  PROVE  /\ Len(f) \in Nat /\ DOMAIN f = 1 .. Len(f)
         /\ Rows(f) \in Seq(AnyRow)
         /\ Len(Rows(f)) \in Nat /\ DOMAIN Rows(f) = 1 .. Len(Rows(f))
         /\ \A i \in 1 .. Len(Rows(f)) : Rows(f)[i] \in AnyRow
         /\ Len(Rows(f)) = IF f = <<>> THEN 0 ELSE Len(f) - 1
         /\ \A i \in 1 .. Len(Rows(f)) : Rows(f)[i] = f[i + 1] /\ i + 1 \in 2 .. Len(f)
         /\ \A i \in 2 .. Len(f) : i - 1 \in 1 .. Len(Rows(f)) /\ f[i] = Rows(f)[i - 1]
<1>. USE DEF HasHeader, Rows
<1>1. CASE f = <<>>
  BY <1>1
<1>2. CASE f # <<>>
  <2>1. Len(f) \in Nat \ {0} /\ DOMAIN f = 1 .. Len(f)
    BY <1>2
  <2>2. /\ Tail(f) \in Seq(Line)
        /\ Len(Tail(f)) = Len(f) - 1
        /\ \A i \in 1 .. Len(f) - 1 : Tail(f)[i] = f[i + 1]
    BY <1>2
  <2>3. \A i \in 1 .. Len(f) - 1 : i + 1 \in DOMAIN f /\ i + 1 # 1
    BY <2>1
  <2>4. ASSUME NEW i \in 1 .. Len(f) - 1
        PROVE  Tail(f)[i] \in AnyRow
    <3>1. f[i + 1] \in Line /\ f[i + 1] \notin {Header, BadHeader}
      BY <2>1, <2>3
    <3>. QED  BY <2>2, <3>1, LineOrRow
  <2>5. Tail(f) \in Seq(AnyRow)
    <3> DEFINE r == Tail(f)
    <3>1. r \in Seq(Line) /\ \A i \in 1 .. Len(r) : r[i] \in AnyRow
      BY <2>2, <2>4
    <3>. HIDE DEF r
    <3>2. r = [i \in 1 .. Len(r) |-> r[i]] /\ Len(r) \in Nat
      BY <3>1
    <3>3. r \in [1 .. Len(r) -> AnyRow]
      BY <3>1, <3>2
    <3>4. r \in Seq(AnyRow)
      BY <3>2, <3>3
    <3>. QED  BY <3>4 DEF r
  <2>6. \A i \in 2 .. Len(f) : i - 1 \in 1 .. Len(f) - 1 /\ f[i] = Tail(f)[i - 1]
    BY <2>1, <2>2
  <2>. QED  BY <1>2, <2>1, <2>2, <2>3, <2>4, <2>5, <2>6
<1>. QED  BY <1>1, <1>2

\* A scan compares titles only: in the first rows of a table it stops where it
\* does in the table, or not at all.
LEMMA SameTitlesSameHits ==
  ASSUME NEW r \in Seq(AnyRow), NEW s \in Seq(AnyRow), Len(r) <= Len(s), NEW t,
         \A i \in DOMAIN r : r[i].title = s[i].title
  PROVE  FirstHits(r, t) = FirstHits(s, t) \cap DOMAIN r
<1>1. /\ DOMAIN r = 1 .. Len(r) /\ Len(r) \in Nat
      /\ DOMAIN s = 1 .. Len(s) /\ Len(s) \in Nat
  OBVIOUS
<1>2. DOMAIN r \subseteq DOMAIN s
  BY <1>1
<1>3. \A i \in DOMAIN r : \A j \in 1 .. i - 1 : j \in DOMAIN r
  BY <1>1
<1>. QED  BY <1>2, <1>3 DEF FirstHits

\* The copy has the first of the edited rows, and a last one that may be any.
FirstRows ==
  LET new == Rows(disk["tmp"])
      old == Rows(disk["csv"])
  IN /\ new \in Seq(AnyRow)
     /\ Len(new) <= Len(old)
     /\ \A i \in 1 .. Len(new) - 1 : new[i] = EditField(old, edit.title, edit.synopsis)[i]

LEMMA CopiedRows ==
  ASSUME CInv, ~ Missing, NEW end \in Nat \ {0}, end <= Len(disk["csv"]) + 1,
         CopiedTo(end)
  PROVE  /\ HasHeader(disk["tmp"])
         /\ FirstRows
         /\ ~ Broken =>
              /\ \A i \in 1 .. Len(Rows(disk["tmp"])) :
                   Rows(disk["tmp"])[i]
                     = EditField(Rows(disk["csv"]), edit.title, edit.synopsis)[i]
              /\ EditDone
<1> DEFINE f == disk["csv"]
           g == disk["tmp"]
           hits == FirstHits(Rows(f), edit.title)
           edited == EditField(Rows(f), edit.title, edit.synopsis)
<1>1. HasHeader(f)
  BY DEF CInv
<1>1a. /\ Len(f) \in Nat /\ DOMAIN f = 1 .. Len(f)
       /\ Len(Rows(f)) \in Nat /\ DOMAIN Rows(f) = 1 .. Len(Rows(f))
  BY <1>1, RowsOf
<1>1b. /\ Rows(f) \in Seq(AnyRow)
       /\ \A i \in 1 .. Len(Rows(f)) : Rows(f)[i] \in AnyRow
  BY <1>1, RowsOf
<1>1c. \A i \in 1 .. Len(Rows(f)) : Rows(f)[i] = f[i + 1]
  BY <1>1, RowsOf
<1>2. edit \in Row /\ edit \in AnyRow
  BY DEF CInv, GInv, TypeOK, Row, AnyRow
<1>3. g \in Seq(Line) /\ Len(g) <= end - 1
  BY DEF CopiedTo
<1>3b. \A i \in 1 .. Len(g) :
         /\ g[i] \in RestOf(NewLine(i))
         /\ ~ Broken \/ i < Len(g) => g[i] = NewLine(i)
  BY DEF CopiedTo
<1>4c. Len(g) \in Nat /\ Len(g) <= Len(f) /\ DOMAIN g = 1 .. Len(g)
  BY <1>1a, <1>3
<1>3a. \A i : NewLine(i) = IF i - 1 \in hits THEN edit ELSE f[i]
  BY DEF NewLine
<1>4. hits \subseteq 1 .. Len(Rows(f)) /\ \A i \in hits : Rows(f)[i].title = edit.title
  BY <1>1a DEF FirstHits
<1>4a. edited = [i \in 1 .. Len(Rows(f)) |->
                   IF i \in hits THEN [Rows(f)[i] EXCEPT !.synopsis = edit.synopsis]
                                 ELSE Rows(f)[i]]
  BY <1>1a DEF EditField
<1>. HIDE DEF f, g, hits, edited
<1>1d. Len(Rows(f)) = IF Len(f) = 0 THEN 0 ELSE Len(f) - 1
  <2>1. f \in Seq(Line)
    BY <1>1 DEF HasHeader
  <2>2. f = <<>> <=> Len(f) = 0
    BY <2>1, EmptySeq
  <2>3. Len(Rows(f)) = IF f = <<>> THEN 0 ELSE Len(f) - 1
    BY <1>1, RowsOf
  <2>. QED  BY <2>2, <2>3
<1>5. HasHeader(g)
  <2>1. ASSUME NEW i \in DOMAIN g
        PROVE  (i = 1) <=> (g[i] \in {Header, BadHeader})
    <3>0. i \in DOMAIN f /\ i \in Int /\ i \in 1 .. Len(g)
      BY <1>1a, <1>4c
    <3>1. NewLine(i) \in Line /\ ((i = 1) <=> (NewLine(i) \in {Header, BadHeader}))
      <4>1. CASE i - 1 \in hits
        <5>1. i # 1
          BY <3>0, <4>1, <1>4
        <5>. QED  BY <4>1, <5>1, <1>2, <1>3a, RowIsNoHeader
      <4>2. CASE i - 1 \notin hits
        <5>1. f \in Seq(Line) /\ ((i = 1) <=> (f[i] \in {Header, BadHeader}))
          BY <3>0, <1>1 DEF HasHeader
        <5>2. f[i] \in Line
          BY <3>0, <5>1
        <5>. QED  BY <4>2, <5>1, <5>2, <1>3a
      <4>. QED  BY <4>1, <4>2
    <3>2. g[i] \in RestOf(NewLine(i))
      BY <1>3b, <3>0
    <3>3. (g[i] \in {Header, BadHeader}) <=> (NewLine(i) \in {Header, BadHeader})
      BY <3>1, <3>2, RestOfLine
    <3>. QED  BY <3>1, <3>3
  <2>. QED  BY <1>3, <2>1 DEF HasHeader
<1>6. /\ Rows(g) \in Seq(AnyRow)
      /\ Len(Rows(g)) \in Nat /\ DOMAIN Rows(g) = 1 .. Len(Rows(g))
      /\ \A i \in 1 .. Len(Rows(g)) : Rows(g)[i] = g[i + 1] /\ i + 1 \in 2 .. Len(g)
  BY <1>5, RowsOf
<1>6a. Len(Rows(g)) = IF Len(g) = 0 THEN 0 ELSE Len(g) - 1
  <2>1. g = <<>> <=> Len(g) = 0
    BY <1>3, EmptySeq
  <2>2. Len(Rows(g)) = IF g = <<>> THEN 0 ELSE Len(g) - 1
    BY <1>5, RowsOf
  <2>. QED  BY <2>1, <2>2
<1>7. Len(Rows(g)) <= Len(Rows(f))
  <2>1. Len(f) \in Nat /\ Len(g) \in Nat /\ Len(g) <= Len(f)
    BY <1>1a, <1>4c
  <2>. QED  BY ONLY <1>1d, <1>6a, <2>1
<1>7a. Len(Rows(g)) \in 0 .. Len(Rows(f)) /\ DOMAIN Rows(g) = 1 .. Len(Rows(g))
  BY <1>1a, <1>6, <1>7
<1>8. ASSUME NEW i \in 1 .. Len(Rows(g)), ~ Broken \/ i < Len(Rows(g))
      PROVE  Rows(g)[i] = edited[i] /\ Rows(g)[i].title = Rows(f)[i].title
  <2>0. i \in 1 .. Len(Rows(f)) /\ i \in Int
    BY <1>1a, <1>7a
  <2>1. i + 1 \in 1 .. Len(g) /\ (i + 1) - 1 = i /\ Rows(f)[i] = f[i + 1]
    <3>1. i + 1 \in 2 .. Len(g)
      BY <1>6
    <3>2. Rows(f)[i] = f[i + 1]
      BY <1>1c, <2>0
    <3>. QED  BY <2>0, <3>1, <3>2, <1>4c
  <2>2. Rows(f)[i] \in AnyRow
    BY <1>1b, <2>0
  <2>3. Rows(g)[i] = IF i \in hits THEN edit ELSE Rows(f)[i]
    <3>1. Rows(g)[i] = g[i + 1]
      BY <1>6
    <3>2. ~ Broken \/ i + 1 < Len(g)
      <4>0. Len(Rows(g)) >= 1
        BY <1>6
      <4>1. Len(Rows(g)) = Len(g) - 1
        <5>1. Len(g) \in Nat
          BY <1>4c
        <5>. QED  BY ONLY <1>6a, <4>0, <5>1
      <4>. QED  BY <1>4c, <1>8, <2>0, <4>1
    <3>3. g[i + 1] = NewLine(i + 1)
      BY <1>3b, <2>1, <3>2
    <3>. QED  BY <1>3a, <2>1, <3>1, <3>3
  <2>4. i \in hits => [Rows(f)[i] EXCEPT !.synopsis = edit.synopsis] = edit
    BY <1>2, <1>4, <2>2 DEF Row, AnyRow
  <2>5. i \in hits => Rows(f)[i].title = edit.title
    BY <1>4
  <2>. QED  BY <1>4a, <2>0, <2>3, <2>4, <2>5
<1>9. FirstRows
  <2>1. ASSUME NEW i \in 1 .. Len(Rows(g)) - 1
        PROVE  Rows(g)[i] = edited[i]
    <3>1. i \in 1 .. Len(Rows(g)) /\ i < Len(Rows(g))
      BY <1>6
    <3>. QED  BY <1>8, <3>1
  <2>. QED  BY <1>6, <1>7, <2>1 DEF FirstRows, f, g, edited
<1>10. ASSUME ~ Broken
       PROVE  FirstHits(Rows(g), edit.title) \subseteq hits
  <2>1. \A i \in DOMAIN Rows(g) : Rows(g)[i].title = Rows(f)[i].title
    BY <1>7a, <1>8, <1>10
  <2>2. Rows(g) \in Seq(AnyRow) /\ Rows(f) \in Seq(AnyRow)
    BY <1>1b, <1>6
  <2>3. FirstHits(Rows(g), edit.title)
          = FirstHits(Rows(f), edit.title) \cap DOMAIN Rows(g)
    BY <1>7, <2>1, <2>2, SameTitlesSameHits
  <2>. QED  BY <2>3 DEF hits
<1>11. ASSUME ~ Broken PROVE EditDone
  <2>. SUFFICES ASSUME FirstHits(Rows(g), edit.title) # {}
                PROVE  GetField(Rows(g), edit.title) = edit.synopsis
    BY DEF EditDone, g
  <2>1. PICK i \in FirstHits(Rows(g), edit.title) :
             i = (CHOOSE j \in FirstHits(Rows(g), edit.title) : TRUE)
    OBVIOUS
  <2>2. i \in hits /\ i \in 1 .. Len(Rows(g)) /\ i \in 1 .. Len(Rows(f))
    BY <1>4, <1>7a, <1>10, <1>11 DEF FirstHits
  <2>3. Rows(g)[i] = [Rows(f)[i] EXCEPT !.synopsis = edit.synopsis]
    BY <1>4a, <1>8, <1>11, <2>2
  <2>4. Rows(f)[i] \in AnyRow
    BY <1>1b, <2>2
  <2>5. Rows(g)[i].synopsis = edit.synopsis
    BY <2>3, <2>4 DEF AnyRow
  <2>. QED  BY <2>1, <2>5 DEF GetField, SynopsisAt
<1>. QED  BY <1>5, <1>8, <1>9, <1>11 DEF f, g, edited

\* So has the copy that is done.
LEMMA EndOfCopy ==
  ASSUME CInv, ~ Missing, CopiedTo(CopyEnd)
  PROVE  HasHeader(disk["tmp"]) /\ FirstRows /\ (~ Broken => EditDone)
<1>1. CopyEnd \in Nat \ {0} /\ CopyEnd <= Len(disk["csv"]) + 1
  BY RowsOf DEF CInv, CopyEnd
<1>. QED  BY <1>1, CopiedRows

\* A copy that is not damaged has all the edited rows.
LEMMA WholeCopy ==
  ASSUME CInv, ~ Missing, ~ CopyDamaged, CopiedTo(CopyEnd)
  PROVE  Rows(disk["tmp"]) = EditField(Rows(disk["csv"]), edit.title, edit.synopsis)
<1> DEFINE f == disk["csv"]
           g == disk["tmp"]
           edited == EditField(Rows(f), edit.title, edit.synopsis)
<1>1. HasHeader(f) /\ Len(f) \in Nat /\ Len(Rows(f)) \in Nat
      /\ DOMAIN Rows(f) = 1 .. Len(Rows(f))
      /\ Len(Rows(f)) = IF f = <<>> THEN 0 ELSE Len(f) - 1
  BY RowsOf DEF CInv
<1>2. g \in Seq(Line) /\ Len(g) = Len(f) /\ CopyEnd = Len(f) + 1 /\ ~ Broken
  BY <1>1 DEF CopiedTo, CopyEnd, CopyDamaged, Broken
<1>3. HasHeader(g) /\ \A i \in 1 .. Len(Rows(g)) : Rows(g)[i] = edited[i]
  BY <1>1, <1>2, CopiedRows
<1>4. /\ Len(Rows(g)) = IF g = <<>> THEN 0 ELSE Len(g) - 1
      /\ Rows(g) \in Seq(AnyRow)
  BY <1>3, RowsOf
<1>. HIDE DEF f, g
<1>5. Len(Rows(g)) = Len(Rows(f))
  <2>1. (f = <<>> <=> Len(f) = 0) /\ (g = <<>> <=> Len(g) = 0)
    BY <1>1, <1>2, EmptySeq DEF HasHeader
  <2>. QED  BY <2>1, <1>1, <1>2, <1>4
<1>6. edited = [i \in 1 .. Len(Rows(f)) |-> edited[i]]
  BY <1>1 DEF EditField
<1>. HIDE DEF edited
<1>7. Rows(g) = [i \in 1 .. Len(Rows(g)) |-> Rows(g)[i]]
  <2> DEFINE q == Rows(g)
  <2>1. q \in Seq(AnyRow)
    BY <1>4
  <2>. HIDE DEF q
  <2>2. q = [i \in 1 .. Len(q) |-> q[i]]
    BY <2>1
  <2>. QED  BY <2>2 DEF q
<1>8. Rows(g) = edited
  BY <1>3, <1>5, <1>6, <1>7
<1>. QED  BY <1>8 DEF f, g, edited

-----------------------------------------------------------------------------
(* Types, whatever the files hold and whatever fails *)

DiskOK == disk \in [{"csv", "tmp"} -> Seq(Line) \cup {NoFile}]

(* A write leaves a sequence of lines on the disk. *)
LEMMA WriteTyped ==
  ASSUME GInv, stage = "copying", NEW line \in Line, WriteLine(line)
  PROVE  outBad' \in BOOLEAN /\ DiskOK' /\ disk'["tmp"] \in Seq(Line)
         /\ disk'["csv"] = disk["csv"]
<1>1. disk' = disk \/ \E l \in Line : disk' = [disk EXCEPT !["tmp"] = Append(@, l)]
  BY RestOfLine DEF WriteLine
<1>2. disk["tmp"] \in Seq(Line) /\ \A l \in Line : Append(disk["tmp"], l) \in Seq(Line)
  BY DEF GInv
<1>3. outBad' \in BOOLEAN
  BY Zenon DEF WriteLine, GInv, TypeOK
<1>. QED  BY <1>1, <1>2, <1>3 DEF GInv, TypeOK, DiskOK

(* Every step keeps the invariant GInv. *)
LEMMA NextG ==
  ASSUME GInv, [Next]_vars
  PROVE  GInv'
<1>. USE DEF GInv, TypeOK, Stages
<1>1. ASSUME NEW t \in Titles, NEW s \in Synopses, OpenCopy(t, s)
      PROVE  GInv'
  <2>1. disk["csv"] \in Seq(Line)
    BY <1>1 DEF OpenCopy, Missing
  <2>2. /\ disk'["csv"] = disk["csv"] /\ disk'["tmp"] = <<>> /\ <<>> \in Seq(Line)
        /\ disk' \in [{"csv", "tmp"} -> Seq(Line) \cup {NoFile}]
    BY <1>1 DEF OpenCopy
  <2>3. inBad' \in BOOLEAN /\ outBad' \in BOOLEAN /\ fault' \in BOOLEAN
    BY <1>1, Zenon DEF OpenCopy
  <2>4. edit' \in Row /\ pos' \in Nat \ {0} /\ stage' = "copying" /\ result' = "none"
    BY <1>1 DEF OpenCopy, Row
  <2>. QED  BY <2>1, <2>2, <2>3, <2>4
<1>2. CASE CopyLine \/ CopyEdited
  <2>1. PICK line \in Line : WriteLine(line)
    <3>1. CASE CopyLine
      BY <3>1 DEF CopyLine
    <3>2. CASE CopyEdited
      <4>1. edit \in Line
        BY DEF Line, Row, AnyRow
      <4>. QED  BY <3>2, <4>1 DEF CopyEdited
    <3>. QED  BY <1>2, <3>1, <3>2
  <2>2. stage = "copying" /\ pos' = pos + 1 /\ UNCHANGED <<edit, result, fault>>
    BY <1>2 DEF CopyLine, CopyEdited, Copying
  <2>3. outBad' \in BOOLEAN /\ DiskOK' /\ disk'["tmp"] \in Seq(Line)
        /\ disk'["csv"] = disk["csv"]
    BY <2>1, <2>2, WriteTyped
  <2>4. inBad' \in BOOLEAN /\ stage' \in {"copying", "copied"}
    <3>1. PICK l \in Line : Hands(l)
      BY <1>2 DEF CopyLine, CopyEdited
    <3>2. inBad' = inBad \/ inBad' = TRUE
      BY <3>1, Zenon DEF Hands
    <3>3. inBad' \in BOOLEAN
      BY <3>2, Zenon
    <3>. QED  BY <3>1, <3>3 DEF Hands
  <2>. QED  BY <2>2, <2>3, <2>4 DEF DiskOK
<1>3. CASE CopyShort
  <2>1. PICK l \in Line : Hands(l)
    BY <1>3 DEF CopyShort
  <2>2. inBad' = inBad \/ inBad' = TRUE
    BY <2>1, Zenon DEF Hands
  <2>3. inBad' \in BOOLEAN
    BY <2>2, Zenon
  <2>4. stage = "copying" /\ stage' \in {"copying", "copied"}
    BY <1>3, <2>1 DEF CopyShort, Copying, Hands
  <2>5. fault' \in BOOLEAN
    BY <1>3, Zenon DEF CopyShort
  <2>6. UNCHANGED <<disk, edit, pos, outBad, result>>
    BY <1>3 DEF CopyShort
  <2>. QED  BY <2>3, <2>4, <2>5, <2>6
<1>4. CASE CopyBadHeader \/ ReadFails \/ CopyDone
  <2>1. UNCHANGED <<disk, edit, pos, outBad, result, fault>> /\ stage' = "copied"
    BY <1>4 DEF CopyBadHeader, ReadFails, CopyDone
  <2>2. inBad' = inBad \/ inBad' = TRUE
    BY <1>4, Zenon DEF CopyBadHeader, ReadFails, CopyDone
  <2>3. inBad' \in BOOLEAN
    BY <2>2, Zenon
  <2>. QED  BY <2>1, <2>3
<1>5. CASE RemoveOriginal
  BY <1>5 DEF RemoveOriginal
<1>6. CASE RenameCopy
  BY <1>6 DEF RenameCopy
<1>7. CASE Crash
  <2>1. inBad' \in BOOLEAN /\ outBad' \in BOOLEAN /\ fault' \in BOOLEAN
    BY <1>7, Zenon DEF Crash
  <2>. QED  BY <1>7, <2>1 DEF Crash
<1>8. CASE UNCHANGED <<disk, stage, edit, pos, inBad, outBad>> /\ result' \in {"none", "ok", "threw"}
           /\ fault' \in BOOLEAN
  BY <1>8
<1>9. ASSUME \/ \E t \in Titles : GetSynopsis(t)
             \/ Construct \/ OpenThrows \/ UNCHANGED vars
      PROVE  UNCHANGED <<disk, stage, edit, pos, inBad, outBad>>
             /\ result' \in {"none", "ok", "threw"} /\ fault' \in BOOLEAN
  BY <1>9 DEF GetSynopsis, Construct, OpenThrows, Returns, Reads, vars
<1>. QED  BY <1>1, <1>2, <1>3, <1>4, <1>5, <1>6, <1>7, <1>8, <1>9
          DEF Next, SetSynopsisStep

(* GInv holds before the first call. *)
LEMMA InitG == Init => GInv
<1>. SUFFICES ASSUME Init PROVE GInv
  OBVIOUS
<1>1. PICK f \in InitialFiles : disk = [n \in {"csv", "tmp"} |->
                                          IF n = "csv" THEN f ELSE NoFile]
  BY DEF Init
<1>2. disk \in [{"csv", "tmp"} -> Seq(Line) \cup {NoFile}]
  BY <1>1, InitialFilesAssumption
<1>3. inBad \in BOOLEAN /\ outBad \in BOOLEAN /\ fault \in BOOLEAN
  BY Zenon DEF Init
<1>. QED  BY <1>2, <1>3 DEF Init, GInv, TypeOK, Stages

\* The variables have their types: whatever is cut off or lost, the copy is a
\* sequence of lines, and no call runs past the last one (movie.cpp:141-165).
THEOREM FilesTyped == Spec => []TypeOK
<1>1. GInv /\ [Next]_vars => GInv'
  BY NextG
<1>2. GInv => TypeOK
  BY DEF GInv
<1>. QED  BY <1>1, <1>2, InitG, PTL DEF Spec

-----------------------------------------------------------------------------
(* The invariant *)

\* A file is not the name of no file.
LEMMA FilesExist ==
  ASSUME NEW f, HasHeader(f)
  PROVE  f # NoFile
BY LineAssumption DEF HasHeader

LEMMA InitC == Init => CInv
<1>. SUFFICES ASSUME Init PROVE CInv
  OBVIOUS
<1>1. PICK f \in InitialFiles : disk = [n \in {"csv", "tmp"} |->
                                          IF n = "csv" THEN f ELSE NoFile]
  BY DEF Init
<1>2. HasHeader(f) /\ disk["csv"] = f
  BY <1>1, InitialFilesAssumption DEF HasHeader
<1>3. ~ Missing
  BY <1>2, FilesExist DEF Missing
<1>4. GInv
  BY InitG
<1>5. stage = "idle"
  BY DEF Init
<1>. QED  BY <1>2, <1>3, <1>4, <1>5 DEF CInv

\* A line is edited where the table says.
LEMMA EditedLine ==
  ASSUME HasHeader(disk["csv"]), pos \in 1 .. Len(disk["csv"]), disk["csv"][pos] \in Line
  PROVE  IsEdited(disk["csv"][pos])
           <=> pos - 1 \in FirstHits(Rows(disk["csv"]), edit.title)
<1> DEFINE f == disk["csv"]
           rows == Rows(f)
<1>1. /\ Len(f) \in Nat /\ Len(rows) \in Nat /\ DOMAIN rows = 1 .. Len(rows)
      /\ \A i \in 1 .. Len(rows) : rows[i] = f[i + 1] /\ i + 1 \in 2 .. Len(f)
      /\ \A i \in 2 .. Len(f) : i - 1 \in 1 .. Len(rows) /\ f[i] = rows[i - 1]
  BY RowsOf
<1>. HIDE DEF f, rows
<1>2. ASSUME pos > 1, \A i \in 2 .. pos - 1 : f[i].title # edit.title, f[pos].title = edit.title
      PROVE  pos - 1 \in FirstHits(rows, edit.title)
  <2>1. pos \in 2 .. Len(f) /\ pos - 1 \in 1 .. Len(rows) /\ f[pos] = rows[pos - 1]
    BY <1>1, <1>2 DEF f
  <2>2. ASSUME NEW j \in 1 .. (pos - 1) - 1
        PROVE  rows[j].title # edit.title
    <3>1. j \in 1 .. Len(rows) /\ j + 1 \in 2 .. pos - 1
      BY <1>1, <2>1
    <3>. QED  BY <1>1, <1>2, <3>1
  <2>. QED  BY <1>1, <1>2, <2>1, <2>2 DEF FirstHits
<1>3. ASSUME pos - 1 \in FirstHits(rows, edit.title)
      PROVE  /\ pos > 1 /\ f[pos].title = edit.title
             /\ \A i \in 2 .. pos - 1 : f[i].title # edit.title
  <2>1. /\ pos - 1 \in 1 .. Len(rows) /\ rows[pos - 1].title = edit.title
        /\ \A j \in 1 .. (pos - 1) - 1 : rows[j].title # edit.title
    BY <1>1, <1>3 DEF FirstHits
  <2>2. pos \in 2 .. Len(f) /\ f[pos] = rows[pos - 1]
    BY <1>1, <2>1 DEF f
  <2>3. ASSUME NEW i \in 2 .. pos - 1 PROVE f[i].title # edit.title
    <3>1. i \in 2 .. Len(f) /\ i - 1 \in 1 .. (pos - 1) - 1
      BY <1>1, <2>2
    <3>. QED  BY <1>1, <2>1, <3>1
  <2>. QED  BY <2>1, <2>2, <2>3
<1>. QED  BY <1>2, <1>3 DEF IsEdited, f, rows

\* Writing the line that was handed over, edited or not, is a step of the copy.
LEMMA WriteNext ==
  ASSUME CInv, Copying, ~ Unreadable, NEW l \in Line, Hands(l),
         WriteLine(IF IsEdited(l) THEN edit ELSE l),
         pos' = pos + 1, UNCHANGED <<edit, result, fault>>, GInv'
  PROVE  CInv'
<1> DEFINE line == IF IsEdited(l) THEN edit ELSE l
<1>1. /\ ~ Missing /\ HasHeader(disk["csv"]) /\ CopiedTo(pos) /\ pos \in Nat \ {0}
      /\ stage = "copying" /\ pos <= Len(disk["csv"]) /\ ~ inBad
      /\ edit \in Line /\ edit \in AnyRow
  BY DEF CInv, GInv, TypeOK, Copying, Line, Row, AnyRow
<1>1a. /\ Len(disk["csv"]) \in Nat /\ pos \in 1 .. Len(disk["csv"])
       /\ disk["csv"][pos] \in Line
       /\ pos > 1 => disk["csv"][pos] \in AnyRow
  <2>1. /\ Len(disk["csv"]) \in Nat /\ DOMAIN disk["csv"] = 1 .. Len(disk["csv"])
        /\ disk["csv"] \in Seq(Line)
    BY <1>1, RowsOf DEF HasHeader
  <2>2. pos \in 1 .. Len(disk["csv"]) /\ disk["csv"][pos] \in Line
    BY <1>1, <2>1
  <2>3. pos > 1 => disk["csv"][pos] \notin {Header, BadHeader}
    BY <1>1, <2>1, <2>2 DEF HasHeader
  <2>. QED  BY <2>1, <2>2, <2>3, LineOrRow
<1>2. /\ NewLine(pos) \in Line
      /\ line \in RestOf(NewLine(pos))
      /\ ~ inBad' => line = NewLine(pos)
  <2>1. CASE ~ inBad'
    <3>1. l = disk["csv"][pos]
      BY <2>1, Zenon DEF Hands
    <3>2. line = NewLine(pos)
      BY <1>1, <1>1a, <3>1, EditedLine DEF NewLine
    <3>3. NewLine(pos) \in Line
      BY <1>1, <3>2
    <3>. QED  BY <3>2, <3>3, RestOfLine
  <2>2. CASE inBad'
    <3>1. l \in RestOf(disk["csv"][pos])
      <4>1. l = disk["csv"][pos] \/ l \in RestOf(disk["csv"][pos])
        BY DEF Hands
      <4>. QED  BY <4>1, <1>1a, RestOfLine
    <3>2. CASE pos = 1
      <4>1. ~ IsEdited(l) /\ 0 \notin FirstHits(Rows(disk["csv"]), edit.title)
        BY <1>1, <3>2, RowsOf DEF IsEdited, FirstHits
      <4>. QED  BY <1>1a, <2>2, <3>1, <3>2, <4>1 DEF NewLine
    <3>3. CASE pos > 1
      <4>1. NewLine(pos) \in AnyRow /\ NewLine(pos) \in Line
        BY <1>1, <1>1a, <3>3 DEF NewLine
      <4>2. l \in AnyRow
        BY <1>1a, <3>1, <3>3, RestOfLine
      <4>3. line \in AnyRow
        BY <1>1, <4>2
      <4>. QED  BY <2>2, <4>1, <4>3, RestOfLine
    <3>. QED  BY <1>1, <3>2, <3>3
  <2>. QED  BY <2>1, <2>2
<1>2a. line \in Line /\ RestOf(line) \subseteq RestOf(NewLine(pos))
       /\ RestOf(NewLine(pos)) \subseteq Line
  BY <1>2, RestOfLine
<1>. HIDE DEF line
<1>3. /\ disk'["csv"] = disk["csv"]
      /\ outBad => outBad'
      /\ \/ disk'["tmp"] = disk["tmp"] /\ outBad'
         \/ /\ ~ outBad
            /\ \E r \in RestOf(NewLine(pos)) :
                 /\ disk'["tmp"] = Append(disk["tmp"], r)
                 /\ ~ Broken' => r = NewLine(pos)
  <2>0. WriteLine(line) /\ DOMAIN disk = {"csv", "tmp"}
    BY DEF line, CInv, GInv, TypeOK
  <2>1. CASE outBad /\ UNCHANGED <<disk, outBad>>
    BY <2>1, Zenon
  <2>2. CASE ~ outBad /\ disk' = [disk EXCEPT !["tmp"] = Append(@, line)] /\ UNCHANGED outBad
    <3>1. ~ Broken' => line = NewLine(pos)
      BY <1>2, Zenon DEF Broken
    <3>2. disk'["csv"] = disk["csv"] /\ disk'["tmp"] = Append(disk["tmp"], line)
      BY <2>0, <2>2
    <3>. QED  BY <1>2, <2>2, <3>1, <3>2, Zenon
  <2>3. CASE ~ outBad /\ UNCHANGED disk /\ outBad'
    BY <2>3, Zenon
  <2>4. ASSUME ~ outBad, outBad', NEW r \in RestOf(line),
               disk' = [disk EXCEPT !["tmp"] = Append(@, r)]
        PROVE  /\ disk'["csv"] = disk["csv"] /\ disk'["tmp"] = Append(disk["tmp"], r)
               /\ r \in RestOf(NewLine(pos)) /\ Broken'
    BY <1>2a, <2>0, <2>4 DEF Broken
  <2>. QED  BY <2>0, <2>1, <2>2, <2>3, <2>4, Zenon DEF WriteLine
<1>5. /\ disk["tmp"] \in Seq(Line)
      /\ Len(disk["tmp"]) \in Nat
      /\ Len(disk["tmp"]) <= pos - 1
      /\ ~ outBad => Len(disk["tmp"]) = pos - 1
      /\ \A i \in 1 .. Len(disk["tmp"]) :
           /\ disk["tmp"][i] \in RestOf(NewLine(i))
           /\ ~ outBad \/ i < Len(disk["tmp"]) => disk["tmp"][i] = NewLine(i)
  BY <1>1 DEF CopiedTo, Broken
<1>6. \A i : NewLine(i)' = NewLine(i) /\ RestOf(NewLine(i))' = RestOf(NewLine(i))
  <2>1. \A i : NewLine(i)' = NewLine(i)
    BY <1>3 DEF NewLine
  <2>. QED  BY <2>1 DEF RestOf
<1>7. (pos' - 1 = pos) /\ pos - 1 <= pos /\ pos' \in Nat
  BY <1>1
<1>8. CopiedTo(pos)'
  <2>1. CASE disk'["tmp"] = disk["tmp"] /\ outBad'
    <3>1. Broken'
      BY <2>1 DEF Broken
    <3>2. Len(disk["tmp"]) <= pos' - 1
      BY <1>1, <1>5, <1>7
    <3>. QED  BY <2>1, <3>1, <3>2, <1>5, <1>6 DEF CopiedTo
  <2>2. ASSUME ~ outBad, NEW r \in RestOf(NewLine(pos)),
               disk'["tmp"] = Append(disk["tmp"], r), ~ Broken' => r = NewLine(pos)
        PROVE  CopiedTo(pos)'
    <3>2. /\ disk'["tmp"] \in Seq(Line)
          /\ Len(disk'["tmp"]) = pos
          /\ \A i \in 1 .. pos - 1 : disk'["tmp"][i] = disk["tmp"][i]
          /\ disk'["tmp"][pos] = r
      BY <1>1, <1>2a, <1>5, <2>2
    <3>3. ASSUME NEW i \in 1 .. pos
          PROVE  /\ disk'["tmp"][i] \in RestOf(NewLine(i))'
                 /\ ~ Broken' \/ i < pos => disk'["tmp"][i] = NewLine(i)'
      <4>1. CASE i = pos
        BY <1>6, <2>2, <3>2, <4>1
      <4>2. CASE i \in 1 .. pos - 1
        BY <1>1, <1>5, <1>6, <2>2, <3>2, <4>2
      <4>. QED  BY <1>1, <4>1, <4>2
    <3>. QED  BY <1>1, <1>7, <3>2, <3>3 DEF CopiedTo
  <2>. QED  BY <1>3, <2>1, <2>2
<1>9. ~ Missing' /\ ~ Unreadable'
  BY <1>1, <1>3 DEF Missing, Unreadable, HeaderMissing
<1>10. pos' <= Len(disk'["csv"]) + 1
  BY <1>1, <1>1a, <1>3
<1>11. CASE inBad'
  <2>1. stage' = "copied"
    BY <1>11 DEF Hands
  <2>2. CopyEnd' = Len(disk'["csv"]) + 1
    BY <1>9 DEF CopyEnd
  <2>3. CopiedTo(CopyEnd)'
    <3>1. Broken'
      BY <1>11 DEF Broken
    <3>2. disk'["tmp"] \in Seq(Line) /\ Len(disk'["tmp"]) <= pos' - 1
      BY <1>8 DEF CopiedTo
    <3>3. Len(disk'["tmp"]) <= CopyEnd' - 1
      BY <1>1a, <1>3, <1>7, <1>10, <2>2, <3>2
    <3>. QED  BY <1>8, <3>1, <3>3 DEF CopiedTo
  <2>. QED  BY <1>1, <1>3, <1>9, <2>1, <2>3 DEF CInv
<1>12. CASE ~ inBad'
  <2>1. stage' = "copying"
    BY <1>12 DEF Hands
  <2>. QED  BY <1>1, <1>3, <1>8, <1>9, <1>10, <2>1 DEF CInv
<1>. QED  BY <1>11, <1>12

\* Every step keeps the invariant CInv.
LEMMA NextC ==
  ASSUME CInv, [Next]_vars
  PROVE  CInv'
<1>0. GInv'
  BY NextG DEF CInv
<1>1. ASSUME NEW t \in Titles, NEW s \in Synopses, OpenCopy(t, s)
      PROVE  CInv'
  <2>1. ~ Missing /\ HasHeader(disk["csv"])
    BY <1>1 DEF OpenCopy, CInv
  <2>2. disk'["csv"] = disk["csv"] /\ disk'["tmp"] = <<>>
    BY <1>1 DEF OpenCopy, CInv, GInv, TypeOK
  <2>3. ~ Missing' /\ pos' = 1 /\ stage' = "copying"
    BY <1>1, <2>1, <2>2 DEF OpenCopy, Missing
  <2>4. CopiedTo(pos)' /\ pos' <= Len(disk'["csv"]) + 1
    BY <2>1, <2>2, <2>3, RowsOf DEF CopiedTo
  <2>. QED  BY <1>0, <2>1, <2>2, <2>3, <2>4 DEF CInv
<1>2. CASE CopyLine
  <2>1. PICK l \in Line : Hands(l) /\ l # BadHeader /\ ~ IsEdited(l) /\ WriteLine(l)
    BY <1>2 DEF CopyLine
  <2>2. Copying /\ stage = "copying" /\ pos' = pos + 1 /\ UNCHANGED <<edit, result, fault>>
    BY <1>2 DEF CopyLine, Copying
  <2>3. ~ Unreadable
    <3>1. /\ ~ Missing /\ HasHeader(disk["csv"]) /\ (Unreadable => pos = 1)
      BY <2>2 DEF CInv
    <3>2. ASSUME disk["csv"][pos] = BadHeader PROVE FALSE
      <4>1. BadHeader \in Line
        BY DEF Line
      <4>. QED  BY <2>1, <3>2, <4>1, RestOfLine DEF Hands
    <3>. QED  BY <3>1, <3>2 DEF Unreadable, HeaderMissing
  <2>. QED  BY <1>0, <2>1, <2>2, <2>3, WriteNext
<1>3. CASE CopyEdited
  <2>1. PICK l \in Line : Hands(l) /\ IsEdited(l)
    BY <1>3 DEF CopyEdited
  <2>2. /\ Copying /\ stage = "copying" /\ pos' = pos + 1 /\ UNCHANGED <<edit, result, fault>>
        /\ WriteLine(edit)
    BY <1>3 DEF CopyEdited, Copying
  <2>3. ~ Unreadable
    BY <2>1, <2>2 DEF CInv, GInv, TypeOK, IsEdited
  <2>. QED  BY <1>0, <2>1, <2>2, <2>3, WriteNext
<1>4. CASE CopyShort
  <2>1. PICK l \in Line : Hands(l) /\ EndsEarly(l)
    BY <1>4 DEF CopyShort
  <2>2. /\ stage = "copying" /\ ~ Missing /\ HasHeader(disk["csv"]) /\ CopiedTo(pos)
        /\ pos <= Len(disk["csv"]) /\ pos \in Nat \ {0} /\ ~ inBad
        /\ Len(disk["csv"]) \in Nat
    BY <1>4, RowsOf DEF CopyShort, Copying, CInv, GInv, TypeOK
  <2>3. UNCHANGED <<disk, edit, pos, outBad, result>>
    BY <1>4 DEF CopyShort
  <2>4. ~ Unreadable
    BY <2>1, <2>2 DEF EndsEarly, CInv
  <2>5. ~ Missing' /\ ~ Unreadable'
    BY <2>2, <2>3, <2>4 DEF Missing, Unreadable, HeaderMissing
  <2>6. CASE ~ inBad'
    <3>1. stage' = "copying" /\ ~ inBad /\ ~ inBad'
      BY <2>1, <2>2, <2>6 DEF Hands
    <3>2. Broken' <=> Broken
      BY <2>3, <3>1 DEF Broken
    <3>3. CopiedTo(pos)'
      BY <2>2, <2>3, <3>2 DEF CopiedTo, NewLine, RestOf
    <3>. QED  BY <1>0, <2>2, <2>3, <2>5, <3>1, <3>3 DEF CInv
  <2>7. CASE inBad'
    <3>1. stage' = "copied" /\ Broken'
      BY <2>1, <2>7 DEF Hands, Broken
    <3>2. CopyEnd' = Len(disk["csv"]) + 1
      BY <2>3, <2>5 DEF CopyEnd
    <3>3. CopiedTo(CopyEnd)'
      <4>1. Len(disk["tmp"]) <= CopyEnd' - 1
        BY <2>2, <3>2 DEF CopiedTo
      <4>. QED  BY <2>2, <2>3, <3>1, <4>1 DEF CopiedTo, NewLine, RestOf, Broken
    <3>. QED  BY <1>0, <2>2, <2>3, <2>5, <3>1, <3>3 DEF CInv
  <2>. QED  BY <2>6, <2>7
<1>5. CASE CopyBadHeader \/ ReadFails \/ CopyDone
  <2>1. /\ stage = "copying" /\ stage' = "copied"
        /\ UNCHANGED <<disk, edit, pos, outBad, result, fault>>
        /\ inBad => inBad'
    BY <1>5 DEF CopyBadHeader, ReadFails, CopyDone, Copying
  <2>2. /\ ~ Missing /\ HasHeader(disk["csv"])
        /\ CopiedTo(pos) /\ pos <= Len(disk["csv"]) + 1 /\ pos \in Nat \ {0}
        /\ Unreadable => pos = 1
        /\ Len(disk["csv"]) \in Nat
    BY <2>1, RowsOf DEF CInv, GInv, TypeOK
  <2>3. pos <= CopyEnd /\ CopyEnd \in Nat /\ (inBad' \/ pos = CopyEnd)
    <3>1. CASE CopyBadHeader
      <4>1. ASSUME disk["csv"][pos] = BadHeader PROVE pos = 1 /\ Unreadable
        <5>1. pos = 1
          BY <2>2, <3>1, <4>1, RowsOf DEF CopyBadHeader, Copying, HasHeader
        <5>. QED  BY <2>2, <3>1, <4>1, <5>1
                  DEF CopyBadHeader, Copying, Unreadable, HeaderMissing
      <4>. QED  BY <2>2, <3>1, <4>1 DEF CopyBadHeader, CopyEnd
    <3>2. CASE ReadFails
      BY <2>2, <3>2 DEF ReadFails, CopyEnd
    <3>3. CASE CopyDone
      <4>1. pos = Len(disk["csv"]) + 1
        BY <2>2, <3>3 DEF CopyDone
      <4>. QED  BY <2>2, <4>1 DEF CopyEnd
    <3>. QED  BY <1>5, <3>1, <3>2, <3>3
  <2>4. CopiedTo(CopyEnd)' /\ ~ Missing'
    <3>1. CopyEnd' = CopyEnd /\ ~ Missing' /\ \A i : NewLine(i)' = NewLine(i)
      BY <2>1, <2>2 DEF CopyEnd, NewLine, Missing, Unreadable, HeaderMissing
    <3>2. /\ disk["tmp"] \in Seq(Line) /\ Len(disk["tmp"]) \in Nat
          /\ Len(disk["tmp"]) <= pos - 1
          /\ ~ Broken => Len(disk["tmp"]) = pos - 1
      BY <2>2 DEF CopiedTo
    <3>3. Len(disk["tmp"]) <= CopyEnd - 1 /\ (~ Broken' => Len(disk["tmp"]) = CopyEnd - 1)
      <4>1. ~ Broken' => ~ Broken /\ pos = CopyEnd
        BY <2>1, <2>3 DEF Broken
      <4>. QED  BY <2>2, <2>3, <3>2, <4>1
    <3>4. Broken => Broken'
      BY <2>1 DEF Broken
    <3>. QED  BY <2>1, <2>2, <3>1, <3>2, <3>3, <3>4 DEF CopiedTo, RestOf
  <2>. QED  BY <1>0, <2>1, <2>2, <2>4 DEF CInv
<1>6. CASE RemoveOriginal
  <2>1. ~ Missing /\ CopiedTo(CopyEnd)
    BY <1>6 DEF RemoveOriginal, CInv
  <2>2. HasHeader(disk["tmp"]) /\ (~ Broken => EditDone)
    BY <2>1, EndOfCopy
  <2>3. CASE disk' = [disk EXCEPT !["csv"] = NoFile]
    <3>1. disk'["csv"] = NoFile /\ disk'["tmp"] = disk["tmp"]
      BY <2>3 DEF CInv, GInv, TypeOK
    <3>2. Missing' /\ (~ Broken' => EditDone')
      BY <1>6, <2>2, <3>1 DEF RemoveOriginal, Missing, EditDone, Broken
    <3>. QED  BY <1>0, <1>6, <2>2, <3>1, <3>2 DEF RemoveOriginal, CInv
  <2>4. CASE UNCHANGED disk
    <3>1. ~ Missing' /\ CopiedTo(CopyEnd)'
      BY <1>6, <2>1, <2>4
         DEF RemoveOriginal, Missing, Unreadable, HeaderMissing, CopiedTo, CopyEnd,
             NewLine, RestOf, Broken
    <3>. QED  BY <1>0, <1>6, <2>4, <3>1 DEF RemoveOriginal, CInv
  <2>. QED  BY <1>6, <2>3, <2>4 DEF RemoveOriginal
<1>7. CASE RenameCopy
  <2>1. HasHeader(disk["tmp"])
    BY <1>7, EndOfCopy DEF RenameCopy, CInv
  <2>2. CASE disk' = [csv |-> disk["tmp"], tmp |-> NoFile]
    <3>1. disk'["csv"] = disk["tmp"]
      BY <2>2
    <3>2. ~ Missing' /\ HasHeader(disk'["csv"])
      BY <2>1, <3>1, FilesExist DEF Missing
    <3>. QED  BY <1>0, <1>7, <3>2 DEF RenameCopy, CInv
  <2>3. CASE UNCHANGED disk
    BY <1>0, <1>7, <2>1, <2>3 DEF RenameCopy, CInv, Missing
  <2>. QED  BY <1>7, <2>2, <2>3 DEF RenameCopy
<1>8. CASE Crash
  <2>1. Missing' = Missing /\ UNCHANGED disk /\ stage' = "idle"
    BY <1>8 DEF Crash, Missing
  <2>. QED  BY <1>0, <2>1 DEF CInv
<1>9. CASE UNCHANGED <<disk, stage, edit, pos, inBad, outBad>>
  BY <1>0, <1>9
     DEF CInv, Missing, Unreadable, HeaderMissing, CopiedTo, CopyEnd, NewLine, RestOf,
         Broken, EditDone
<1>10. ASSUME \/ \E t \in Titles : GetSynopsis(t)
              \/ Construct \/ OpenThrows \/ UNCHANGED vars
       PROVE  UNCHANGED <<disk, stage, edit, pos, inBad, outBad>>
  BY <1>10 DEF GetSynopsis, Construct, OpenThrows, Returns, Reads, vars
<1>. QED  BY <1>1, <1>2, <1>3, <1>4, <1>5, <1>6, <1>7, <1>8, <1>9, <1>10
          DEF Next, SetSynopsisStep

\* The copy is what the stage says, whatever fails.
LEMMA InvarianceC == Spec => []CInv
BY InitC, NextC, PTL DEF Spec

\* A table is edited, its first rows if the edit broke off, and a last one that
\* may be any.
PartlyEdited(old, new) ==
  /\ new \in Seq(AnyRow)
  /\ Len(new) <= Len(old)
  /\ \A i \in 1 .. Len(new) - 1 : new[i] = EditField(old, edit.title, edit.synopsis)[i]

\* Only the removal of the original, or the renaming over one that could not be
\* removed, changes the rows that exist: to all of the edited rows, or, when the
\* copy is damaged, to the first of them.
LEMMA ContentStep ==
  ASSUME CInv, [Next]_vars
  PROVE  \/ Content' = Content
         \/ Rows(Content)' = EditField(Rows(Content), edit.title, edit.synopsis)
         \/ CopyDamaged /\ PartlyEdited(Rows(Content), Rows(Content'))
<1> DEFINE Goal == \/ Content' = Content
                   \/ Rows(Content)' = EditField(Rows(Content), edit.title, edit.synopsis)
                   \/ CopyDamaged /\ PartlyEdited(Rows(Content), Rows(Content'))
<1>1. ASSUME ~ Missing, CopiedTo(CopyEnd), Content' = disk["tmp"]
      PROVE  Goal
  <2>1. Content = disk["csv"]
    BY <1>1 DEF Content
  <2>2. Rows(Content)' = Rows(disk["tmp"]) /\ Rows(Content') = Rows(disk["tmp"])
    BY <1>1 DEF Rows
  <2>3. CASE CopyDamaged
    <3>1. FirstRows
      BY <1>1, EndOfCopy
    <3>. QED  BY <2>1, <2>2, <2>3, <3>1 DEF FirstRows, PartlyEdited
  <2>4. CASE ~ CopyDamaged
    BY <1>1, <2>1, <2>2, <2>4, WholeCopy
  <2>. QED  BY <2>3, <2>4
<1>2. CASE RemoveOriginal
  <2>1. ~ Missing /\ CopiedTo(CopyEnd)
    BY <1>2 DEF RemoveOriginal, CInv
  <2>2. CASE disk' = [disk EXCEPT !["csv"] = NoFile]
    <3>1. Content' = disk["tmp"]
      BY <2>2 DEF Content, Missing, CInv, GInv, TypeOK
    <3>. QED  BY <1>1, <2>1, <3>1
  <2>3. CASE UNCHANGED disk
    BY <2>3 DEF Content, Missing
  <2>. QED  BY <1>2, <2>2, <2>3 DEF RemoveOriginal
<1>3. CASE RenameCopy
  <2>1. HasHeader(disk["tmp"])
    BY <1>3, EndOfCopy DEF RenameCopy, CInv
  <2>2. CASE disk' = [csv |-> disk["tmp"], tmp |-> NoFile]
    <3>1. Content' = disk["tmp"]
      BY <2>1, <2>2, FilesExist DEF Content, Missing
    <3>2. CASE Missing
      BY <3>1, <3>2 DEF Content
    <3>3. CASE ~ Missing
      BY <1>1, <1>3, <3>1, <3>3 DEF RenameCopy, CInv
    <3>. QED  BY <3>2, <3>3
  <2>3. CASE UNCHANGED disk
    BY <2>3 DEF Content, Missing
  <2>. QED  BY <1>3, <2>2, <2>3 DEF RenameCopy
<1>4. CASE ~ Missing /\ disk'["csv"] = disk["csv"]
  BY <1>4 DEF Content, Missing
<1>5. CASE UNCHANGED disk
  BY <1>5 DEF Content, Missing
<1>6. ASSUME \/ \E t \in Titles, s \in Synopses : OpenCopy(t, s)
             \/ CopyLine \/ CopyEdited
      PROVE  ~ Missing /\ disk'["csv"] = disk["csv"]
  BY <1>6 DEF OpenCopy, CopyLine, CopyEdited, Copying, WriteLine, CInv, GInv, TypeOK
<1>7. ASSUME \/ CopyShort \/ CopyBadHeader \/ ReadFails \/ CopyDone \/ Crash
             \/ \E t \in Titles : GetSynopsis(t)
             \/ Construct \/ OpenThrows \/ UNCHANGED vars
      PROVE  UNCHANGED disk
  BY <1>7 DEF CopyShort, CopyBadHeader, ReadFails, CopyDone, Crash, GetSynopsis,
              Construct, OpenThrows, Returns, Reads, vars
<1>. QED  BY <1>2, <1>3, <1>4, <1>5, <1>6, <1>7 DEF Next, SetSynopsisStep

-----------------------------------------------------------------------------
(* Theorems *)

\* An edit changes the table at once or not at all, for tables of any length,
\* whenever the program dies and whichever call throws.  When a read or a write
\* failed, or the columns are not found, rows can be missing at the end and the
\* last that is left can be any row, but every row before it is the edited one
\* (movie.cpp:141-165, utils.cpp:51-93, 140-181).
THEOREM EditsAtOnce == Spec => EditsTable
<1>1. Init => Table!TableInit
  <2>. SUFFICES ASSUME Init PROVE Table!TableInit
    OBVIOUS
  <2>1. CInv
    BY InitC
  <2>2. HasHeader(Content)
    BY <2>1 DEF CInv, Content
  <2>3. Rows(Content) \in Seq(AnyRow)
    BY <2>2, RowsOf
  <2>. QED  BY <2>3, Zenon DEF Table!TableInit, Table!AnyRow, AnyRow
<1>2. CInv /\ [Next]_vars => [Table!TableNext]_(Rows(Content))
  <2>. SUFFICES ASSUME CInv, [Next]_vars PROVE [Table!TableNext]_(Rows(Content))
    OBVIOUS
  <2> DEFINE t == edit.title
             s == edit.synopsis
             edited == EditField(Rows(Content), t, s)
  <2>1. \/ Content' = Content
        \/ Rows(Content)' = edited
        \/ CopyDamaged /\ PartlyEdited(Rows(Content), Rows(Content'))
    BY ContentStep
  <2>2. t \in Titles /\ s \in Synopses
    BY DEF CInv, GInv, TypeOK, Row
  <2>3. edited = Table!EditField(Rows(Content), t, s)
    BY DEF EditField, FirstHits, Table!EditField, Table!FirstHits
  <2>4. Rows(Content') = Rows(Content)'
    BY DEF Rows
  <2>5. CASE Content' = Content
    BY <2>5 DEF Rows
  <2>6. CASE Rows(Content)' = edited
    BY <2>2, <2>3, <2>6 DEF Table!Edit, Table!TableNext
  <2>7. CASE CopyDamaged /\ PartlyEdited(Rows(Content), Rows(Content'))
    <3>1. /\ Rows(Content)' \in Seq(AnyRow)
          /\ Len(Rows(Content)') <= Len(Rows(Content))
          /\ \A i \in 1 .. Len(Rows(Content)') - 1 : Rows(Content)'[i] = edited[i]
      BY <2>4, <2>7 DEF PartlyEdited
    <3>2. AnyRow = Table!AnyRow
      BY Zenon DEF AnyRow, Table!AnyRow
    <3>. HIDE DEF edited
    <3>3. Table!Damage(t, s)
      BY <2>3, <2>7, <3>1, <3>2 DEF Table!Damage
    <3>. QED  BY <2>2, <3>3 DEF Table!TableNext
  <2>. QED  BY <2>1, <2>5, <2>6, <2>7
<1>. QED  BY <1>1, <1>2, InvarianceC, PTL DEF Spec, EditsTable, Table!TableSpec

\* When set_synopsis returns and no read or write failed, the title reads as its new
\* text, if it has a row (movie.cpp:152-164, utils.cpp:168-174).
THEOREM ReturnsWritten == Spec => ReturnMeansWritten
<1>1. ASSUME CInv, RenameCopy, result' = "ok", ~ CopyDamaged
      PROVE  LET rows == Rows(disk'["csv"]) IN
             FirstHits(rows, edit.title) # {} =>
               GetField(rows, edit.title) = edit.synopsis
  <2>1. stage = "removed" /\ Missing /\ disk'["csv"] = disk["tmp"]
    BY <1>1 DEF RenameCopy
  <2>2. EditDone
    BY <1>1, <2>1 DEF CInv, CopyDamaged, Broken
  <2>. QED  BY <2>1, <2>2 DEF EditDone
<1>2. CInv => [RenameCopy /\ result' = "ok" /\ ~ CopyDamaged =>
                 LET rows == Rows(disk'["csv"]) IN
                 FirstHits(rows, edit.title) # {} =>
                   GetField(rows, edit.title) = edit.synopsis]_vars
  BY <1>1
<1>. QED  BY <1>2, InvarianceC, PTL DEF Spec, ReturnMeansWritten

-----------------------------------------------------------------------------
(* Slugs: first, sequences of texts and their concatenation.               *)

\* Texts, as bytes.
Text == Seq(0 .. 255)

\* A set that has 0, and with every number below n the next one, has all up to n.
LEMMA SetInduction ==
  ASSUME NEW n \in Nat, NEW P, 0 \in P, \A k \in 0 .. n - 1 : k \in P => k + 1 \in P
  PROVE  0 .. n \subseteq P
<1> DEFINE T == { k \in 0 .. n : k \notin P }
           R == OpToRel(<, Nat)
<1>. SUFFICES ASSUME T # {} PROVE FALSE
  OBVIOUS
<1>1. T \subseteq Nat
  OBVIOUS
<1>2. PICK k \in T : \A j \in T : <<j, k>> \notin R
  <2>. HIDE DEF T, R
  <2>1. IsWellFoundedOn(R, Nat)
    BY NatLessThanWellFounded DEF R
  <2>. QED  BY <1>1, <2>1, WFMin
<1>3. k # 0 /\ k \in 0 .. n
  OBVIOUS
<1>4. k - 1 \in 0 .. n - 1 /\ (k - 1) + 1 = k
  BY <1>3
<1>5. k - 1 \notin T
  <2>1. <<k - 1, k>> \in R
    BY <1>3, <1>4 DEF OpToRel
  <2>. QED  BY <1>2, <2>1
<1>6. k - 1 \in P
  BY <1>4, <1>5
<1>. QED  BY <1>3, <1>4, <1>6

\* The concatenations of the first of a sequence of texts: of none, of one, ...
IsJoin(g, s, n) ==
  /\ g \in [0 .. n -> Text]
  /\ g[0] = <<>>
  /\ \A k \in 1 .. n : g[k] = g[k - 1] \o s[k]

Join(s) == CHOOSE g : IsJoin(g, s, Len(s))

\* There are such concatenations.
LEMMA JoinExists ==
  ASSUME NEW s \in Seq(Text)
  PROVE  \E g : IsJoin(g, s, Len(s))
<1> DEFINE P == { n \in 0 .. Len(s) : \E g : IsJoin(g, s, n) }
<1>1. 0 \in P
  <2>1. <<>> \in Text
    BY DEF Text
  <2>2. IsJoin([k \in 0 .. 0 |-> <<>>], s, 0)
    BY <2>1 DEF IsJoin
  <2>. QED  BY <2>2
<1>2. ASSUME NEW n \in 0 .. Len(s) - 1, n \in P
      PROVE  n + 1 \in P
  <2>1. PICK g : IsJoin(g, s, n)
    BY <1>2
  <2> DEFINE h == [k \in 0 .. n + 1 |-> IF k = n + 1 THEN g[n] \o s[n + 1] ELSE g[k]]
  <2>2. g[n] \in Text /\ s[n + 1] \in Text
    BY <2>1 DEF IsJoin
  <2>3. g[n] \o s[n + 1] \in Text
    BY <2>2 DEF Text
  <2>4. \A k \in 0 .. n + 1 : h[k] \in Text
    BY <2>1, <2>3 DEF IsJoin
  <2>5. h[0] = <<>>
    BY <2>1 DEF IsJoin
  <2>6. \A k \in 1 .. n + 1 : h[k] = h[k - 1] \o s[k]
    <3>1. \A k \in 1 .. n : h[k] = g[k] /\ h[k - 1] = g[k - 1]
      OBVIOUS
    <3>2. h[n + 1] = g[n] \o s[n + 1] /\ h[(n + 1) - 1] = g[n]
      OBVIOUS
    <3>3. \A k \in 1 .. n + 1 : k \in 1 .. n \/ k = n + 1
      OBVIOUS
    <3>. HIDE DEF h
    <3>. QED  BY <2>1, <3>1, <3>2, <3>3 DEF IsJoin
  <2>7. h \in [0 .. n + 1 -> Text]
    BY <2>4
  <2>. HIDE DEF h
  <2>8. IsJoin(h, s, n + 1)
    BY <2>5, <2>6, <2>7 DEF IsJoin
  <2>. QED  BY <2>8
<1>3. Len(s) \in 0 .. Len(s) /\ Len(s) \in Nat
  OBVIOUS
<1>. HIDE DEF P
<1>4. Len(s) \in P
  BY <1>1, <1>2, <1>3, SetInduction
<1>. QED  BY <1>4 DEF P

\* And the last of them is FlattenSeq of the texts.
LEMMA JoinIsFlatten ==
  ASSUME NEW s \in Seq(Text)
  PROVE  /\ IsJoin(Join(s), s, Len(s))
         /\ FlattenSeq(s) = Join(s)[Len(s)]
<1>1. IsJoin(Join(s), s, Len(s))
  BY JoinExists DEF Join
<1> DEFINE g == Join(s)
           N == Len(s)
<1>2. N \in Nat /\ s \in [1 .. N -> Text]
  OBVIOUS
<1>3. CASE N = 0
  BY <1>1, <1>2, <1>3 DEF FlattenSeq, IsJoin
<1>4. CASE N # 0
  <2> DEFINE IsFlat(f) ==
        f = [k \in 1 .. N |-> IF k = 1 THEN s[k] ELSE f[k - 1] \o s[k]]
             h == [k \in 1 .. N |-> g[k]]
             flatten == CHOOSE f : IsFlat(f)
  <2>1. IsFlat(h)
    <3>1. g[1] = s[1]
      BY <1>1, <1>2, <1>4 DEF IsJoin, Text
    <3>2. ASSUME NEW k \in 1 .. N
          PROVE  h[k] = IF k = 1 THEN s[k] ELSE h[k - 1] \o s[k]
      <4>1. k # 1 => g[k] = g[k - 1] \o s[k] /\ h[k - 1] = g[k - 1]
        BY <1>1, <1>2 DEF IsJoin
      <4>. HIDE DEF g
      <4>. QED  BY <3>1, <4>1
    <3>. QED  BY <3>2
  <2>2. IsFlat(flatten)
    <3>. HIDE DEF h, IsFlat
    <3>. QED  BY <2>1
  <2>3. FlattenSeq(s) = flatten[N]
    BY <1>4 DEF FlattenSeq
  <2>. HIDE DEF flatten
  <2>4. \A k \in 1 .. N : flatten[k] = IF k = 1 THEN s[k] ELSE flatten[k - 1] \o s[k]
    BY <2>2
  <2> DEFINE P == { n \in 0 .. N : n > 0 => flatten[n] = g[n] }
  <2>5. 0 \in P
    BY <1>2
  <2>6. ASSUME NEW n \in 0 .. N - 1, n \in P
        PROVE  n + 1 \in P
    <3>1. CASE n = 0
      <4>1. g[1] = s[1]
        BY <1>1, <1>2, <1>4 DEF IsJoin, Text
      <4>. QED  BY <1>2, <2>4, <3>1, <4>1
    <3>2. CASE n > 0
      <4>0. n + 1 \in 1 .. N /\ n + 1 # 1 /\ (n + 1) - 1 = n /\ n + 1 \in 0 .. N
        BY <1>2, <2>6, <3>2
      <4>1. flatten[n + 1] = flatten[n] \o s[n + 1]
        BY <2>4, <4>0
      <4>2. g[n + 1] = g[n] \o s[n + 1]
        BY <1>1, <4>0 DEF IsJoin
      <4>3. flatten[n] = g[n]
        BY <2>6, <3>2
      <4>. QED  BY <4>0, <4>1, <4>2, <4>3
    <3>. QED  BY <3>1, <3>2
  <2>. HIDE DEF P
  <2>7. N \in P
    <3>. HIDE DEF N
    <3>. QED  BY <1>2, <2>5, <2>6, SetInduction
  <2>. QED  BY <1>1, <1>2, <1>4, <2>3, <2>7 DEF P
<1>. QED  BY <1>1, <1>3, <1>4

\* Two texts, one after the other.
LEMMA Concat ==
  ASSUME NEW a \in Text, NEW b \in Text
  PROVE  /\ a \o b \in Text
         /\ Len(a \o b) = Len(a) + Len(b)
         /\ Len(a) \in Nat /\ Len(b) \in Nat
         /\ \A k \in 1 .. Len(a) : (a \o b)[k] = a[k]
         /\ \A k \in 1 .. Len(b) : (a \o b)[Len(a) + k] = b[k]
<1>1. \A k \in 1 .. Len(b) : Len(a) + k > Len(a) /\ (Len(a) + k) - Len(a) = k
                               /\ Len(a) + k \in 1 .. Len(a) + Len(b)
  BY DEF Text
<1>. QED  BY <1>1, ConcatProperties DEF Text

\* What comes before a text of a sequence, and the text itself, stays as more follow.
LEMMA JoinPrefix ==
  ASSUME NEW s \in Seq(Text), NEW n \in 0 .. Len(s), NEW m \in n .. Len(s)
  PROVE  /\ Len(Join(s)[n]) <= Len(Join(s)[m])
         /\ \A k \in 1 .. Len(Join(s)[n]) : Join(s)[m][k] = Join(s)[n][k]
<1> DEFINE g == Join(s)
           Extends(d) == /\ Len(g[n]) <= Len(g[n + d])
                         /\ \A k \in 1 .. Len(g[n]) : g[n + d][k] = g[n][k]
           P == { d \in 0 .. Len(s) - n : Extends(d) }
<1>1. IsJoin(g, s, Len(s)) /\ Len(s) \in Nat /\ s \in [1 .. Len(s) -> Text]
  BY JoinIsFlatten
<1>. HIDE DEF g
<1>2. 0 \in P
  BY <1>1 DEF IsJoin, Text
<1>3. ASSUME NEW d \in 0 .. Len(s) - n - 1, d \in P
      PROVE  d + 1 \in P
  <2>1. n + d + 1 \in 1 .. Len(s) /\ n + d \in 0 .. Len(s) /\ n + d + 1 \in 0 .. Len(s)
    BY <1>1
  <2>2. g[n + d + 1] = g[n + d] \o s[n + d + 1]
    <3>1. (n + d + 1) - 1 = n + d
      BY <1>1
    <3>. QED  BY <1>1, <2>1, <3>1 DEF IsJoin
  <2>3. g[n] \in Text /\ g[n + d] \in Text /\ s[n + d + 1] \in Text
    BY <1>1, <2>1 DEF IsJoin
  <2> DEFINE x == g[n]
             y == g[n + d]
             z == g[n + d + 1]
  <2>4. z = y \o s[n + d + 1] /\ x \in Text /\ y \in Text
    BY <2>2, <2>3
  <2>5. Len(x) <= Len(y) /\ \A k \in 1 .. Len(x) : y[k] = x[k]
    BY <1>3
  <2>. HIDE DEF x, y, z
  <2>6. /\ Len(x) \in Nat /\ Len(y) \in Nat /\ Len(y) <= Len(z) /\ Len(z) \in Nat
        /\ \A k \in 1 .. Len(y) : z[k] = y[k]
    BY <2>3, <2>4, Concat DEF Text
  <2>7. Len(x) <= Len(z)
    BY <2>5, <2>6
  <2>8. \A k \in 1 .. Len(x) : z[k] = x[k]
    <3>1. \A k \in 1 .. Len(x) : k \in 1 .. Len(y)
      BY <2>5, <2>6
    <3>. QED  BY <2>5, <2>6, <3>1
  <2>9. n + (d + 1) = n + d + 1 /\ d + 1 \in 0 .. Len(s) - n
    BY <1>1
  <2>. QED  BY <2>7, <2>8, <2>9 DEF x, z
<1>4. m - n \in 0 .. Len(s) - n /\ Len(s) - n \in Nat /\ n + (m - n) = m
  BY <1>1
<1>. HIDE DEF P
<1>5. m - n \in P
  BY <1>2, <1>3, <1>4, SetInduction
<1>. QED  BY <1>4, <1>5 DEF P, g

\* Where a text of a sequence is in their concatenation.
LEMMA TextInFlatten ==
  ASSUME NEW s \in Seq(Text), NEW n \in 0 .. Len(s) - 1
  PROVE  /\ FlattenSeq(s) \in Text /\ Join(s)[n] \in Text /\ s[n + 1] \in Text
         /\ Join(s)[n + 1] = Join(s)[n] \o s[n + 1]
         /\ Len(Join(s)[n + 1]) = Len(Join(s)[n]) + Len(s[n + 1])
         /\ Len(Join(s)[n + 1]) <= Len(FlattenSeq(s))
         /\ \A k \in 1 .. Len(s[n + 1]) :
              FlattenSeq(s)[Len(Join(s)[n]) + k] = s[n + 1][k]
<1> DEFINE g == Join(s)
           f == FlattenSeq(s)
<1>1. /\ IsJoin(g, s, Len(s)) /\ Len(s) \in Nat /\ s \in [1 .. Len(s) -> Text]
      /\ f = g[Len(s)]
  BY JoinIsFlatten
<1>2. n + 1 \in 1 .. Len(s) /\ n \in 0 .. Len(s) /\ n + 1 \in 0 .. Len(s) /\ (n + 1) - 1 = n
  BY <1>1
<1>3. Len(s) \in 0 .. Len(s) /\ Len(s) \in n + 1 .. Len(s)
  BY <1>1
<1>4. /\ Len(g[n + 1]) <= Len(f)
      /\ \A k \in 1 .. Len(g[n + 1]) : f[k] = g[n + 1][k]
  BY <1>1, <1>2, <1>3, JoinPrefix
<1>. HIDE DEF g, f
<1>5. f \in Text /\ g[n] \in Text /\ s[n + 1] \in Text
  BY <1>1, <1>2, <1>3 DEF IsJoin
<1>6. g[n + 1] = g[n] \o s[n + 1]
  BY <1>1, <1>2 DEF IsJoin
<1> DEFINE a == g[n]
           b == s[n + 1]
           c == g[n + 1]
<1>7. /\ a \in Text /\ b \in Text /\ c = a \o b /\ Len(c) <= Len(f)
      /\ \A k \in 1 .. Len(c) : f[k] = c[k]
  BY <1>4, <1>5, <1>6
<1>. HIDE DEF a, b, c
<1>8. /\ Len(a) \in Nat /\ Len(b) \in Nat
      /\ Len(c) = Len(a) + Len(b)
      /\ \A k \in 1 .. Len(b) : c[Len(a) + k] = b[k]
  BY <1>7, Concat
<1>9. \A k \in 1 .. Len(b) : Len(a) + k \in 1 .. Len(c)
  BY <1>8
<1>10. \A k \in 1 .. Len(b) : f[Len(a) + k] = b[k]
  BY <1>7, <1>8, <1>9
<1>. QED  BY <1>5, <1>7, <1>8, <1>10 DEF a, b, c, f, g

-----------------------------------------------------------------------------
\* What the first pass makes of a character, and of the characters of the title.
Replaced(c) == IF IsLetter(c) THEN <<Letter[c]>> ELSE c
AllReplaced == [k \in DOMAIN title |-> Replaced(title[k])]

\* What the second pass makes of a byte.
Lowered(b) == IF IsKept(ToLower(b)) THEN ToLower(b) ELSE Underscore

\* The title is a sequence of characters, and src its bytes.
IsTitle == title \in Seq(Characters) /\ src = FlattenSeq(title)

\* No byte that starts a letter of the table continues a character, none that ends
\* one starts a character.
LEMMA TableBytes ==
  ASSUME NEW j \in DOMAIN Nw
  PROVE  Old[2 * j - 1] \in {195, 197} /\ Old[2 * j] \in 128 .. 191
<1>1. \/ j = 1 \/ j = 2 \/ j = 3 \/ j = 4 \/ j = 5 \/ j = 6 \/ j = 7 \/ j = 8
      \/ j = 9 \/ j = 10 \/ j = 11 \/ j = 12 \/ j = 13 \/ j = 14 \/ j = 15
      \/ j = 16 \/ j = 17
  BY DEF Nw
<1>. QED  BY <1>1 DEF Old

\* Characters are texts.
LEMMA TitleTexts ==
  ASSUME IsTitle
  PROVE  /\ title \in Seq(Text) /\ Len(title) \in Nat
         /\ src \in Text
         /\ \A k \in 1 .. Len(title) :
              /\ title[k] \in Characters /\ title[k] \in Text
              /\ Len(title[k]) \in Nat \ {0}
<1>1. \A c \in Characters : c \in Text /\ Len(c) \in Nat \ {0}
  BY CharactersAssumption DEF Text
<1>2. title \in Seq(Text)
  BY <1>1 DEF IsTitle
<1>3. src \in Text
  <2>1. /\ IsJoin(Join(title), title, Len(title))
        /\ FlattenSeq(title) = Join(title)[Len(title)]
    BY <1>2, JoinIsFlatten
  <2>2. Len(title) \in 0 .. Len(title)
    BY <1>2
  <2>. QED  BY <2>1, <2>2 DEF IsJoin, IsTitle
<1>. QED  BY <1>1, <1>2, <1>3 DEF IsTitle

\* Where the bytes of a character are in src.
LEMMA CharacterInSource ==
  ASSUME IsTitle, NEW n \in 0 .. Len(title) - 1
  PROVE  /\ Join(title)[n] \in Text
         /\ Len(Join(title)[n]) \in Nat
         /\ Len(Join(title)[n + 1]) = Len(Join(title)[n]) + Len(title[n + 1])
         /\ Len(Join(title)[n + 1]) <= Len(src)
         /\ \A k \in 1 .. Len(title[n + 1]) :
              src[Len(Join(title)[n]) + k] = title[n + 1][k]
<1> DEFINE p == Len(Join(title)[n])
<1>1. title \in Seq(Text) /\ src = FlattenSeq(title)
  BY TitleTexts DEF IsTitle
<1>2. /\ Join(title)[n] \in Text
      /\ Len(Join(title)[n + 1]) = p + Len(title[n + 1])
      /\ Len(Join(title)[n + 1]) <= Len(src)
      /\ \A k \in 1 .. Len(title[n + 1]) : src[p + k] = title[n + 1][k]
  BY <1>1, TextInFlatten
<1>3. p \in Nat
  BY <1>2 DEF Text
<1>. QED  BY <1>2, <1>3

\* A letter of the table is found where it starts, as itself.
LEMMA LetterFound ==
  ASSUME IsTitle, LettersListed, NEW n \in 0 .. Len(title) - 1, IsLetter(title[n + 1])
  PROVE  /\ Len(title[n + 1]) = 2
         /\ Pair(Len(Join(title)[n]) + 1) # {}
         /\ \A j \in Pair(Len(Join(title)[n]) + 1) : Nw[j] = Letter[title[n + 1]]
<1> DEFINE c == title[n + 1]
           p == Len(Join(title)[n])
<1>1. n + 1 \in 1 .. Len(title) /\ c \in Characters /\ c \in Text /\ Len(title) \in Nat
  BY TitleTexts
<1>2. PICK j \in DOMAIN Nw : c = <<Old[2 * j - 1], Old[2 * j]>>
  BY <1>1 DEF LettersListed
<1>3. Len(c) = 2 /\ c[1] = Old[2 * j - 1] /\ c[2] = Old[2 * j]
  BY <1>2
<1>4. /\ p \in Nat /\ Len(src) \in Nat /\ p + Len(c) <= Len(src)
      /\ \A k \in 1 .. Len(c) : src[p + k] = c[k]
  <2>1. Len(src) \in Nat
    BY TitleTexts DEF Text
  <2>. QED  BY <2>1, CharacterInSource
<1>. HIDE DEF c, p
<1>5. src[p + 1] = c[1] /\ src[(p + 1) + 1] = c[2] /\ p + 1 < Len(src)
  <2>1. p + 2 = (p + 1) + 1
    BY <1>4
  <2>. QED  BY <1>3, <1>4, <2>1
<1>6. j \in Pair(p + 1)
  BY <1>3, <1>5 DEF Pair
<1>7. ASSUME NEW k \in Pair(p + 1)
      PROVE  Nw[k] = Letter[c]
  <2>1. k \in DOMAIN Nw /\ c[1] = Old[2 * k - 1] /\ c[2] = Old[2 * k]
    BY <1>5 DEF Pair
  <2>2. c = <<Old[2 * k - 1], Old[2 * k]>>
    BY <1>2, <1>3, <2>1
  <2>. QED  BY <1>1, <2>1, <2>2 DEF LettersListed
<1>. QED  BY <1>3, <1>6, <1>7 DEF c, p

\* A letter found in another character starts at the only byte of it, and ends with
\* one that continues a character.
LEMMA FoundElsewhere ==
  ASSUME LettersListed, NEW c \in Characters, ~ IsLetter(c), NEW p \in Nat,
         \A k \in 1 .. Len(c) : src[p + k] = c[k],
         NEW q \in 1 .. Len(c), NEW j \in Pair(p + q)
  PROVE  q = 1 /\ Len(c) = 1 /\ p + q < Len(src) /\ src[p + 2] \in 128 .. 191
<1>1. c \in Text /\ Len(c) \in Nat /\ q \in Nat \ {0} /\ q <= Len(c)
  BY CharactersAssumption DEF Text
<1>2. /\ j \in DOMAIN Nw /\ p + q < Len(src)
      /\ src[p + q] = Old[2 * j - 1]
      /\ src[p + q + 1] = Old[2 * j]
  BY DEF Pair
<1> DEFINE first == Old[2 * j - 1]
           second == Old[2 * j]
<1>3. first \in {195, 197} /\ second \in 128 .. 191
  BY <1>2, TableBytes
<1>4. c[q] = first /\ src[p + q + 1] = second /\ c # <<first, second>>
  BY <1>2 DEF LettersListed
<1>. HIDE DEF first, second
<1>5. q = 1
  <2>1. q \in 2 .. Len(c) => c[q] \in 128 .. 191
    BY CharactersAssumption
  <2>. QED  BY <1>1, <1>3, <1>4, <2>1
<1>6. Len(c) <= 2
  <2>1. c[1] \in 192 .. 223 => Len(c) <= 2
    BY CharactersAssumption
  <2>2. first \in 192 .. 223
    BY <1>3
  <2>3. c[1] = first
    BY <1>4, <1>5
  <2>. QED  BY <2>1, <2>2, <2>3
<1>7. src[p + 2] = second
  BY <1>4, <1>5
<1>8. Len(c) # 2
  <2>. SUFFICES ASSUME Len(c) = 2 PROVE FALSE
    OBVIOUS
  <2>1. c[2] = second
    BY <1>7
  <2>. QED  BY <1>1, <1>4, <1>5, <2>1 DEF Text
<1>9. Len(c) = 1
  <2> DEFINE l == Len(c)
  <2>1. l \in Nat /\ l # 0 /\ l <= 2 /\ l # 2
    BY <1>1, <1>6, <1>8
  <2>. HIDE DEF l
  <2>2. l = 1
    BY <2>1
  <2>. QED  BY <2>2 DEF l
<1>. QED  BY <1>2, <1>3, <1>5, <1>7, <1>9

\* No letter is found within another character, nor across its end.
LEMMA NoneFound ==
  ASSUME IsTitle, LettersListed, NEW n \in 0 .. Len(title) - 1, ~ IsLetter(title[n + 1]),
         NEW q \in 1 .. Len(title[n + 1])
  PROVE  Pair(Len(Join(title)[n]) + q) = {}
<1> DEFINE c == title[n + 1]
           p == Len(Join(title)[n])
<1>1. n + 1 \in 1 .. Len(title) /\ c \in Characters /\ Len(title) \in Nat
  BY TitleTexts
<1>2. /\ p \in Nat
      /\ \A k \in 1 .. Len(c) : src[p + k] = c[k]
  BY CharacterInSource
<1>. SUFFICES ASSUME NEW j \in Pair(p + q) PROVE FALSE
  OBVIOUS
<1>3. q = 1 /\ Len(c) = 1 /\ p + q < Len(src) /\ src[p + 2] \in 128 .. 191
  BY <1>1, <1>2, FoundElsewhere
<1>4. Len(Join(title)[n + 1]) = p + Len(c)
  BY CharacterInSource
<1>. HIDE DEF p, c
<1>5. Len(Join(title)[n + 1]) = p + 1 /\ Len(Join(title)[n + 1]) < Len(src)
  BY <1>2, <1>3, <1>4
<1>6. n + 1 # Len(title)
  <2>1. src = Join(title)[Len(title)]
    BY JoinIsFlatten, TitleTexts DEF IsTitle
  <2>2. Len(src) \in Nat
    BY TitleTexts DEF Text
  <2>. QED  BY <1>2, <1>5, <2>1, <2>2
<1>7. n + 1 \in 0 .. Len(title) - 1 /\ (n + 1) + 1 \in 1 .. Len(title)
  BY <1>1, <1>6
<1> DEFINE d == title[(n + 1) + 1]
<1>8. d \in Characters /\ Len(d) \in Nat \ {0}
  BY <1>7, TitleTexts
<1>9. src[Len(Join(title)[n + 1]) + 1] = d[1]
  <2>1. \A k \in 1 .. Len(d) : src[Len(Join(title)[n + 1]) + k] = d[k]
    BY <1>7, CharacterInSource
  <2>2. 1 \in 1 .. Len(d)
    BY <1>8
  <2>. QED  BY <2>1, <2>2
<1>10. Len(Join(title)[n + 1]) + 1 = p + 2
  BY <1>2, <1>5
<1>11. d[1] \notin 128 .. 191
  BY <1>8, CharactersAssumption
<1>. QED  BY <1>3, <1>9, <1>10, <1>11

-----------------------------------------------------------------------------
\* What the first pass makes of the title is a sequence of texts, none longer than
\* its character.
LEMMA ReplacedTexts ==
  ASSUME IsTitle
  PROVE  /\ AllReplaced \in Seq(Text) /\ Len(AllReplaced) = Len(title)
         /\ \A k \in 1 .. Len(title) :
              /\ AllReplaced[k] = Replaced(title[k])
              /\ Replaced(title[k]) \in Text
              /\ Len(Replaced(title[k])) <= Len(title[k])
<1>1. /\ title \in Seq(Text) /\ Len(title) \in Nat /\ DOMAIN title = 1 .. Len(title)
      /\ \A k \in 1 .. Len(title) :
           title[k] \in Characters /\ title[k] \in Text /\ Len(title[k]) \in Nat \ {0}
  BY TitleTexts
<1>2. ASSUME NEW c \in Text, Len(c) \in Nat \ {0}
      PROVE  Replaced(c) \in Text /\ Len(Replaced(c)) <= Len(c)
  <2>1. CASE IsLetter(c)
    <3>1. Letter[c] \in 0 .. 255
      BY <2>1, LetterAssumption DEF IsLetter
    <3>2. <<Letter[c]>> \in Text /\ Len(<<Letter[c]>>) = 1
      BY <3>1 DEF Text
    <3>. QED  BY <1>2, <2>1, <3>2 DEF Replaced
  <2>2. CASE ~ IsLetter(c)
    BY <1>2, <2>2 DEF Replaced
  <2>. QED  BY <2>1, <2>2
<1>3. \A k \in 1 .. Len(title) :
        /\ AllReplaced[k] = Replaced(title[k])
        /\ Replaced(title[k]) \in Text
        /\ Len(Replaced(title[k])) <= Len(title[k])
  BY <1>1, <1>2 DEF AllReplaced
<1>4. AllReplaced \in [1 .. Len(title) -> Text]
  BY <1>1, <1>3 DEF AllReplaced
<1>. QED  BY <1>1, <1>3, <1>4

\* The next character adds what it is replaced by.
LEMMA ReplacedNext ==
  ASSUME IsTitle, NEW n \in 0 .. Len(title) - 1
  PROVE  /\ Join(AllReplaced)[0] = <<>>
         /\ Join(AllReplaced)[n] \in Text /\ Join(AllReplaced)[n + 1] \in Text
         /\ Join(AllReplaced)[n + 1] = Join(AllReplaced)[n] \o Replaced(title[n + 1])
         /\ Replaced(title[n + 1]) \in Text
         /\ Len(Replaced(title[n + 1])) <= Len(title[n + 1])
<1>1. n + 1 \in 1 .. Len(title) /\ n \in 0 .. Len(title) /\ n + 1 \in 0 .. Len(title)
  BY TitleTexts
<1>2. /\ AllReplaced \in Seq(Text) /\ Len(AllReplaced) = Len(title)
      /\ AllReplaced[n + 1] = Replaced(title[n + 1])
      /\ Replaced(title[n + 1]) \in Text
      /\ Len(Replaced(title[n + 1])) <= Len(title[n + 1])
  BY <1>1, ReplacedTexts
<1>3. IsJoin(Join(AllReplaced), AllReplaced, Len(title))
  BY <1>2, JoinIsFlatten
<1>4. Join(AllReplaced)[n + 1] = Join(AllReplaced)[n] \o AllReplaced[n + 1]
  BY <1>2, TextInFlatten
<1>. QED  BY <1>1, <1>2, <1>3, <1>4 DEF IsJoin

\* The text is no longer for what the first pass makes of it.
LEMMA ReplacedShorter ==
  ASSUME IsTitle
  PROVE  \A n \in 0 .. Len(title) :
           /\ Join(AllReplaced)[n] \in Text
           /\ Len(Join(AllReplaced)[n]) <= Len(Join(title)[n])
<1> DEFINE G == Join(title)
           H == Join(AllReplaced)
           P == { n \in 0 .. Len(title) : H[n] \in Text /\ Len(H[n]) <= Len(G[n]) }
<1>1. /\ Len(title) \in Nat
      /\ IsJoin(G, title, Len(title)) /\ IsJoin(H, AllReplaced, Len(title))
  BY TitleTexts, ReplacedTexts, JoinIsFlatten
<1>2. 0 \in P
  BY <1>1 DEF IsJoin, Text
<1>3. ASSUME NEW n \in 0 .. Len(title) - 1, n \in P
      PROVE  n + 1 \in P
  <2> DEFINE a == H[n]
             b == Replaced(title[n + 1])
             l == Len(G[n])
             m == Len(title[n + 1])
  <2>1. /\ a \in Text /\ b \in Text /\ H[n + 1] = a \o b
        /\ H[n + 1] \in Text /\ Len(b) <= m
    BY ReplacedNext
  <2>2. l \in Nat /\ Len(G[n + 1]) = l + m
    BY CharacterInSource
  <2>3. m \in Nat /\ n + 1 \in 0 .. Len(title)
    <3>1. n + 1 \in 1 .. Len(title)
      BY <1>1
    <3>. QED  BY <3>1, TitleTexts
  <2>4. Len(a) <= l
    BY <1>3
  <2>. HIDE DEF a, b, l, m, G, H
  <2>5. Len(a) \in Nat /\ Len(b) \in Nat /\ Len(a \o b) = Len(a) + Len(b)
    BY <2>1, Concat
  <2>6. Len(H[n + 1]) <= Len(G[n + 1])
    BY <2>1, <2>2, <2>3, <2>4, <2>5
  <2>. QED  BY <2>1, <2>3, <2>6
<1>. HIDE DEF P
<1>4. 0 .. Len(title) \subseteq P
  BY <1>1, <1>2, <1>3, SetInduction
<1>. QED  BY <1>4 DEF P

-----------------------------------------------------------------------------
\* The first pass is at a character, of which it has kept p bytes: none of a letter.
AtByte(n, p, a, r) ==
  /\ p > 0 => ~ IsLetter(title[n + 1])
  /\ a = Len(Join(title)[n]) + p + 1
  /\ r = Join(AllReplaced)[n] \o SubSeq(title[n + 1], 1, p)

\* It is, at position a with the result r, or it has ended.
Replacing(a, r) ==
  \/ a = Len(src) + 1 /\ r = Join(AllReplaced)[Len(title)]
  \/ \E n \in 0 .. Len(title) - 1 :
       \E p \in 0 .. Len(title[n + 1]) - 1 : AtByte(n, p, a, r)

\* The second pass has come to position a.
Lowering(a, r) ==
  LET h == Join(AllReplaced)[Len(title)] IN
  /\ r \in Text /\ Len(r) = Len(h)
  /\ a \in 1 .. Len(h) + 1
  /\ \A k \in 1 .. Len(h) : r[k] = IF k < a THEN Lowered(h[k]) ELSE h[k]

SInv ==
  /\ title \in BoundedSeq(Characters, MaxLength)
  /\ IsTitle
  /\ pass \in {"replace", "lower", "done"}
  /\ pass = "replace" => Replacing(at, res)
  /\ pass \in {"lower", "done"} => Lowering(at, res)
  /\ pass = "done" => at = Len(res) + 1

\* After a character comes the next, or the end.
LEMMA CharacterDone ==
  ASSUME IsTitle, NEW n \in 0 .. Len(title), NEW a, NEW r,
         a = Len(Join(title)[n]) + 1, r = Join(AllReplaced)[n]
  PROVE  Replacing(a, r)
<1>1. Len(title) \in Nat /\ title \in Seq(Text) /\ src = FlattenSeq(title)
  BY TitleTexts DEF IsTitle
<1>2. CASE n = Len(title)
  <2>1. src = Join(title)[n]
    BY <1>1, <1>2, JoinIsFlatten
  <2>. QED  BY <1>2, <2>1 DEF Replacing
<1>3. CASE n # Len(title)
  <2>1. n \in 0 .. Len(title) - 1 /\ n + 1 \in 1 .. Len(title)
    BY <1>1, <1>3
  <2> DEFINE c == title[n + 1]
             g == Join(title)[n]
             h == Join(AllReplaced)[n]
  <2>2. c \in Text /\ Len(c) \in Nat \ {0} /\ h \in Text /\ Len(g) \in Nat
    BY <2>1, TitleTexts, ReplacedShorter, CharacterInSource
  <2>3. a = Len(g) + 1 /\ r = h
    OBVIOUS
  <2>. HIDE DEF c, g, h
  <2>4. SubSeq(c, 1, 0) = <<>> /\ h \o <<>> = h
    BY <2>2 DEF Text
  <2>5. a = Len(g) + 0 + 1 /\ r = h \o SubSeq(c, 1, 0) /\ 0 \in 0 .. Len(c) - 1
    <3>1. Len(g) + 0 + 1 = Len(g) + 1 /\ 0 \in 0 .. Len(c) - 1
      BY <2>2
    <3>. QED  BY <2>3, <2>4, <3>1
  <2>6. AtByte(n, 0, a, r)
    BY <2>5 DEF AtByte, c, g, h
  <2>. QED  BY <2>1, <2>5, <2>6 DEF Replacing, c
<1>. QED  BY <1>2, <1>3

\* The first bytes of a text.
LEMMA FirstBytes ==
  ASSUME NEW c \in Text, NEW m \in 0 .. Len(c)
  PROVE  /\ SubSeq(c, 1, m) \in Text /\ Len(SubSeq(c, 1, m)) = m
         /\ \A k \in 1 .. m : SubSeq(c, 1, m)[k] = c[k]
<1>1. Len(c) \in Nat /\ m \in Int /\ m >= 0 /\ m <= Len(c) /\ m \in Nat
  BY DEF Text
<1>2. \A k \in 1 .. m : c[k] \in 0 .. 255
  <2>1. \A k \in 1 .. Len(c) : c[k] \in 0 .. 255
    BY ElementOfSeq DEF Text
  <2>2. \A k \in 1 .. m : k \in 1 .. Len(c)
    BY <1>1
  <2>. QED  BY <2>1, <2>2
<1>3. /\ SubSeq(c, 1, m) \in Seq(0 .. 255)
      /\ Len(SubSeq(c, 1, m)) = IF 1 <= m THEN m - 1 + 1 ELSE 0
      /\ \A k \in 1 .. m - 1 + 1 : SubSeq(c, 1, m)[k] = c[1 + k - 1]
  BY <1>1, <1>2, SubSeqProperties
<1> DEFINE x == SubSeq(c, 1, m)
<1>. HIDE DEF x
<1>4. Len(x) = m
  BY <1>1, <1>3 DEF x
<1>5. ASSUME NEW k \in 1 .. m PROVE x[k] = c[k]
  <2>1. k \in 1 .. m - 1 + 1 /\ 1 + k - 1 = k
    BY <1>1
  <2>2. x[k] = c[1 + k - 1]
    BY <1>3, <2>1 DEF x
  <2>. QED  BY <2>1, <2>2
<1>. QED  BY <1>3, <1>4, <1>5 DEF x, Text

\* A text and the next byte of a character.
LEMMA AppendByte ==
  ASSUME NEW h \in Text, NEW c \in Text, NEW p \in 0 .. Len(c) - 1
  PROVE  /\ Append(h \o SubSeq(c, 1, p), c[p + 1]) = h \o SubSeq(c, 1, p + 1)
         /\ SubSeq(c, 1, Len(c)) = c
<1> DEFINE x == SubSeq(c, 1, p)
           y == SubSeq(c, 1, p + 1)
<1>1. /\ x \in Text /\ Len(x) = p /\ \A k \in 1 .. p : x[k] = c[k]
      /\ y \in Text /\ Len(y) = p + 1 /\ \A k \in 1 .. p + 1 : y[k] = c[k]
      /\ Len(c) \in Nat /\ p \in Nat
  <2>1. /\ Len(c) \in Nat /\ p \in Nat
        /\ p \in 0 .. Len(c) /\ p + 1 \in 0 .. Len(c)
    <3>1. Len(c) \in Nat
      BY DEF Text
    <3>. QED  BY <3>1
  <2>. QED  BY <2>1, FirstBytes
<1>2. c[p + 1] \in 0 .. 255
  BY <1>1 DEF Text
<1>. HIDE DEF x, y
<1> DEFINE l == h \o x
           m == Append(l, c[p + 1])
           r == h \o y
<1>3. /\ l \in Text /\ Len(l) = Len(h) + p /\ Len(h) \in Nat
      /\ \A k \in 1 .. Len(h) : l[k] = h[k]
      /\ \A k \in 1 .. p : l[Len(h) + k] = c[k]
  BY <1>1, Concat
<1>4. /\ r \in Text /\ Len(r) = Len(h) + (p + 1)
      /\ \A k \in 1 .. Len(h) : r[k] = h[k]
      /\ \A k \in 1 .. p + 1 : r[Len(h) + k] = c[k]
  <2>1. /\ r \in Text /\ Len(r) = Len(h) + Len(y)
        /\ \A k \in 1 .. Len(h) : r[k] = h[k]
        /\ \A k \in 1 .. Len(y) : r[Len(h) + k] = y[k]
    BY <1>1, Concat
  <2>. HIDE DEF r
  <2>. QED  BY <1>1, <2>1
<1>. HIDE DEF l, r
<1>5. /\ m \in Text /\ Len(m) = Len(l) + 1
      /\ \A k \in 1 .. Len(l) : m[k] = l[k]
      /\ m[Len(l) + 1] = c[p + 1]
  <2>1. l \in Seq(0 .. 255) /\ c[p + 1] \in 0 .. 255
    BY <1>2, <1>3 DEF Text
  <2>. QED  BY <2>1 DEF Text
<1>. HIDE DEF m
<1>6. ASSUME NEW k \in 1 .. Len(m)
      PROVE  m[k] = r[k]
  <2>4. k \in Nat /\ Len(l) \in Nat
    BY <1>1, <1>3
  <2>1. CASE k <= Len(h)
    <3>1. k \in 1 .. Len(l) /\ k \in 1 .. Len(h)
      BY <1>1, <1>3, <2>1
    <3>. QED  BY <1>3, <1>4, <1>5, <3>1
  <2>2. CASE k > Len(h) /\ k <= Len(l)
    <3>1. k - Len(h) \in 1 .. p /\ k - Len(h) \in 1 .. p + 1 /\ k = Len(h) + (k - Len(h))
      BY <1>1, <1>3, <2>2
    <3>2. k \in 1 .. Len(l)
      BY <1>1, <1>3, <2>2
    <3>. QED  BY <1>3, <1>4, <1>5, <3>1, <3>2
  <2>3. CASE k > Len(l)
    <3>1. k = Len(l) + 1
      BY <1>3, <1>5, <2>3, <2>4
    <3>2. k = Len(h) + (p + 1) /\ p + 1 \in 1 .. p + 1
      BY <1>1, <1>3, <3>1
    <3>. QED  BY <1>4, <1>5, <3>1, <3>2
  <2>. QED  BY <1>3, <2>1, <2>2, <2>3, <2>4
<1>7. m = r
  <2>1. Len(m) = Len(r)
    BY <1>1, <1>3, <1>4, <1>5
  <2>. QED  BY <1>4, <1>5, <1>6, <2>1, SeqEqual DEF Text
<1>8. SubSeq(c, 1, Len(c)) = c
  BY <1>1 DEF Text
<1>. QED  BY <1>7, <1>8 DEF l, m, r, x, y

\* Before the end the first pass is at a byte of a character.
LEMMA WithinTitle ==
  ASSUME IsTitle, Replacing(at, res), at <= Len(src)
  PROVE  \E n \in 0 .. Len(title) - 1 :
           \E p \in 0 .. Len(title[n + 1]) - 1 : AtByte(n, p, at, res)
<1>1. Len(src) \in Nat
  BY TitleTexts DEF Text
<1>. QED  BY <1>1 DEF Replacing

\* A letter is replaced as a whole.
LEMMA ReplaceStep ==
  ASSUME IsTitle, LettersListed, Replacing(at, res), Replace
  PROVE  Replacing(at', res')
<1>0. PICK n \in 0 .. Len(title) - 1 :
        \E p \in 0 .. Len(title[n + 1]) - 1 : AtByte(n, p, at, res)
  BY WithinTitle DEF Replace
<1>1. PICK p \in 0 .. Len(title[n + 1]) - 1 : AtByte(n, p, at, res)
  BY <1>0
<1>2. PICK j \in Pair(at) : res' = Append(res, Nw[j])
  BY DEF Replace
<1>3. n + 1 \in 1 .. Len(title) /\ n + 1 \in 0 .. Len(title)
  BY TitleTexts
<1> DEFINE c == title[n + 1]
           l == Len(Join(title)[n])
           h == Join(AllReplaced)[n]
<1>4. /\ c \in Text /\ Len(c) \in Nat \ {0} /\ c \in Characters
      /\ l \in Nat /\ Len(Join(title)[n + 1]) = l + Len(c)
  BY <1>3, TitleTexts, CharacterInSource
<1>5. p \in Nat /\ p + 1 \in 1 .. Len(c) /\ at = l + (p + 1)
  <2>1. p \in Nat /\ p + 1 \in 1 .. Len(c)
    BY <1>4
  <2>2. at = l + p + 1
    BY <1>1 DEF AtByte
  <2>. HIDE DEF l
  <2>. QED  BY <1>4, <2>1, <2>2
<1>6. IsLetter(c)
  BY <1>2, <1>5, NoneFound
<1>7. p = 0 /\ at = l + 1
  BY <1>1, <1>5, <1>6 DEF AtByte
<1>8. Len(c) = 2 /\ Nw[j] = Letter[c]
  BY <1>2, <1>6, <1>7, LetterFound
<1>9. at' = Len(Join(title)[n + 1]) + 1
  <2>1. at' = at + 2
    BY DEF Replace
  <2>. QED  BY <1>4, <1>7, <1>8, <2>1
<1>10. res' = Join(AllReplaced)[n + 1]
  <2>1. /\ h \in Text /\ Join(AllReplaced)[n + 1] = h \o Replaced(c)
        /\ Replaced(c) \in Text
    BY ReplacedNext
  <2>2. Replaced(c) = <<Letter[c]>> /\ Letter[c] \in 0 .. 255
    BY <1>6, LetterAssumption DEF Replaced, IsLetter
  <2>3. res = h \o SubSeq(c, 1, 0)
    BY <1>1, <1>7 DEF AtByte
  <2>. HIDE DEF c, h
  <2>4. SubSeq(c, 1, 0) = <<>> /\ h \o <<>> = h
    BY <1>4, <2>1 DEF Text
  <2>5. Append(h, Letter[c]) = h \o <<Letter[c]>>
    BY <2>1, <2>2 DEF Text
  <2>. QED  BY <1>2, <1>8, <2>1, <2>2, <2>3, <2>4, <2>5
<1>. QED  BY <1>3, <1>9, <1>10, CharacterDone

\* Any other byte is kept.
LEMMA KeepStep ==
  ASSUME IsTitle, LettersListed, Replacing(at, res), Keep
  PROVE  Replacing(at', res')
<1>0. PICK n \in 0 .. Len(title) - 1 :
        \E p \in 0 .. Len(title[n + 1]) - 1 : AtByte(n, p, at, res)
  BY WithinTitle DEF Keep
<1>1. PICK p \in 0 .. Len(title[n + 1]) - 1 : AtByte(n, p, at, res)
  BY <1>0
<1>2. Pair(at) = {} /\ res' = Append(res, src[at]) /\ at' = at + 1
  BY DEF Keep
<1>3. n + 1 \in 1 .. Len(title) /\ n + 1 \in 0 .. Len(title)
  BY TitleTexts
<1> DEFINE c == title[n + 1]
           l == Len(Join(title)[n])
           h == Join(AllReplaced)[n]
<1>4. /\ c \in Text /\ Len(c) \in Nat \ {0} /\ c \in Characters
      /\ l \in Nat /\ Len(Join(title)[n + 1]) = l + Len(c)
      /\ \A k \in 1 .. Len(c) : src[l + k] = c[k]
  BY <1>3, TitleTexts, CharacterInSource
<1>5. p \in Nat /\ p + 1 \in 1 .. Len(c) /\ at = l + (p + 1)
  <2>1. p \in Nat /\ p + 1 \in 1 .. Len(c)
    BY <1>4
  <2>2. at = l + p + 1
    BY <1>1 DEF AtByte
  <2>. HIDE DEF l
  <2>. QED  BY <1>4, <2>1, <2>2
<1>6. ~ IsLetter(c)
  <2>. SUFFICES ASSUME IsLetter(c) PROVE FALSE
    OBVIOUS
  <2>1. p = 0 /\ at = l + 1
    BY <1>1, <1>5 DEF AtByte
  <2>. QED  BY <1>2, <2>1, LetterFound
<1>7. /\ h \in Text /\ Join(AllReplaced)[n + 1] = h \o c
  BY <1>6, ReplacedNext DEF Replaced
<1>8. res = h \o SubSeq(c, 1, p)
  BY <1>1 DEF AtByte
<1>9. src[at] = c[p + 1]
  BY <1>4, <1>5
<1>. HIDE DEF c, l, h
<1>10. res' = h \o SubSeq(c, 1, p + 1) /\ SubSeq(c, 1, Len(c)) = c
  <2>1. p \in 0 .. Len(c) - 1
    BY DEF c
  <2>. QED  BY <1>2, <1>4, <1>7, <1>8, <1>9, <2>1, AppendByte
<1>11. at' = l + (p + 1) + 1
  BY <1>2, <1>4, <1>5
<1>12. CASE p + 1 = Len(c)
  <2>1. res' = Join(AllReplaced)[n + 1]
    BY <1>7, <1>10, <1>12
  <2>2. at' = Len(Join(title)[n + 1]) + 1
    BY <1>4, <1>11, <1>12
  <2>. QED  BY <1>3, <2>1, <2>2, CharacterDone
<1>13. CASE p + 1 # Len(c)
  <2>1. p + 1 \in 0 .. Len(c) - 1
    BY <1>4, <1>5, <1>13
  <2>2. AtByte(n, p + 1, at', res')
    BY <1>6, <1>10, <1>11 DEF AtByte, c, l, h
  <2>. QED  BY <2>1, <2>2 DEF Replacing, c
<1>. QED  BY <1>12, <1>13

\* The second pass starts with what the first has made.
LEMMA SecondStep ==
  ASSUME IsTitle, Replacing(at, res), Second
  PROVE  Lowering(at', res')
<1> DEFINE h == Join(AllReplaced)[Len(title)]
<1>1. at > Len(src) /\ at' = 1 /\ res' = res
  BY DEF Second
<1>2. Len(src) \in Nat /\ Len(title) \in Nat
  BY TitleTexts DEF Text
<1>3. h \in Text /\ Len(h) \in Nat
  BY <1>2, ReplacedShorter DEF Text
<1>4. res = h
  <2>. SUFFICES ASSUME NEW n \in 0 .. Len(title) - 1, NEW p \in 0 .. Len(title[n + 1]) - 1,
                       AtByte(n, p, at, res)
                PROVE  FALSE
    BY DEF Replacing
  <2> DEFINE c == title[n + 1]
             l == Len(Join(title)[n])
  <2>1. n + 1 \in 1 .. Len(title)
    BY <1>2
  <2>2. l \in Nat /\ l + Len(c) <= Len(src) /\ Len(c) \in Nat
    BY <2>1, CharacterInSource, TitleTexts
  <2>3. at = l + p + 1 /\ p \in 0 .. Len(c) - 1
    BY DEF AtByte
  <2>. HIDE DEF l, c
  <2>. QED  BY <1>1, <1>2, <2>2, <2>3
<1>. HIDE DEF h
<1>5. \A k \in 1 .. Len(h) : ~ (k < 1)
  BY <1>3
<1>6. 1 \in 1 .. Len(h) + 1
  BY <1>3
<1>. QED  BY <1>1, <1>3, <1>4, <1>5, <1>6 DEF Lowering, h

\* A step of the second pass.
LEMMA LowerStep ==
  ASSUME IsTitle, Lowering(at, res), Lower
  PROVE  Lowering(at', res')
<1> DEFINE h == Join(AllReplaced)[Len(title)]
<1>1. /\ res \in Text /\ Len(res) = Len(h) /\ at \in 1 .. Len(h) + 1
      /\ \A k \in 1 .. Len(h) : res[k] = IF k < at THEN Lowered(h[k]) ELSE h[k]
  BY DEF Lowering
<1>2. h \in Text /\ Len(h) \in Nat
  <2>1. Len(title) \in 0 .. Len(title)
    BY TitleTexts
  <2>. QED  BY <2>1, ReplacedShorter DEF Text
<1>. HIDE DEF h
<1>3. /\ at \in 1 .. Len(h) /\ at' = at + 1
      /\ res' = [res EXCEPT ![at] = Lowered(res[at])]
  BY <1>1 DEF Lower, Lowered
<1>4. res[at] = h[at]
  <2>1. ~ (at < at)
    BY <1>3
  <2>. QED  BY <1>1, <1>3, <2>1
<1>5. Lowered(h[at]) \in 0 .. 255
  <2> DEFINE b == h[at]
  <2>1. b \in 0 .. 255
    BY <1>2, <1>3, ElementOfSeq DEF Text
  <2>. HIDE DEF b
  <2>2. Lowered(b) \in 0 .. 255
    BY <2>1 DEF Lowered, ToLower, IsKept, Underscore
  <2>. QED  BY <2>2 DEF b
<1>6. /\ res' \in Text /\ Len(res') = Len(h)
      /\ \A k \in 1 .. Len(h) : res'[k] = IF k = at THEN Lowered(h[at]) ELSE res[k]
  BY <1>1, <1>3, <1>4, <1>5 DEF Text
<1>7. ASSUME NEW k \in 1 .. Len(h)
      PROVE  res'[k] = IF k < at' THEN Lowered(h[k]) ELSE h[k]
  <2>1. CASE k = at
    <3>1. k < at'
      BY <1>3, <2>1
    <3>. QED  BY <1>6, <2>1, <3>1
  <2>2. CASE k # at
    <3>1. k < at' <=> k < at
      BY <1>3, <2>2
    <3>. QED  BY <1>1, <1>6, <2>2, <3>1
  <2>. QED  BY <2>1, <2>2
<1>8. at' \in 1 .. Len(h) + 1
  BY <1>2, <1>3
<1>. QED  BY <1>6, <1>7, <1>8 DEF Lowering, h

\* The title, its bytes and what is left of the passes.
THEOREM SlugInvariance == LettersListed /\ SlugSpec => []SInv
<1>. SUFFICES ASSUME LettersListed PROVE SlugSpec => []SInv
  OBVIOUS
<1>1. SlugInit => SInv
  <2>. SUFFICES ASSUME SlugInit PROVE SInv
    OBVIOUS
  <2>1. title \in Seq(Characters)
    BY MaxLengthAssumption DEF SlugInit, BoundedSeq, SeqOf
  <2>2. IsTitle
    BY <2>1 DEF SlugInit, IsTitle
  <2>3. Replacing(1, <<>>)
    <3> DEFINE N == Len(title)
    <3>1. 0 \in 0 .. N
      BY <2>2, TitleTexts
    <3>2. Join(title)[0] = <<>>
      BY <2>2, TitleTexts, JoinIsFlatten DEF IsJoin
    <3>3. Join(AllReplaced)[0] = <<>>
      BY <2>2, ReplacedTexts, JoinIsFlatten DEF IsJoin
    <3>4. 1 = Len(Join(title)[0]) + 1
      BY <3>2
    <3>. QED  BY <2>2, <3>1, <3>3, <3>4, CharacterDone
  <2>. QED  BY <2>2, <2>3 DEF SlugInit, SInv
<1>2. SInv /\ [SlugNext]_slugVars => SInv'
  <2>. SUFFICES ASSUME SInv, [SlugNext]_slugVars PROVE SInv'
    OBVIOUS
  <2>1. IsTitle /\ title \in BoundedSeq(Characters, MaxLength)
    BY DEF SInv
  <2>2. CASE Replace
    <3>1. Replacing(at', res')
      BY <2>2, ReplaceStep DEF SInv, Replace
    <3>2. title' = title /\ src' = src /\ pass' = "replace"
      BY <2>2 DEF Replace
    <3>. QED  BY <2>1, <3>1, <3>2 DEF SInv, IsTitle, Replacing, AtByte, AllReplaced
  <2>3. CASE Keep
    <3>1. Replacing(at', res')
      BY <2>3, KeepStep DEF SInv, Keep
    <3>2. title' = title /\ src' = src /\ pass' = "replace"
      BY <2>3 DEF Keep
    <3>. QED  BY <2>1, <3>1, <3>2 DEF SInv, IsTitle, Replacing, AtByte, AllReplaced
  <2>4. CASE Second
    <3>1. Lowering(at', res')
      BY <2>4, SecondStep DEF SInv, Second
    <3>2. title' = title /\ src' = src /\ pass' = "lower"
      BY <2>4 DEF Second
    <3>. QED  BY <2>1, <3>1, <3>2 DEF SInv, IsTitle, Lowering, AllReplaced
  <2>5. CASE Lower
    <3>1. Lowering(at', res')
      BY <2>5, LowerStep DEF SInv, Lower
    <3>2. title' = title /\ src' = src /\ pass' = "lower"
      BY <2>5 DEF Lower
    <3>. QED  BY <2>1, <3>1, <3>2 DEF SInv, IsTitle, Lowering, AllReplaced
  <2>6. CASE Return
    <3>1. Lowering(at, res) /\ at > Len(res)
      BY <2>6 DEF SInv, Return
    <3>2. title' = title /\ src' = src /\ pass' = "done" /\ at' = at /\ res' = res
      BY <2>6 DEF Return
    <3>3. at = Len(res) + 1
      <4>1. Len(res) \in Nat /\ at \in 1 .. Len(res) + 1
        BY <3>1 DEF Lowering, Text
      <4>. QED  BY <3>1, <4>1
    <3>. QED  BY <2>1, <3>1, <3>2, <3>3 DEF SInv, IsTitle, Lowering, AllReplaced
  <2>7. CASE UNCHANGED slugVars
    BY <2>7 DEF slugVars, SInv, IsTitle, Replacing, AtByte, Lowering, AllReplaced
  <2>. QED  BY <2>2, <2>3, <2>4, <2>5, <2>6, <2>7 DEF SlugNext
<1>. QED  BY <1>1, <1>2, PTL DEF SlugSpec

\* The slugs of the characters are what the two passes make of them.
LEMMA SlugOfCharacter ==
  ASSUME NEW c \in Characters
  PROVE  SlugOf(c) = [k \in DOMAIN Replaced(c) |-> Lowered(Replaced(c)[k])]
<1>1. CASE IsLetter(c)
  <2> DEFINE b == Letter[c]
  <2>1. b \in 97 .. 122
    BY <1>1, LetterAssumption DEF IsLetter
  <2>2. SlugOf(c) = <<b>> /\ Replaced(c) = <<b>>
    BY <1>1 DEF SlugOf, Replaced, IsLetter
  <2>. HIDE DEF b
  <2>3. Lowered(b) = b
    BY <2>1 DEF Lowered, ToLower, IsKept, Underscore
  <2>. QED  BY <2>2, <2>3
<1>2. CASE ~ IsLetter(c)
  BY <1>2 DEF SlugOf, Replaced, IsLetter, Lowered
<1>. QED  BY <1>1, <1>2

\* The slugs of the first characters are the bytes that are replaced, in lower case.
LEMMA SlugsOfTitle ==
  ASSUME IsTitle
  PROVE  LET slugs == [k \in DOMAIN title |-> SlugOf(title[k])]
             h == Join(AllReplaced)[Len(title)]
         IN  /\ FlattenSeq(slugs) \in Text /\ Len(FlattenSeq(slugs)) = Len(h)
             /\ \A k \in 1 .. Len(h) : FlattenSeq(slugs)[k] = Lowered(h[k])
<1> DEFINE slugs == [k \in DOMAIN title |-> SlugOf(title[k])]
           G == Join(slugs)
           H == Join(AllReplaced)
           Alike(g, h) == /\ Len(g) = Len(h)
                          /\ \A k \in 1 .. Len(h) : g[k] = Lowered(h[k])
           P == { n \in 0 .. Len(title) : Alike(G[n], H[n]) }
<1>1. /\ Len(title) \in Nat /\ DOMAIN title = 1 .. Len(title)
      /\ \A k \in 1 .. Len(title) : /\ Replaced(title[k]) \in Text
                                    /\ title[k] \in Characters
  BY TitleTexts, ReplacedTexts
<1>2. ASSUME NEW k \in 1 .. Len(title)
      PROVE  /\ slugs[k] \in Text
             /\ Alike(slugs[k], Replaced(title[k]))
  <2> DEFINE r == Replaced(title[k])
  <2>1. r \in Text /\ slugs[k] = [i \in DOMAIN r |-> Lowered(r[i])]
    BY <1>1, SlugOfCharacter
  <2>. HIDE DEF r, slugs
  <2>2. DOMAIN r = 1 .. Len(r) /\ Len(r) \in Nat /\ \A i \in 1 .. Len(r) : r[i] \in 0 .. 255
    <3>1. r \in Seq(0 .. 255)
      BY <2>1 DEF Text
    <3>2. \A i \in 1 .. Len(r) : r[i] \in 0 .. 255
      BY <3>1, ElementOfSeq
    <3>. QED  BY <3>1, <3>2
  <2>3. \A i \in 1 .. Len(r) : Lowered(r[i]) \in 0 .. 255
    <3>1. ASSUME NEW b \in 0 .. 255 PROVE Lowered(b) \in 0 .. 255
      BY DEF Lowered, ToLower, IsKept, Underscore
    <3>. QED  BY <2>2, <3>1
  <2>4. slugs[k] \in [1 .. Len(r) -> 0 .. 255]
    <3>1. slugs[k] = [i \in 1 .. Len(r) |-> Lowered(r[i])]
      BY <2>1, <2>2
    <3>. HIDE DEF Lowered
    <3>. QED  BY <2>3, <3>1
  <2>. QED  BY <2>1, <2>2, <2>4 DEF Text, r
<1>. HIDE DEF Alike
<1>3. slugs \in Seq(Text) /\ Len(slugs) = Len(title)
  <2>1. slugs \in [1 .. Len(title) -> Text]
    BY <1>1, <1>2
  <2>. QED  BY <1>1, <2>1
<1>. HIDE DEF slugs
<1>4. /\ IsJoin(G, slugs, Len(title)) /\ FlattenSeq(slugs) = G[Len(title)]
      /\ IsJoin(H, AllReplaced, Len(title))
  BY <1>1, <1>3, ReplacedTexts, JoinIsFlatten
<1>5. 0 \in P
  BY <1>1, <1>4 DEF IsJoin, Alike
<1>6. ASSUME NEW n \in 0 .. Len(title) - 1, n \in P
      PROVE  n + 1 \in P
  <2> DEFINE a == G[n]
             b == slugs[n + 1]
             x == H[n]
             y == Replaced(title[n + 1])
  <2>1. n + 1 \in 1 .. Len(title) /\ n + 1 \in 0 .. Len(title)
    BY <1>1
  <2>2. a \in Text /\ b \in Text /\ G[n + 1] = a \o b
    BY <1>3, TextInFlatten
  <2>3. x \in Text /\ y \in Text /\ H[n + 1] = x \o y
    BY ReplacedNext
  <2>4. Alike(a, x) /\ Alike(b, y)
    BY <1>2, <1>6, <2>1
  <2>. HIDE DEF a, b, x, y
  <2>5. Alike(a \o b, x \o y)
    <3>1. /\ Len(a) = Len(x) /\ Len(b) = Len(y)
          /\ \A k \in 1 .. Len(x) : a[k] = Lowered(x[k])
          /\ \A k \in 1 .. Len(y) : b[k] = Lowered(y[k])
      BY <2>4 DEF Alike
    <3> DEFINE g == a \o b
               h == x \o y
    <3>2. /\ Len(g) = Len(a) + Len(b) /\ Len(h) = Len(x) + Len(y)
          /\ Len(x) \in Nat /\ Len(y) \in Nat
          /\ \A k \in 1 .. Len(a) : g[k] = a[k]
          /\ \A k \in 1 .. Len(b) : g[Len(a) + k] = b[k]
          /\ \A k \in 1 .. Len(x) : h[k] = x[k]
          /\ \A k \in 1 .. Len(y) : h[Len(x) + k] = y[k]
      BY <2>2, <2>3, Concat
    <3>. HIDE DEF g, h
    <3>3. ASSUME NEW k \in 1 .. Len(h)
          PROVE  g[k] = Lowered(h[k])
      <4>1. CASE k \in 1 .. Len(x)
        BY <3>1, <3>2, <4>1
      <4>2. CASE k \notin 1 .. Len(x)
        <5>1. k - Len(x) \in 1 .. Len(y) /\ k = Len(x) + (k - Len(x))
          BY <3>2, <4>2
        <5> DEFINE m == k - Len(x)
        <5>2. m \in 1 .. Len(y) /\ g[Len(a) + m] = b[m] /\ h[Len(x) + m] = y[m]
              /\ b[m] = Lowered(y[m]) /\ Len(a) = Len(x)
          BY <3>1, <3>2, <5>1
        <5>. QED  BY <5>1, <5>2
      <4>. QED  BY <4>1, <4>2
    <3>. QED  BY <3>1, <3>2, <3>3 DEF Alike, g, h
  <2>. QED  BY <2>1, <2>2, <2>3, <2>5
<1>. HIDE DEF P
<1>7. Len(title) \in P
  <2>1. 0 .. Len(title) \subseteq P
    BY <1>1, <1>5, <1>6, SetInduction
  <2>. QED  BY <1>1, <2>1
<1>8. G[Len(title)] \in Text
  BY <1>1, <1>4 DEF IsJoin
<1>9. Alike(G[Len(title)], H[Len(title)])
  BY <1>7 DEF P
<1>. QED  BY <1>4, <1>8, <1>9 DEF Alike, slugs

\* The slug of a title of any length is made character by character, and its bytes
\* are letters, digits and underscores (utils.cpp:185-216).
THEOREM SlugsAreOfTitles == LettersListed /\ SlugSpec => []SlugOfTitle
<1>1. ASSUME SInv PROVE SlugOfTitle
  <2> DEFINE h == Join(AllReplaced)[Len(title)]
             slugs == [k \in DOMAIN title |-> SlugOf(title[k])]
  <2>1. /\ IsTitle /\ Len(title) \in Nat /\ Len(src) \in Nat
        /\ title \in BoundedSeq(Characters, MaxLength)
        /\ pass \in {"replace", "lower", "done"}
    BY <1>1, TitleTexts DEF SInv, Text
  <2>2. h \in Text /\ Len(h) \in Nat /\ Len(h) <= Len(src)
    <3>1. src = Join(title)[Len(title)]
      BY <2>1, TitleTexts, JoinIsFlatten DEF IsTitle
    <3>2. Len(title) \in 0 .. Len(title)
      BY <2>1
    <3>. QED  BY <2>1, <3>1, <3>2, ReplacedShorter DEF Text
  <2>3. /\ at \in 1 .. Len(src) + 1
        /\ res \in Text /\ Len(res) <= Len(src)
    <3>1. CASE pass = "replace" /\ at = Len(src) + 1 /\ res = h
      BY <2>1, <2>2, <3>1
    <3>2. CASE pass = "replace" /\ ~ (at = Len(src) + 1 /\ res = h)
      <4>0. PICK n \in 0 .. Len(title) - 1 :
              \E p \in 0 .. Len(title[n + 1]) - 1 : AtByte(n, p, at, res)
        BY <1>1, <3>2 DEF SInv, Replacing
      <4>1. PICK p \in 0 .. Len(title[n + 1]) - 1 : AtByte(n, p, at, res)
        BY <4>0
      <4> DEFINE c == title[n + 1]
                 l == Len(Join(title)[n])
                 a == Join(AllReplaced)[n]
                 b == SubSeq(c, 1, p)
      <4>2. n + 1 \in 1 .. Len(title) /\ n \in 0 .. Len(title)
        BY <2>1
      <4>3. c \in Text /\ Len(c) \in Nat /\ l \in Nat /\ l + Len(c) <= Len(src)
        BY <2>1, <4>2, TitleTexts, CharacterInSource
      <4>4. a \in Text /\ Len(a) <= l
        BY <2>1, <4>2, ReplacedShorter
      <4>5. at = l + p + 1 /\ res = a \o b /\ p \in 0 .. Len(c) - 1
        BY <4>1 DEF AtByte
      <4>6. b \in Text /\ Len(b) = p
        <5>. HIDE DEF c
        <5>1. p \in 0 .. Len(c)
          BY <4>3, <4>5
        <5>. QED  BY <4>3, <5>1, FirstBytes
      <4>. HIDE DEF a, b, c, l
      <4>7. a \o b \in Text /\ Len(a \o b) = Len(a) + p /\ Len(a) \in Nat
        BY <4>4, <4>6, Concat
      <4>8. p \in Nat /\ p < Len(c)
        BY <4>3, <4>5
      <4>. QED  BY <2>1, <4>3, <4>4, <4>5, <4>7, <4>8
    <3>3. CASE pass # "replace"
      <4>1. Lowering(at, res)
        BY <1>1, <3>3 DEF SInv
      <4>. QED  BY <2>1, <2>2, <4>1 DEF Lowering
    <3>. QED  BY <3>1, <3>2, <3>3
  <2>4. SlugTypeOK
    BY <2>1, <2>3 DEF SlugTypeOK, IsTitle, Text
  <2>5. ASSUME pass = "done"
        PROVE  /\ res = FlattenSeq(slugs)
               /\ \A k \in DOMAIN res : res[k] \in (97 .. 122) \cup (48 .. 57) \cup {95}
    <3>1. Lowering(at, res) /\ at = Len(res) + 1
      BY <1>1, <2>5 DEF SInv
    <3>2. res \in Text /\ Len(res) = Len(h) /\ \A k \in 1 .. Len(h) : res[k] = Lowered(h[k])
      <4>1. \A k \in 1 .. Len(h) : k < Len(h) + 1
        BY <2>2
      <4>. QED  BY <3>1, <4>1 DEF Lowering
    <3>3. /\ FlattenSeq(slugs) \in Text /\ Len(FlattenSeq(slugs)) = Len(h)
          /\ \A k \in 1 .. Len(h) : FlattenSeq(slugs)[k] = Lowered(h[k])
      BY <2>1, SlugsOfTitle
    <3>. HIDE DEF slugs, h
    <3>4. res = FlattenSeq(slugs)
      <4> DEFINE f == FlattenSeq(slugs)
      <4>1. f \in Text /\ Len(f) = Len(res) /\ \A k \in 1 .. Len(res) : res[k] = f[k]
        BY <3>2, <3>3
      <4>. HIDE DEF f
      <4>2. res = f
        BY <3>2, <4>1, SeqEqual DEF Text
      <4>. QED  BY <4>2 DEF f
    <3>5. ASSUME NEW k \in DOMAIN res
          PROVE  res[k] \in (97 .. 122) \cup (48 .. 57) \cup {95}
      <4> DEFINE b == h[k]
      <4>1. k \in 1 .. Len(h)
        BY <3>2 DEF Text
      <4>2. b \in 0 .. 255 /\ res[k] = Lowered(b)
        BY <2>2, <3>2, <4>1, ElementOfSeq DEF Text
      <4>. HIDE DEF b
      <4>. QED  BY <4>2 DEF Lowered, ToLower, IsKept, Underscore
    <3>. QED  BY <3>4, <3>5
  <2>. QED  BY <2>4, <2>5 DEF SlugOfTitle, SlugsCharacters, OnlySlugBytes
<1>2. LettersListed /\ SlugSpec => []SInv
  BY SlugInvariance
<1>. QED  BY <1>1, <1>2, PTL

=============================================================================

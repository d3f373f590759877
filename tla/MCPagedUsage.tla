---------------------------- MODULE MCPagedUsage ----------------------------
(***************************************************************************)
(* PagedUsage with pages of two movies instead of ten: three titles        *)
(* already fill two pages and shift between them.                          *)
(***************************************************************************)
EXTENDS PagedUsage

CONSTANTS a, b, c, none, some

ThreeTitles == {a, b, c}
AddedTitles == {a, c}
EditedTitles == {a}
TwoSynopses == {none, some}

R(t, s) == [title |-> t, synopsis |-> s]

\* A file with all three movies, and one, hand edited, with one of two twice.
MCInitialCsv == { << R(a, some), R(b, none), R(c, some) >>,
                  << R(a, some), R(b, some), R(a, none) >> }

UpToTwo == 0 .. 2
BothFiles == {"own", "copy"}

=============================================================================

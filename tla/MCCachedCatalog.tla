-------------------------- MODULE MCCachedCatalog --------------------------
(***************************************************************************)
(* CachedUsage on three titles, two of them in the files the program       *)
(* starts with, two texts, and caches of none to two synopses.             *)
(***************************************************************************)
EXTENDS CachedUsage

CONSTANTS a, b, c, none, some

MCTitles == {a, b, c}
MCSynopses == {none, some}

R(t, s) == [title |-> t, synopsis |-> s]

\* A file without rows, with two movies, and, hand edited, with one of them twice.
MCInitialCsv == { <<>>, << R(a, some), R(b, none) >>,
                  << R(a, some), R(b, some), R(a, none) >> }

UpToTwo == 0 .. 2
BothFiles == {"own", "copy"}

\* The bound on this client: a comes and goes, b only goes, c only comes.
AddedTitles == {a, c}
RemovedTitles == {a, b}
EditedTitles == {a}

\* One that only saves, of a file with a text for each movie.
AllTexts == { << R(a, some), R(b, some) >> }
NoTitles == {}
OwnFile == {"own"}

=============================================================================

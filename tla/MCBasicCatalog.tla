--------------------------- MODULE MCBasicCatalog ---------------------------
(* BasicCatalog on three titles and two texts. *)
EXTENDS BasicCatalog

CONSTANTS a, b, c, none, some

MCTitles == {a, b, c}
MCSynopses == {none, some}

\* Every file of at most two rows, those with one title twice included.
MCInitialCsv == UNION {[1 .. n -> Row] : n \in 0 .. 2}

BothFiles == {"own", "copy"}

=============================================================================

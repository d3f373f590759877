----------------------------- MODULE MCCsvFile -----------------------------
(* CsvFile on files of up to three rows. *)
EXTENDS CsvFile

CONSTANTS a, b, none, some

MCTitles == {a, b}
MCSynopses == {none, some}

R(t, s) == [title |-> t, synopsis |-> s]

\* An empty file, one without rows, one without the columns, a table, one with a
\* title twice, and one whose second row ends too early.
AnyFile ==
  { <<>>, <<Header>>, <<BadHeader, R(a, some)>>,
    <<Header, R(a, none), R(b, none)>>,
    <<Header, R(a, some), R(b, none), R(a, none)>>,
    <<Header, R(b, some), R(a, NoField)>> }

=============================================================================

------------------------------ MODULE MCCovers ------------------------------
(* Covers of three names, and images of a few pixels. *)
EXTENDS Covers

CONSTANTS a, b, c

MCNames == {a, b, c}
MCPaths == MCNames \X Kinds
Apart == [n \in MCNames |-> [k \in Kinds |-> <<n, k>>]]

\* Enlarged, reduced, one that leaves no row of pixels, one that overflows.
MCResizes == { <<4, 2, 3>>, <<2, 4, 4>>, <<1, 8, 4>>, <<20, 1, 100>> }
MCScales == { <<1, 2, 4, 4>>, <<-2, 1, 3, 3>>, <<1, 8, 4, 4>> }
=============================================================================

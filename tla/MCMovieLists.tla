---------------------------- MODULE MCMovieLists ----------------------------
(* Lists of up to three movies, two of them with the same year. *)
EXTENDS MovieLists

CONSTANTS p, q, r

MCTitles == 1 .. 3
MCAttr ==
  [f \in {"year", "duration", "category", "director"} |->
     CASE f = "year" -> <<2, 1, 2>>
       [] f = "duration" -> <<3, 3, 3>>
       [] f = "category" -> <<1, 2, 1>>
       [] f = "director" -> <<2, 1, 1>>]

MCAddrs == {p, q, r}
MCIntMin == -4     \* int of three bits

\* Inside and beyond the catalog, and one whose end is no size_t.
MCSlices == { <<0, 2>>, <<1, 1>>, <<1, 5>>, <<3, 1>>, <<1, 7>> }

\* One value, three, and an interval that reaches beyond int.
MCDeltas == { <<1, 0>>, <<2, 1>>, <<2, 3>> }

=============================================================================

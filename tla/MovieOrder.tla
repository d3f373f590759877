----------------------------- MODULE MovieOrder -----------------------------
(***************************************************************************)
(* The comparison functions and the selections of src/core/sort.cpp, for   *)
(* movies known by their titles.  Only the order of two strings matters,   *)
(* so that a text is its rank among the texts of its kind, a title too.    *)
(***************************************************************************)
EXTENDS Integers

CONSTANTS
  Titles,   \* the titles, by rank
  Attr,     \* the other fields: field -> title -> value
  IntMin,   \* the range of int
  IntMax

NumberFields == {"year", "duration"}
TextFields == {"title", "category", "director"}
Fields == NumberFields \cup TextFields

ASSUME TitlesAssumption == Titles \subseteq Int
ASSUME AttrAssumption == Attr \in [Fields \ {"title"} -> [Titles -> Int]]
ASSUME IntAssumption == IntMin \in Int /\ IntMax \in Int /\ IntMin < IntMax

Value(f, t) == IF f = "title" THEN t ELSE Attr[f][t]

\* Mutant: the years alone are compared.
BeforeUntied(f, asc, t, u) ==
  IF asc THEN Value(f, t) < Value(f, u) ELSE Value(f, t) > Value(f, u)

\* The function sort_by_f(asc) returns, of movies t and u: movies with one value
\* are in ascending order of their titles in both directions.
Before(f, asc, t, u) ==
  \/ IF asc THEN Value(f, t) < Value(f, u) ELSE Value(f, t) > Value(f, u)
  \/ Value(f, t) = Value(f, u) /\ t < u

\* std::sort with this function is defined, and leaves no choice.
IsStrictTotalOrder(f, asc) ==
  /\ \A t \in Titles : ~ Before(f, asc, t, t)
  /\ \A t, u, v \in Titles :
       Before(f, asc, t, u) /\ Before(f, asc, u, v) => Before(f, asc, t, v)
  /\ \A t, u \in Titles : t # u => Before(f, asc, t, u) \/ Before(f, asc, u, t)

\* A sum of two ints, in a build where it wraps.
Wrapped(x) == IntMin + ((x - IntMin) % (IntMax - IntMin + 1))

Equals(f, val, t) == Value(f, t) = val

\* Mutant: the interval is open at its upper end.
WithinOpen(f, val, delta, t) ==
  Wrapped(val - delta) <= Value(f, t) /\ Value(f, t) < Wrapped(val + delta)

Within(f, val, delta, t) ==
  Wrapped(val - delta) <= Value(f, t) /\ Value(f, t) <= Wrapped(val + delta)

=============================================================================

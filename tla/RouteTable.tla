----------------------------- MODULE RouteTable -----------------------------
(***************************************************************************)
(* What a router promises: one answer for each request, which the first    *)
(* route to match it gives and no later route takes away.  It is the       *)
(* contract of Router (include/server/router.h:56-107), without the list.  *)
(***************************************************************************)
CONSTANTS Requests, Handlers, NotFound

VARIABLES
  table,       \* the handler of each request
  responder    \* who answered the last request

TableInit ==
  /\ table = [q \in Requests |-> NotFound]
  /\ responder = NotFound

\* A route for the requests S.
Claim(S, h) ==
  /\ table' = [q \in Requests |->
                 IF q \in S /\ table[q] = NotFound THEN h ELSE table[q]]
  /\ UNCHANGED responder

Answer(q) == responder' = table[q] /\ UNCHANGED table

TableNext ==
  \/ \E S \in SUBSET Requests, h \in Handlers : Claim(S, h)
  \/ \E q \in Requests : Answer(q)

TableSpec == TableInit /\ [][TableNext]_<<table, responder>>

=============================================================================

------------------------------- MODULE Router -------------------------------
(***************************************************************************)
(* The router (src/server/router.cpp): a list of routes, searched from the *)
(* front for the method and the pattern of a request.                      *)
(***************************************************************************)
EXTENDS Sequences, Integers

CONSTANTS
  Methods, Urls,
  Patterns,     \* regular expressions,
  UrlsOf,       \*   and the urls each of them matches entirely
  Handlers,     \* what a route answers with
  NotFound,     \* the answer 404
  MaxRoutes     \* bound on the routes

ASSUME PatternAssumption == UrlsOf \in [Patterns -> SUBSET Urls]
ASSUME HandlerAssumption == NotFound \notin Handlers
ASSUME MaxRoutesAssumption == MaxRoutes \in Nat

Request == Methods \X Urls
Route == [method : Methods, pattern : Patterns, handler : Handlers]

VARIABLES
  routes,      \* _routes
  responder    \* the handler dispatch() called last, or NotFound

routerVars == <<routes, responder>>

RouterTypeOK ==
  /\ routes \in Seq(Route)
  /\ responder \in Handlers \cup {NotFound}

RouterInit ==
  /\ routes = <<>>
  /\ responder = NotFound

Fits(route, q) == route.method = q[1] /\ q[2] \in UrlsOf[route.pattern]

\* Mutant: the last route that fits.
GetRouteLast(q) ==
  { i \in DOMAIN routes : /\ Fits(routes[i], q)
                          /\ \A j \in i + 1 .. Len(routes) : ~ Fits(routes[j], q) }

\* get_route: the position of the first route that fits, none or one.
GetRoute(q) ==
  { i \in DOMAIN routes : /\ Fits(routes[i], q)
                          /\ \A j \in 1 .. i - 1 : ~ Fits(routes[j], q) }

HandlerFor(q) ==
  IF GetRoute(q) = {} THEN NotFound
  ELSE routes[CHOOSE i \in GetRoute(q) : TRUE].handler

AddRoute(m, p, h) ==
  /\ Len(routes) < MaxRoutes
  /\ routes' = Append(routes, [method |-> m, pattern |-> p, handler |-> h])
  /\ UNCHANGED responder

Dispatch(q) ==
  /\ responder' = HandlerFor(q)
  /\ UNCHANGED routes

RouterNext ==
  \/ \E m \in Methods, p \in Patterns, h \in Handlers : AddRoute(m, p, h)
  \/ \E q \in Request : Dispatch(q)

RouterSpec == RouterInit /\ [][RouterNext]_routerVars

-----------------------------------------------------------------------------
Table == INSTANCE RouteTable WITH
  Requests <- Request,
  table <- [q \in Request |-> HandlerFor(q)]

\* The routes are searched in the order they were added: a route answers the
\* requests that no earlier one answers, and an answer, once there is one, is
\* the same after any further routes (router.cpp:8-36).
ImplementsTable == Table!TableSpec

=============================================================================

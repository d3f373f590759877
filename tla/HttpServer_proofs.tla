-------------------------- MODULE HttpServer_proofs --------------------------
(***************************************************************************)
(* The safety of the server for every number of connections.  The four     *)
(* parts of the invariant hold each other up: a callback runs only while   *)
(* the thread does, its step says what the connection has, the references  *)
(* say which responses exist, and these say which descriptors are open.    *)
(* And the promise of the router whose dispatch() the callback calls.      *)
(***************************************************************************)
EXTENDS HttpServer, Router, FiniteSetTheorems, WellFoundedInduction,
        NaturalsInduction, TLAPS

\* The object and the thread.
Life ==
  /\ StartedMeansRunning
  /\ caller # "idle" => handle
  /\ cur # None => running
  /\ ~ startedTwice /\ ~ alive => ~ running

\* A request is received until its response is queued.
Asked == cur # None /\ step # "destroy" => conn[cur] = "received"

\* A response exists as long as it is referred to.
Referred == \A c \in Conns : refs[c] = 0 <=> resp[c] = "none"

IInv ==
  /\ TypeOK
  /\ Life
  /\ Asked
  /\ Referred
  /\ ResponsesBalanced
  /\ DescriptorsAccounted

-----------------------------------------------------------------------------
(* Life *)

\* The handle follows the thread as long as no start() overwrites it.
LEMMA LifeStays ==
  ASSUME TypeOK, Life, [Next]_vars
  PROVE  Life'
<1>. USE DEF Life, StartedMeansRunning, TypeOK
<1>1. CASE Start
  <2>1. caller = "idle" /\ caller' = caller /\ cur' = cur /\ alive /\ alive' = alive
    BY <1>1 DEF Start, ClientReady, threadVars
  <2>2. startedTwice' = (startedTwice \/ handle)
    BY <1>1 DEF Start
  <2>3. CASE ~ running /\ running' = TRUE /\ handle' = TRUE
    BY <2>1, <2>3
  <2>4. CASE running' = running /\ handle' = FALSE
    <3>1. ~ startedTwice' => ~ startedTwice /\ ~ handle
      BY <2>2
    <3>2. ~ startedTwice' => ~ running
      BY <3>1
    <3>. QED  BY <2>1, <2>4, <3>1, <3>2
  <2>. QED  BY <1>1, <2>3, <2>4 DEF Start
<1>2. CASE Stop
  BY <1>2 DEF Stop, ClientReady, threadVars
<1>3. CASE Destroy
  <2>1. UNCHANGED <<handle, running, cur, startedTwice>> /\ alive
    BY <1>3 DEF Destroy, ClientReady, threadVars
  <2>2. CASE handle /\ caller' = "destroy" /\ UNCHANGED alive
    BY <2>1, <2>2
  <2>3. CASE ~ handle /\ alive' = FALSE /\ UNCHANGED caller
    <3>1. ~ startedTwice => ~ running
      BY <2>3
    <3>. QED  BY <2>1, <2>3, <3>1
  <2>. QED  BY <1>3, <2>2, <2>3 DEF Destroy
<1>4. CASE Stopped
  BY <1>4 DEF Stopped
<1>5. ASSUME NEW c \in Conns, CallBack(c)
      PROVE  Life'
  BY <1>5 DEF CallBack, objectVars
<1>6. CASE /\ UNCHANGED objectVars
           /\ cur' = None \/ cur' = cur
  BY <1>6 DEF objectVars
<1>7. [Next]_vars =>
        \/ Start \/ Stop \/ Destroy \/ Stopped
        \/ \E c \in Conns : CallBack(c)
        \/ UNCHANGED objectVars /\ (cur' = None \/ cur' = cur)
  <2>1. ASSUME NEW c \in Conns, Receive(c) \/ CallBackRefuses(c) \/ Sent(c)
        PROVE  UNCHANGED objectVars /\ (cur' = None \/ cur' = cur)
    BY <2>1 DEF Receive, CallBackRefuses, Refuse, Return, Sent
  <2>2. ASSUME CallBackStep
        PROVE  UNCHANGED objectVars /\ (cur' = None \/ cur' = cur)
    BY <2>2 DEF CallBackStep, Respond, RespondText, RespondFile, RespondFileFails,
                RespondNothing, Queue, DestroyResponse, Refuse, Return
  <2>3. ASSUME Gone \/ UNCHANGED vars
        PROVE  UNCHANGED objectVars /\ (cur' = None \/ cur' = cur)
    BY <2>3 DEF Gone, vars, threadVars, objectVars
  <2>. QED  BY <2>1, <2>2, <2>3 DEF Next
<1>. QED  BY <1>1, <1>2, <1>3, <1>4, <1>5, <1>6, <1>7

-----------------------------------------------------------------------------
(* References and descriptors *)

Files == { c \in Conns : resp[c] = "file" }

(* Finitely many connections are answered with a file. *)
LEMMA FilesFinite ==
  IsFiniteSet(Files) /\ Cardinality(Files) \in Nat
BY ConnsAssumption, FS_Subset, FS_CardinalityType DEF Files

\* What a step changes of the thread's state, and keeps true of it.
Balance ==
  /\ conn \in [Conns -> {"none", "received", "queued"}]
  /\ cur \in Conns \cup {None}
  /\ step \in {"respond", "queue", "destroy"}
  /\ resp \in [Conns -> {"none", "text", "file"}]
  /\ refs \in [Conns -> 0 .. 2]
  /\ leaked \in 0 .. MaxLeaked
  /\ Asked
  /\ Referred
  /\ ResponsesBalanced

\* A response of the connection whose callback runs is new.
LEMMA NoResponseYet ==
  ASSUME Balance, cur # None, step = "respond"
  PROVE  cur \in Conns /\ conn[cur] = "received" /\ refs[cur] = 0 /\ resp[cur] = "none"
BY DEF Balance, Asked, Referred, ResponsesBalanced

\* The references of the connection whose callback runs, and of one that waits.
LEMMA ReferencesNow ==
  ASSUME Balance
  PROVE  /\ cur # None /\ step = "queue" =>
              cur \in Conns /\ conn[cur] = "received" /\ refs[cur] = 1
         /\ cur # None /\ step = "destroy" =>
              /\ cur \in Conns
              /\ refs[cur] = IF conn[cur] = "queued" THEN 2 ELSE 1
         /\ cur = None => \A c \in Conns :
              refs[c] = IF conn[c] = "queued" THEN 1 ELSE 0
<1>. USE DEF Balance, Asked, ResponsesBalanced
<1>1. cur # None /\ step = "queue" =>
        cur \in Conns /\ conn[cur] = "received" /\ refs[cur] = 1
  OBVIOUS
<1>2. cur # None /\ step = "destroy" =>
        cur \in Conns /\ refs[cur] = IF conn[cur] = "queued" THEN 2 ELSE 1
  OBVIOUS
<1>3. cur = None => \A c \in Conns : refs[c] = IF conn[c] = "queued" THEN 1 ELSE 0
  BY ConnsAssumption
<1>. QED  BY <1>1, <1>2, <1>3

\* Queueing takes a reference, destroying gives one up, and sending the last.
LEMMA BalanceStays ==
  ASSUME Balance, [Next]_vars
  PROVE  Balance'
<1>. USE ConnsAssumption, BoundsAssumption DEF Balance, Asked, Referred, ResponsesBalanced
<1>1. CASE UNCHANGED threadVars
  BY <1>1 DEF threadVars
<1>2. CASE Stopped
  <2>1. \A c \in Conns : refs[c] = IF conn[c] = "queued" THEN 1 ELSE 0
    BY <1>2, ReferencesNow DEF Stopped
  <2>2. refs' = [c \in Conns |-> 0] /\ resp' = [c \in Conns |-> "none"]
    BY <1>2, <2>1 DEF Stopped
  <2>. QED  BY <1>2, <2>2 DEF Stopped
<1>3. ASSUME NEW c \in Conns, Receive(c) \/ CallBackRefuses(c)
      PROVE  Balance'
  BY <1>3 DEF Receive, CallBackRefuses, Refuse, Return
<1>4. ASSUME NEW c \in Conns, CallBack(c)
      PROVE  Balance'
  BY <1>4 DEF CallBack
<1>5. ASSUME NEW c \in Conns, Sent(c)
      PROVE  Balance'
  <2>1. refs[c] = 1
    BY <1>5, ReferencesNow DEF Sent
  <2>. QED  BY <1>5, <2>1 DEF Sent, Release
<1>6. CASE RespondText \/ RespondFile \/ RespondFileFails
  <2>1. cur \in Conns /\ conn[cur] = "received" /\ refs[cur] = 0 /\ resp[cur] = "none"
    BY <1>6, NoResponseYet DEF RespondText, RespondFile, RespondFileFails
  <2>2. PICK kind \in {"text", "file"} : Created(kind)
    BY <1>6 DEF RespondText, RespondFile, RespondFileFails
  <2>3. UNCHANGED <<conn, cur>> /\ leaked' \in 0 .. MaxLeaked
    BY <1>6 DEF RespondText, RespondFile, RespondFileFails
  <2>. QED  BY <2>1, <2>2, <2>3 DEF Created
<1>7. CASE RespondNothing
  <2>1. cur \in Conns /\ refs[cur] = 0
    BY <1>7, NoResponseYet DEF RespondNothing
  <2>. QED  BY <1>7, <2>1 DEF RespondNothing, Refuse, Return
<1>8. CASE Queue
  <2>1. cur \in Conns /\ conn[cur] = "received" /\ refs[cur] = 1
    BY <1>8, ReferencesNow DEF Queue
  <2>. QED  BY <1>8, <2>1 DEF Queue
<1>9. CASE DestroyResponse
  <2>1. cur \in Conns /\ refs[cur] = IF conn[cur] = "queued" THEN 2 ELSE 1
    BY <1>9, ReferencesNow DEF DestroyResponse
  <2>2. CASE conn[cur] = "queued"
    BY <1>9, <2>1, <2>2 DEF DestroyResponse, Release, Return
  <2>3. CASE conn[cur] # "queued"
    BY <1>9, <2>1, <2>3 DEF DestroyResponse, Release, Refuse, Return
  <2>. QED  BY <2>2, <2>3
<1>10. Start \/ Stop \/ Destroy \/ Gone \/ UNCHANGED vars => UNCHANGED threadVars
  BY DEF Start, Stop, Destroy, Gone, vars
<1>. QED  BY <1>1, <1>2, <1>3, <1>4, <1>5, <1>6, <1>7, <1>8, <1>9, <1>10
          DEF Next, CallBackStep, Respond

\* The daemon and the callback close a descriptor with the last reference.
LEMMA ReleaseCloses ==
  ASSUME Balance, NEW c \in Conns, Release(c), refs[c] # 0, UNCHANGED leaked,
         fds = leaked + Cardinality(Files)
  PROVE  fds' = leaked' + Cardinality(Files')
<1>1. IsFiniteSet(Files) /\ Cardinality(Files) \in Nat /\ leaked \in Nat
  BY FilesFinite, BoundsAssumption DEF Balance
<1>2. CASE refs[c] = 1 /\ resp[c] = "file"
  <2>1. Files' = Files \ {c} /\ c \in Files
    BY <1>2 DEF Release, Files, Balance
  <2>2. Cardinality(Files') = Cardinality(Files) - 1
    BY <1>1, <2>1, FS_RemoveElement
  <2>3. fds' = fds - 1
    BY <1>2 DEF Release
  <2>. QED  BY <1>1, <2>2, <2>3
<1>3. CASE ~ (refs[c] = 1 /\ resp[c] = "file")
  <2>1. Files' = Files
    BY <1>3 DEF Release, Files, Balance
  <2>2. fds' = fds
    BY <1>3 DEF Release
  <2>. QED  BY <2>1, <2>2
<1>. QED  BY <1>2, <1>3

\* A descriptor is opened for a response or lost, and closed with its response.
LEMMA DescriptorsStay ==
  ASSUME Balance, DescriptorsAccounted, [Next]_vars
  PROVE  DescriptorsAccounted'
<1>1. fds = leaked + Cardinality(Files)
  BY DEF DescriptorsAccounted, Files
<1>2. IsFiniteSet(Files) /\ Cardinality(Files) \in Nat /\ leaked \in Nat
  BY FilesFinite, BoundsAssumption DEF Balance
<1>3. SUFFICES fds' = leaked' + Cardinality(Files')
  BY DEF DescriptorsAccounted, Files
<1>4. CASE Stopped
  <2>1. \A c \in Conns : refs[c] = IF conn[c] = "queued" THEN 1 ELSE 0
    BY <1>4, ReferencesNow DEF Stopped
  <2>2. refs' = [c \in Conns |-> 0] /\ resp' = [c \in Conns |-> "none"]
    BY <1>4, <2>1 DEF Stopped, Balance
  <2>3. Files' = {} /\ { c \in Conns : resp[c] = "file" /\ refs'[c] = 0 } = Files
    BY <2>2 DEF Files
  <2>4. fds' = fds - Cardinality(Files) /\ leaked' = leaked
    BY <1>4, <2>3 DEF Stopped
  <2>. QED  BY <1>1, <1>2, <2>3, <2>4, FS_EmptySet
<1>5. ASSUME NEW c \in Conns, Sent(c)
      PROVE  fds' = leaked' + Cardinality(Files')
  <2>1. refs[c] = 1
    BY <1>5, ReferencesNow DEF Sent
  <2>. QED  BY <1>1, <1>5, <2>1, ReleaseCloses DEF Sent
<1>6. CASE DestroyResponse
  <2>1. cur \in Conns /\ refs[cur] # 0
    BY <1>6, ReferencesNow DEF DestroyResponse
  <2>. QED  BY <1>1, <1>6, <2>1, ReleaseCloses DEF DestroyResponse
<1>7. CASE RespondText \/ RespondFileFails
  <2>1. cur \in Conns /\ resp[cur] = "none"
    BY <1>7, NoResponseYet DEF RespondText, RespondFileFails
  <2>2. Files' = Files
    BY <1>7, <2>1 DEF RespondText, RespondFileFails, Created, Files, Balance
  <2>3. \/ fds' = fds /\ leaked' = leaked
        \/ fds' = fds + 1 /\ leaked' = leaked + 1
    BY <1>7 DEF RespondText, RespondFileFails
  <2>. QED  BY <1>1, <1>2, <2>2, <2>3
<1>8. CASE RespondFile
  <2>1. cur \in Conns /\ resp[cur] = "none"
    BY <1>8, NoResponseYet DEF RespondFile
  <2>2. Files' = Files \cup {cur} /\ cur \notin Files
    BY <1>8, <2>1 DEF RespondFile, Created, Files, Balance
  <2>3. Cardinality(Files') = Cardinality(Files) + 1
    BY <1>2, <2>2, FS_AddElement
  <2>4. fds' = fds + 1 /\ leaked' = leaked
    BY <1>8 DEF RespondFile
  <2>. QED  BY <1>1, <1>2, <2>3, <2>4
<1>9. CASE UNCHANGED <<resp, fds, leaked>>
  BY <1>1, <1>9 DEF Files
<1>10. [Next]_vars =>
         \/ Stopped \/ DestroyResponse
         \/ RespondText \/ RespondFileFails \/ RespondFile
         \/ \E c \in Conns : Sent(c)
         \/ UNCHANGED <<resp, fds, leaked>>
  BY DEF Next, vars, threadVars, Start, Stop, Destroy, Gone, Receive, CallBack,
         CallBackRefuses, CallBackStep, Respond, RespondNothing, Queue
<1>. QED  BY <1>4, <1>5, <1>6, <1>7, <1>8, <1>9, <1>10

-----------------------------------------------------------------------------
(* Theorems *)

LEMMA Invariant == Spec => []IInv
<1>1. Init => IInv
  <2>. SUFFICES ASSUME Init PROVE IInv
    OBVIOUS
  <2>1. TypeOK
    <3>1. 0 \in 0 .. 2 /\ 0 \in 0 .. MaxLeaked /\ 0 \in Nat
      BY BoundsAssumption
    <3>2. /\ refs \in [Conns -> 0 .. 2]
          /\ fds \in Nat
          /\ leaked \in 0 .. MaxLeaked
      BY <3>1 DEF Init
    <3>. QED  BY <3>2, Zenon DEF Init, TypeOK
  <2>2. Life /\ Asked /\ Referred
    BY DEF Init, Life, StartedMeansRunning, Asked, Referred
  <2>3. ResponsesBalanced
    BY ConnsAssumption DEF Init, ResponsesBalanced
  <2>4. DescriptorsAccounted
    <3>1. { c \in Conns : resp[c] = "file" } = {}
      BY DEF Init
    <3>. QED  BY <3>1, FS_EmptySet DEF Init, DescriptorsAccounted
  <2>. QED  BY <2>1, <2>2, <2>3, <2>4 DEF IInv
<1>2. IInv /\ [Next]_vars => IInv'
  <2>. SUFFICES ASSUME IInv, [Next]_vars PROVE IInv'
    OBVIOUS
  <2>1. Balance
    BY DEF IInv, TypeOK, Balance
  <2>2. Balance' /\ DescriptorsAccounted' /\ Life'
    BY <2>1, BalanceStays, DescriptorsStay, LifeStays DEF IInv
  <2>3. (alive \in BOOLEAN)' /\ (handle \in BOOLEAN)' /\ (running \in BOOLEAN)'
        /\ (caller \in {"idle", "stop", "destroy"})' /\ (startedTwice \in BOOLEAN)'
    <3>. USE DEF IInv, TypeOK
    <3>1. CASE Start
      BY <3>1 DEF Start
    <3>2. CASE Stop
      BY <3>2 DEF Stop
    <3>3. CASE Destroy
      BY <3>3 DEF Destroy
    <3>4. CASE Stopped
      BY <3>4 DEF Stopped
    <3>5. CASE UNCHANGED objectVars
      BY <3>5 DEF objectVars
    <3>. QED  BY <3>1, <3>2, <3>3, <3>4, <3>5
              DEF Next, vars, objectVars, Gone, Receive, CallBack, CallBackRefuses, Sent,
                  CallBackStep, Respond, RespondText, RespondFile, RespondFileFails,
                  RespondNothing, Queue, DestroyResponse
  <2>4. (fds \in Nat)'
    <3>1. /\ (fds = leaked + Cardinality(Files))'
          /\ (Cardinality(Files) \in Nat)' /\ (leaked \in Nat)'
      <4>1. IsFiniteSet(Files') /\ Cardinality(Files') \in Nat
        BY ConnsAssumption, FS_Subset, FS_CardinalityType DEF Files
      <4>. QED  BY <2>2, <4>1, BoundsAssumption DEF DescriptorsAccounted, Files, Balance
    <3>. QED  BY <3>1
  <2>. QED  BY <2>2, <2>3, <2>4 DEF IInv, Balance, TypeOK
<1>. QED  BY <1>1, <1>2, PTL DEF Spec

\* Every variable keeps its type: references are never negative nor more than two
\* (http_server.cpp:84-89).
THEOREM ServerTyped == Spec => []TypeOK
<1>1. IInv => TypeOK
  BY DEF IInv
<1>. QED  BY <1>1, Invariant, PTL

\* The handle is null exactly when no thread runs (http_server.cpp:23-43).
THEOREM HandleFollowsThread == Spec => []StartedMeansRunning
<1>1. IInv => StartedMeansRunning
  BY DEF IInv, Life
<1>. QED  BY <1>1, Invariant, PTL

\* No callback runs on a server that was destroyed (http_server.cpp:19-21).
THEOREM DestructorWaits == Spec => []CallBackOnLiveServer
<1>1. IInv => CallBackOnLiveServer
  BY DEF IInv, Life, CallBackOnLiveServer, TypeOK
<1>. QED  BY <1>1, Invariant, PTL

\* Each response has the references of its callback and of its connection, and is
\* freed with the last (http_server.cpp:84-88).
THEOREM ResponsesFreedOnce == Spec => []ResponsesBalanced
<1>1. IInv => ResponsesBalanced
  BY DEF IInv
<1>. QED  BY <1>1, Invariant, PTL

\* The descriptors open are those of responses and those make_file_response lost
\* (http_server.cpp:136-145).
THEOREM DescriptorsOwned == Spec => []DescriptorsAccounted
<1>1. IInv => DescriptorsAccounted
  BY DEF IInv
<1>. QED  BY <1>1, Invariant, PTL

-----------------------------------------------------------------------------
(* The routes.  The callback hands a request to the router, whose state is *)
(* its own: what is proved of it is for all methods, urls, patterns and    *)
(* handlers and any number of routes.                                      *)

\* The routes are routes and what answered is a handler or the 404
\* (router.cpp:8-36).
THEOREM RoutesTyped == RouterSpec => []RouterTypeOK
<1>. USE PatternAssumption, HandlerAssumption, MaxRoutesAssumption
<1>1. RouterInit => RouterTypeOK
  BY DEF RouterInit, RouterTypeOK
<1>2. RouterTypeOK /\ [RouterNext]_routerVars => RouterTypeOK'
  <2>. SUFFICES ASSUME RouterTypeOK, [RouterNext]_routerVars PROVE RouterTypeOK'
    OBVIOUS
  <2>1. ASSUME NEW m \in Methods, NEW p \in Patterns, NEW h \in Handlers,
               AddRoute(m, p, h)
        PROVE  RouterTypeOK'
    <3>1. [method |-> m, pattern |-> p, handler |-> h] \in Route
      BY DEF Route
    <3>. QED  BY <2>1, <3>1 DEF RouterTypeOK, AddRoute
  <2>2. ASSUME NEW q \in Request, Dispatch(q)
        PROVE  RouterTypeOK'
    <3>1. HandlerFor(q) \in Handlers \cup {NotFound}
      <4>1. CASE GetRoute(q) = {}
        BY <4>1 DEF HandlerFor
      <4>2. CASE GetRoute(q) # {}
        <5>1. PICK i \in GetRoute(q) : i = (CHOOSE j \in GetRoute(q) : TRUE)
          BY <4>2
        <5>2. routes[i] \in Route
          BY <5>1 DEF GetRoute, RouterTypeOK
        <5>. QED  BY <4>2, <5>1, <5>2 DEF HandlerFor, Route
      <4>. QED  BY <4>1, <4>2
    <3>. QED  BY <2>2, <3>1 DEF RouterTypeOK, Dispatch
  <2>3. CASE UNCHANGED routerVars
    BY <2>3 DEF RouterTypeOK, routerVars
  <2>. QED  BY <2>1, <2>2, <2>3 DEF RouterNext
<1>. QED  BY <1>1, <1>2, PTL DEF RouterSpec

-----------------------------------------------------------------------------
\* When a route fits, a first one does.
LEMMA FirstRouteExists ==
  ASSUME RouterTypeOK, NEW q, NEW k \in DOMAIN routes, Fits(routes[k], q)
  PROVE  \E i \in GetRoute(q) : i <= k
<1> DEFINE T == { i \in Nat : i \in DOMAIN routes /\ Fits(routes[i], q) }
           R == OpToRel(<, Nat)
<1>1. DOMAIN routes = 1 .. Len(routes) /\ Len(routes) \in Nat
  BY DEF RouterTypeOK
<1>2. T \subseteq Nat /\ k \in T
  BY <1>1
<1>3. PICK i \in T : \A j \in T : <<j, i>> \notin R
  <2>. HIDE DEF T, R
  <2>1. IsWellFoundedOn(R, Nat)
    BY NatLessThanWellFounded DEF R
  <2>. QED  BY <1>2, <2>1, WFMin
<1>4. ASSUME NEW j \in T PROVE ~ (j < i)
  BY <1>3, <1>2 DEF OpToRel
<1>5. i \in GetRoute(q)
  BY <1>1, <1>4 DEF GetRoute
<1>. QED  BY <1>2, <1>4, <1>5

\* The handler of a request is that of its first route.
LEMMA FirstRouteAnswers ==
  ASSUME RouterTypeOK, NEW q, NEW i \in GetRoute(q)
  PROVE  HandlerFor(q) = routes[i].handler /\ HandlerFor(q) \in Handlers
<1>. USE PatternAssumption, HandlerAssumption, MaxRoutesAssumption
<1>1. \A j \in GetRoute(q) : j = i
  BY DEF GetRoute, RouterTypeOK
<1>2. routes[i] \in Route
  BY DEF GetRoute, RouterTypeOK
<1>. QED  BY <1>1, <1>2 DEF HandlerFor, Route

\* A further route answers what it fits and no route before it does.
LEMMA FurtherRoute ==
  ASSUME RouterTypeOK,
         NEW m \in Methods, NEW p \in Patterns, NEW h \in Handlers,
         AddRoute(m, p, h), RouterTypeOK', NEW q \in Request
  PROVE  HandlerFor(q)' =
           IF /\ Fits([method |-> m, pattern |-> p, handler |-> h], q)
              /\ HandlerFor(q) = NotFound
           THEN h ELSE HandlerFor(q)
<1>. USE PatternAssumption, HandlerAssumption, MaxRoutesAssumption
<1> DEFINE r == [method |-> m, pattern |-> p, handler |-> h]
<1>1. /\ Len(routes) \in Nat
      /\ Len(routes') = Len(routes) + 1
      /\ DOMAIN routes = 1 .. Len(routes) /\ DOMAIN routes' = 1 .. Len(routes')
      /\ \A i \in 1 .. Len(routes) : routes'[i] = routes[i]
      /\ routes'[Len(routes) + 1] = r
  <2>1. r \in Route
    BY DEF Route
  <2>. QED  BY <2>1 DEF AddRoute, RouterTypeOK
<1>. HIDE DEF r
<1>2. CASE GetRoute(q) # {}
  <2>1. PICK i \in GetRoute(q) : TRUE
    BY <1>2
  <2>2. i \in GetRoute(q)'
    BY <2>1, <1>1 DEF GetRoute
  <2>3. HandlerFor(q) = routes[i].handler /\ HandlerFor(q) # NotFound
    BY <2>1, FirstRouteAnswers
  <2>4. HandlerFor(q)' = routes'[i].handler
    <3>1. \A j \in GetRoute(q)' : j = i
      BY <2>2, <1>1 DEF GetRoute
    <3>. QED  BY <2>2, <3>1 DEF HandlerFor
  <2>5. routes'[i] = routes[i]
    BY <2>1, <1>1 DEF GetRoute
  <2>. QED  BY <2>3, <2>4, <2>5
<1>3. CASE GetRoute(q) = {}
  <2>1. \A k \in 1 .. Len(routes) : ~ Fits(routes[k], q)
    BY <1>3, <1>1, FirstRouteExists
  <2>2. HandlerFor(q) = NotFound
    BY <1>3 DEF HandlerFor
  <2>3. GetRoute(q)' = IF Fits(r, q) THEN {Len(routes) + 1} ELSE {}
    BY <2>1, <1>1 DEF GetRoute, Fits
  <2>4. CASE Fits(r, q)
    <3>1. HandlerFor(q)' = routes'[Len(routes) + 1].handler
      BY <2>3, <2>4 DEF HandlerFor
    <3>2. r.handler = h
      BY DEF r
    <3>. QED  BY <3>1, <3>2, <1>1, <2>2, <2>4 DEF r
  <2>5. CASE ~ Fits(r, q)
    BY <2>2, <2>3, <2>5 DEF HandlerFor, r
  <2>. QED  BY <2>4, <2>5
<1>. QED  BY <1>2, <1>3

-----------------------------------------------------------------------------
\* The first route to claim a request answers it, and no later route takes the
\* request away (router.cpp:8-36).
THEOREM RoutesInOrder == RouterSpec => ImplementsTable
<1>1. RouterInit => Table!TableInit
  <2>. SUFFICES ASSUME RouterInit PROVE Table!TableInit
    OBVIOUS
  <2>1. \A q \in Request : HandlerFor(q) = NotFound
    BY DEF RouterInit, HandlerFor, GetRoute
  <2>. QED  BY <2>1 DEF RouterInit, Table!TableInit
<1>2. RouterTypeOK /\ RouterTypeOK' /\ [RouterNext]_routerVars =>
        [Table!TableNext]_<<[q \in Request |-> HandlerFor(q)],
                                    responder>>
  <2>. SUFFICES ASSUME RouterTypeOK, RouterTypeOK', [RouterNext]_routerVars
                PROVE  [Table!TableNext]_<<[q \in Request |->
                                                      HandlerFor(q)], responder>>
    OBVIOUS
  <2>1. ASSUME NEW m \in Methods, NEW p \in Patterns, NEW h \in Handlers,
               AddRoute(m, p, h)
        PROVE  Table!TableNext
    <3> DEFINE S == { q \in Request :
                        Fits([method |-> m, pattern |-> p, handler |-> h], q) }
    <3>1. Table!Claim(S, h)
      BY <2>1, FurtherRoute DEF Table!Claim, AddRoute
    <3>2. S \in SUBSET Request
      OBVIOUS
    <3>. QED  BY <3>1, <3>2 DEF Table!TableNext
  <2>2. ASSUME NEW q \in Request, Dispatch(q)
        PROVE  Table!TableNext
    <3>1. \A u \in Request : HandlerFor(u)' = HandlerFor(u)
      BY <2>2 DEF Dispatch, HandlerFor, GetRoute
    <3>2. Table!Answer(q)
      BY <2>2, <3>1 DEF Dispatch, Table!Answer
    <3>. QED  BY <3>2 DEF Table!TableNext
  <2>3. CASE UNCHANGED routerVars
    BY <2>3 DEF routerVars, HandlerFor, GetRoute
  <2>. QED  BY <2>1, <2>2, <2>3 DEF RouterNext
<1>. QED  BY <1>1, <1>2, RoutesTyped, PTL
          DEF RouterSpec, ImplementsTable, Table!TableSpec

=============================================================================

----------------------------- MODULE HttpServer -----------------------------
(***************************************************************************)
(* The HTTP server (src/server/http_server.cpp): the object a client       *)
(* starts, stops and destroys, and the one polling thread of its           *)
(* libmicrohttpd daemon, which calls back into the object for each         *)
(* request.  The two interleave; what joins them is MHD_stop_daemon(),     *)
(* which returns when the thread has ended.                                *)
(*                                                                         *)
(* The daemon is external: it accepts requests, counts the references to a *)
(* response, sends what was queued and lets go of it.  A connection has at *)
(* most one response; urls matter only for how their response is made.     *)
(***************************************************************************)
EXTENDS FiniteSets, Integers

CONSTANTS
  Conns,         \* the connections
  None,          \* no connection
  StartsTwice,   \* bound: the client may start a server that is started
  MaxLeaked      \* bound: descriptors that are lost

ASSUME ConnsAssumption == IsFiniteSet(Conns) /\ None \notin Conns
ASSUME BoundsAssumption == StartsTwice \in BOOLEAN /\ MaxLeaked \in Nat

VARIABLES
  alive,        \* the server object exists
  handle,       \* _daemon is not null
  caller,       \* the client's thread: "idle", or in MHD_stop_daemon(), called
                \*   by "stop" or by the destructor, "destroy"
  running,      \* the polling thread runs and has the port
  conn,         \* the request of a connection: "none", "received", and
                \*   "queued" once it has its response
  cur,          \* the connection whose callback runs
  step,         \* where it stands
  resp,         \* the response of the connection
  refs,         \* references to that response
  fds,          \* descriptors open
  leaked,       \* history: descriptors no response owns
  startedTwice  \* history: start() of a server that was started

threadVars == <<conn, cur, step, resp, refs, fds, leaked>>
vars == <<alive, handle, caller, running, threadVars, startedTwice>>

TypeOK ==
  /\ alive \in BOOLEAN
  /\ handle \in BOOLEAN
  /\ caller \in {"idle", "stop", "destroy"}
  /\ running \in BOOLEAN
  /\ conn \in [Conns -> {"none", "received", "queued"}]
  /\ cur \in Conns \cup {None}
  /\ step \in {"respond", "queue", "destroy"}
  /\ resp \in [Conns -> {"none", "text", "file"}]
  /\ refs \in [Conns -> 0 .. 2]
  /\ fds \in Nat
  /\ leaked \in 0 .. MaxLeaked
  /\ startedTwice \in BOOLEAN

Init ==
  /\ alive = TRUE
  /\ handle = FALSE
  /\ caller = "idle"
  /\ running = FALSE
  /\ conn = [c \in Conns |-> "none"]
  /\ cur = None
  /\ step = "respond"
  /\ resp = [c \in Conns |-> "none"]
  /\ refs = [c \in Conns |-> 0]
  /\ fds = 0
  /\ leaked = 0
  /\ startedTwice = FALSE

-----------------------------------------------------------------------------
(* The client's thread. *)

ClientReady == alive /\ caller = "idle"

\* start: the daemon gets its thread when the port is free, unless that fails;
\* the handle is overwritten in any case.
Start ==
  /\ ClientReady
  /\ handle => StartsTwice
  /\ \/ ~ running /\ running' = TRUE /\ handle' = TRUE
     \/ running' = running /\ handle' = FALSE
  /\ startedTwice' = (startedTwice \/ handle)
  /\ UNCHANGED <<alive, caller, threadVars>>

\* stop, 1: MHD_stop_daemon() is called.
Stop ==
  /\ ClientReady
  /\ handle
  /\ caller' = "stop"
  /\ UNCHANGED <<alive, handle, running, threadVars, startedTwice>>

\* The destructor calls stop().
Destroy ==
  /\ ClientReady
  /\ \/ handle /\ caller' = "destroy" /\ UNCHANGED alive
     \/ ~ handle /\ alive' = FALSE /\ UNCHANGED caller
  /\ UNCHANGED <<handle, running, threadVars, startedTwice>>

\* Mutant: MHD_quiesce_daemon() and no wait for the thread.
StoppedAtOnce ==
  /\ caller # "idle"
  /\ running' = FALSE
  /\ handle' = FALSE
  /\ alive' = (caller = "stop")
  /\ caller' = "idle"
  /\ conn' = [c \in Conns |-> "none"]
  /\ resp' = [c \in Conns |-> "none"]
  /\ refs' = [c \in Conns |-> 0]
  /\ fds' = leaked
  /\ UNCHANGED <<cur, step, leaked, startedTwice>>

\* Mutant: it waits until every response is sent.
StoppedWhenDrained ==
  /\ caller # "idle"
  /\ cur = None
  /\ \A c \in Conns : conn[c] = "none"
  /\ running' = FALSE
  /\ handle' = FALSE
  /\ alive' = (caller = "stop")
  /\ caller' = "idle"
  /\ UNCHANGED <<threadVars, startedTwice>>

\* Mutant: _daemon is not reset.
StoppedKeepsHandle ==
  /\ caller # "idle"
  /\ cur = None
  /\ running' = FALSE
  /\ alive' = (caller = "stop")
  /\ caller' = "idle"
  /\ conn' = [c \in Conns |-> "none"]
  /\ resp' = [c \in Conns |-> "none"]
  /\ refs' = [c \in Conns |-> 0]
  /\ fds' = leaked
  /\ UNCHANGED <<handle, cur, step, leaked, startedTwice>>

\* stop, 2: the thread ends outside of a callback, the daemon drops every
\* connection and its reference to the response.
Stopped ==
  /\ caller # "idle"
  /\ cur = None
  /\ running' = FALSE
  /\ handle' = FALSE
  /\ alive' = (caller = "stop")
  /\ caller' = "idle"
  /\ conn' = [c \in Conns |-> "none"]
  /\ refs' = [c \in Conns |-> IF conn[c] = "queued" THEN refs[c] - 1 ELSE refs[c]]
  /\ resp' = [c \in Conns |-> IF refs'[c] = 0 THEN "none" ELSE resp[c]]
  /\ fds' = fds - Cardinality({ c \in Conns : resp[c] = "file" /\ refs'[c] = 0 })
  /\ UNCHANGED <<cur, step, leaked, startedTwice>>

\* Nothing is left of a server that was destroyed.
Gone == ~ alive /\ ~ running /\ UNCHANGED vars

-----------------------------------------------------------------------------
(* The polling thread. *)

objectVars == <<alive, handle, caller, running, startedTwice>>

\* A request arrives on a connection that has none.
Receive(c) ==
  /\ running
  /\ conn[c] = "none"
  /\ conn' = [conn EXCEPT ![c] = "received"]
  /\ UNCHANGED <<cur, step, resp, refs, fds, leaked, objectVars>>

\* callback, for a GET.
CallBack(c) ==
  /\ running
  /\ cur = None
  /\ conn[c] = "received"
  /\ cur' = c
  /\ step' = "respond"
  /\ UNCHANGED <<conn, resp, refs, fds, leaked, objectVars>>

Return ==
  /\ cur' = None
  /\ step' = "respond"

\* MHD_NO closes the connection.
Refuse(c) == Return /\ conn' = [conn EXCEPT ![c] = "none"]

\* callback, for any other method: post_callback answers nothing either.
CallBackRefuses(c) ==
  /\ running
  /\ cur = None
  /\ conn[c] = "received"
  /\ Refuse(c)
  /\ UNCHANGED <<resp, refs, fds, leaked, objectVars>>

Created(kind) ==
  /\ resp' = [resp EXCEPT ![cur] = kind]
  /\ refs' = [refs EXCEPT ![cur] = 1]
  /\ step' = "queue"

\* make_text_response: a page, or the 404 of an unknown url or of a file that
\* cannot be opened.
RespondText ==
  /\ cur # None
  /\ step = "respond"
  /\ Created("text")
  /\ UNCHANGED <<conn, cur, fds, leaked, objectVars>>

\* Mutant: the file is opened again to read its size.
RespondFileTwice ==
  /\ cur # None
  /\ step = "respond"
  /\ fds' = fds + 2
  /\ Created("file")
  /\ UNCHANGED <<conn, cur, leaked, objectVars>>

\* make_file_response: the response owns the descriptor.
RespondFile ==
  /\ cur # None
  /\ step = "respond"
  /\ fds' = fds + 1
  /\ Created("file")
  /\ UNCHANGED <<conn, cur, leaked, objectVars>>

\* make_file_response: the file has no size, or its response is not created: a
\* 404 is answered, and the descriptor is nobody's.
RespondFileFails ==
  /\ cur # None
  /\ step = "respond"
  /\ leaked < MaxLeaked
  /\ fds' = fds + 1
  /\ leaked' = leaked + 1
  /\ Created("text")
  /\ UNCHANGED <<conn, cur, objectVars>>

\* Not even a text response is created.
RespondNothing ==
  /\ cur # None
  /\ step = "respond"
  /\ Refuse(cur)
  /\ UNCHANGED <<resp, refs, fds, leaked, objectVars>>

\* Mutant: when the response cannot be queued, another is made.
QueueAgain ==
  /\ cur # None
  /\ step = "queue"
  /\ \/ /\ conn' = [conn EXCEPT ![cur] = "queued"]
        /\ refs' = [refs EXCEPT ![cur] = @ + 1]
        /\ step' = "destroy"
     \/ step' = "respond" /\ UNCHANGED <<conn, refs>>
  /\ UNCHANGED <<cur, resp, fds, leaked, objectVars>>

\* MHD_queue_response takes a reference, or fails.
Queue ==
  /\ cur # None
  /\ step = "queue"
  /\ \/ /\ conn' = [conn EXCEPT ![cur] = "queued"]
        /\ refs' = [refs EXCEPT ![cur] = @ + 1]
     \/ UNCHANGED <<conn, refs>>
  /\ step' = "destroy"
  /\ UNCHANGED <<cur, resp, fds, leaked, objectVars>>

\* The last reference frees the response, which closes its descriptor.
Release(c) ==
  /\ refs' = [refs EXCEPT ![c] = @ - 1]
  /\ resp' = [resp EXCEPT ![c] = IF refs[c] = 1 THEN "none" ELSE @]
  /\ fds' = IF refs[c] = 1 /\ resp[c] = "file" THEN fds - 1 ELSE fds

\* Mutant: the response is only destroyed when it was queued.
DestroyResponseQueued ==
  /\ cur # None
  /\ step = "destroy"
  /\ IF conn[cur] = "queued"
     THEN Release(cur) /\ Return /\ UNCHANGED conn
     ELSE Refuse(cur) /\ UNCHANGED <<refs, resp, fds>>
  /\ UNCHANGED <<leaked, objectVars>>

\* MHD_destroy_response gives the callback's reference up, and get_callback
\* returns what MHD_queue_response returned.
DestroyResponse ==
  /\ cur # None
  /\ step = "destroy"
  /\ Release(cur)
  /\ IF conn[cur] = "queued" THEN Return /\ UNCHANGED conn ELSE Refuse(cur)
  /\ UNCHANGED <<leaked, objectVars>>

\* The daemon has sent a response, or its client is gone.
Sent(c) ==
  /\ running
  /\ cur = None
  /\ conn[c] = "queued"
  /\ Release(c)
  /\ conn' = [conn EXCEPT ![c] = "none"]
  /\ UNCHANGED <<cur, step, leaked, objectVars>>

Respond ==
  RespondText \/ RespondFile \/ RespondFileFails \/ RespondNothing

CallBackStep == Respond \/ Queue \/ DestroyResponse

Next ==
  \/ Start
  \/ Stop
  \/ Destroy
  \/ Stopped
  \/ Gone
  \/ \E c \in Conns : Receive(c) \/ CallBack(c) \/ CallBackRefuses(c) \/ Sent(c)
  \/ CallBackStep

Spec == Init /\ [][Next]_vars

\* A callback runs on, the thread polls every connection again and again and
\* looks at the shutdown flag between callbacks.  The client owes nothing, neither
\* does the reader of a response: the daemon is started without a timeout.
Fairness ==
  /\ WF_vars(CallBackStep)
  /\ \A c \in Conns : SF_vars(CallBack(c) \/ CallBackRefuses(c))
  /\ SF_vars(Stopped)

FairSpec == Spec /\ Fairness

-----------------------------------------------------------------------------
\* A server that is not started twice can be stopped as long as it runs: the
\* handle is null exactly when no thread runs (http_server.cpp:23-43).
StartedMeansRunning == ~ startedTwice => (handle = running)

\* The callback never runs on a server that was destroyed: the destructor waits
\* for the thread (http_server.cpp:19-21, 38-43).
CallBackOnLiveServer == cur # None /\ ~ startedTwice => alive

\* Each response is freed once it was sent, refused by the queue, or dropped with
\* its connection, whenever the server is stopped; until then it has one
\* reference of the callback and one of the connection (http_server.cpp:84-88).
ResponsesBalanced ==
  \A c \in Conns :
    refs[c] = (IF conn[c] = "queued" THEN 1 ELSE 0)
              + (IF cur = c /\ step # "respond" THEN 1 ELSE 0)

\* The descriptors open are those of the responses that exist and those that
\* make_file_response lost on its two failing paths (http_server.cpp:136-145).
DescriptorsAccounted ==
  fds = leaked + Cardinality({ c \in Conns : resp[c] = "file" })

\* Every request is given its response, or its connection closed, stop or not,
\* however many other requests arrive (http_server.cpp:45-89).
RequestsEnd == \A c \in Conns : conn[c] = "received" ~> conn[c] # "received"

\* stop() and the destructor return, whatever the thread is doing when they are
\* called and however many requests keep arriving (http_server.cpp:19-21, 38-43).
StopReturns == caller # "idle" ~> caller = "idle"

=============================================================================

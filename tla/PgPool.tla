------------------------------- MODULE PgPool -------------------------------
(***************************************************************************)
(* PgPool (src/pg/pg.cpp): the queries of a pool of asynchronous libpq     *)
(* connections — execute(), cancel(), detach(), the loss of a connection,  *)
(* reconnecting under the backoff, heartbeat(), and the finish of a stop   *)
(* (fail_stranded()) — over a server and a network that fail.              *)
(*                                                                         *)
(* The pool runs on one thread.  `at` is where that thread stands: "loop"  *)
(* is epoll_wait, everything else a handler in progress.  A handler is one *)
(* action where nothing of the program can run inside it, and several,     *)
(* tied by `at`, where a module's own code runs in the middle (a result    *)
(* handler, a loss handler) and may call execute(), cancel() and detach(). *)
(* Only the server and the network move between those steps.               *)
(*                                                                         *)
(* Configuration modelled: max_conns = min_conns, no lifetime, not lazy,   *)
(* so that grow_for_queue(), close_idle() and the retirement return at     *)
(* their first test; libpq 17, where a cancel is a connection of its own.  *)
(* A PGconn whose PQstatus went BAD is dealt with by the very call that    *)
(* found out, so the connected() tests of a Ready or Busy connection       *)
(* always succeed and are left out.                                        *)
(***************************************************************************)
EXTENDS Integers, FiniteSets, SequencesExt

CONSTANTS
    Query,      \* the statements callers may ask for, each at most once
    Retryable,  \* those asked with PgRetry::if_lost
    Conn,       \* the slots of conns_
    NoQuery, NoConn,
    MinConns,   \* min_conns_ = max_conns_
    MaxFaults   \* bound: failures of the network, the server or the loop

ASSUME ConstantsAssumption ==
    /\ Retryable \subseteq Query
    /\ NoQuery \notin Query /\ NoConn \notin Conn
    /\ IsFiniteSet(Conn) /\ IsFiniteSet(Query)
    /\ MinConns \in Nat \ {0} /\ MaxFaults \in Nat
    \* conns_.size() < max_conns_ + min_conns_ before every new connection
    /\ Cardinality(Conn) = 2 * MinConns

VARIABLES
    \* --- the queries
    queue,        \* queue_
    cur,          \* cur[c]: c's current_query(), owned by inflight_
    lost,         \* lost_
    lostTimer,    \* lost_timer_ is armed
    asked,        \* execute() was called
    marked,       \* queries with mark_canceled()
    canceledIds,  \* canceled_ids_
    detached,     \* detached_
    detachedQ,    \* queries with mark_detached()
    \* --- the connections
    state,        \* PgConnection::state(), "none": the slot is free
    partial,      \* needs_flush(): the tail of the statement is still here
    pend,         \* cancel_pending(), NoQuery for 0
    fresh,        \* connects started in the current connect_round_
    backoff,      \* now < next_connect_attempt_
    timer,        \* reconnect_timer_ is armed
    probed,       \* pool_probed_
    waited,       \* pool_waited_
    \* --- the thread
    at,           \* where the loop's thread stands
    on,           \* the connection whose on_io() or end_cancel() it is in
    \* --- the world outside
    link,         \* the session's socket: up, cut (silent), closed (EOF read)
    srv,          \* what the session's server has: none, running, answered
    sent,         \* connections whose backend a cancel packet may still hit
    orphans,      \* statements an abandoned session may still run
    faults,
    \* --- history
    told,         \* told[q]: how often q's caller was told
    canceled,     \* queries canceled before their callers were told
    ran,          \* ran[q]: how often the server ran q
    killed,       \* statements ended by a cancel packet
    strandedCalls \* fail_stranded() calls in a row that left a stranded queue

queries == <<queue, cur, lost, lostTimer, asked, marked, canceledIds, detached, detachedQ>>
conns   == <<state, partial, pend, fresh, backoff, timer, probed, waited>>
world   == <<link, srv, sent, orphans, faults>>
history == <<told, canceled, ran, killed, strandedCalls>>
session == <<partial, pend, link, srv, sent, orphans>>

vars == <<queries, conns, at, on, world, history>>

ConnStates == {"none", "Connecting", "Ready", "Busy", "Error"}
Places     == {"start", "loop", "handler", "dispatch", "lost", "tell",
               "beat", "beatDrain", "stallDrain"}

\* Code of the program's modules runs: in a result handler, in a loss handler,
\* or from a handler of the loop that is not the pool's.
UserCode == at \in {"loop", "handler", "lost"}

-----------------------------------------------------------------------------
(* Init: the pool is constructed, start() is next.                         *)

Init ==
    /\ queue = <<>> /\ lost = <<>> /\ lostTimer = FALSE
    /\ cur = [c \in Conn |-> NoQuery]
    /\ asked = {} /\ marked = {} /\ canceledIds = {}
    /\ detached = FALSE /\ detachedQ = {}
    /\ state = [c \in Conn |-> "none"]
    /\ partial = [c \in Conn |-> FALSE]
    /\ pend = [c \in Conn |-> NoQuery]
    /\ fresh = {} /\ backoff = FALSE /\ timer = FALSE
    /\ probed = FALSE /\ waited = FALSE
    /\ at = "start" /\ on = NoConn
    /\ link = [c \in Conn |-> "up"]
    /\ srv = [c \in Conn |-> "none"]
    /\ sent = {} /\ orphans = {} /\ faults = 0
    /\ told = [q \in Query |-> 0]
    /\ ran = [q \in Query |-> 0]
    /\ canceled = {} /\ killed = {} /\ strandedCalls = 0

-----------------------------------------------------------------------------
(* Connections.                                                            *)

\* healthy_count(): a connection that has a socket and is not in Error.
Healthy(st) == Cardinality({c \in Conn : st[c] \in {"Connecting", "Ready", "Busy"}})

Unused(st) == {c \in Conn : st[c] = "none"}

\* How many connections ensure_min_connections() opens.
Needed(st) ==
    LET short == MinConns - Healthy(st)
        room  == Cardinality(Unused(st))
    IN  IF short < room THEN short ELSE room

\* new_connection() in a row, from the connections st and the rounds fr, with
\* the backoff bo, the reconnect timer tm and f faults so far: all started;
\* deferred to the timer; or one that connect_start() or the loop refuses.  A
\* refused connect_start() is a failed connect of this round: the connections
\* after it are deferred.  The loop's refusal is an exception: nothing follows.
Started(st, fr, bo, tm, f) ==
    \E new \in SUBSET Unused(st) :
        /\ Cardinality(new) = Needed(st)
        /\ state' = [c \in Conn |-> IF c \in new THEN "Connecting" ELSE st[c]]
        /\ fresh' = fr \cup new
        /\ backoff' = bo /\ timer' = tm /\ faults' = f

Deferred(st, fr, tm, f) ==
    /\ state' = st /\ fresh' = fr
    /\ backoff' = TRUE /\ timer' = TRUE /\ faults' = f

ConnectRefused(st, fr, tm, f) ==
    /\ f < MaxFaults
    /\ \E new \in SUBSET Unused(st) :
        /\ Cardinality(new) < Needed(st)
        /\ state' = [c \in Conn |-> IF c \in new THEN "Connecting" ELSE st[c]]
        /\ fresh' = {}
        /\ backoff' = TRUE
        /\ timer' = (tm \/ Cardinality(new) + 1 < Needed(st))
        /\ faults' = f + 1

EnsureMinThrows(st, fr, bo, tm, f) ==
    /\ f < MaxFaults /\ ~bo
    /\ \E new \in SUBSET Unused(st) :
        /\ Cardinality(new) < Needed(st)
        /\ state' = [c \in Conn |-> IF c \in new THEN "Connecting" ELSE st[c]]
        /\ fresh' = fr \cup new
        /\ backoff' = bo /\ timer' = tm /\ faults' = f + 1

\* ensure_min_connections() when it returns.
EnsureMinReturns(st, fr, bo, tm, f) ==
    IF Needed(st) <= 0
    THEN state' = st /\ fresh' = fr /\ backoff' = bo /\ timer' = tm /\ faults' = f
    ELSE IF bo THEN Deferred(st, fr, tm, f)
               ELSE Started(st, fr, bo, tm, f) \/ ConnectRefused(st, fr, tm, f)

\* ... and when it may throw as well, to a caller that has nothing left to do.
EnsureMin(st, fr, bo, tm, f) ==
    EnsureMinReturns(st, fr, bo, tm, f) \/ EnsureMinThrows(st, fr, bo, tm, f)

\* The session of c is over on this side, by a reset or by the end of the
\* connection: its cancel request names a backend nobody uses any more, and a
\* statement that got through whole may still run, and commit, over there.
Forget(c, whole) ==
    /\ partial' = [partial EXCEPT ![c] = FALSE]
    /\ pend' = [pend EXCEPT ![c] = NoQuery]
    /\ sent' = sent \ {c}
    /\ link' = [link EXCEPT ![c] = "up"]
    /\ srv' = [srv EXCEPT ![c] = "none"]
    /\ orphans' = IF whole THEN orphans \cup {cur[c]} ELSE orphans

\* try_reconnect(c), and replace_connection(c) where the reset could not start.
\* A socket the loop refuses leaves c in Error, by an exception.
Reconnect(c, f) ==
    /\ UNCHANGED <<probed, waited>>
    /\ \/ /\ state' = [state EXCEPT ![c] = "Connecting"]
          /\ fresh' = fresh \cup {c}
          /\ faults' = f
          /\ UNCHANGED <<backoff, timer>>
       \/ /\ f < MaxFaults
          /\ EnsureMin([state EXCEPT ![c] = "none"], fresh \ {c}, backoff, timer, f + 1)
       \/ /\ f < MaxFaults
          /\ state' = [state EXCEPT ![c] = "Error"]
          /\ fresh' = fresh \ {c}
          /\ faults' = f + 1
          /\ UNCHANGED <<backoff, timer>>

-----------------------------------------------------------------------------
(* Queries.                                                                *)

Queued == Range(queue)
Lost   == Range(lost)

\* Mutant: an idle connection's null query is taken for one.
InFlightWithIdle == {cur[c] : c \in Conn}

InFlight == {cur[c] : c \in Conn} \ {NoQuery}

\* Mutants: the query is not put back; detach() leaves the order alone.
NotEnqueued(s, q) == {s}
EnqueuedLast(s, q) == {Append(s, q)}

\* enqueue() of q to the sequence s: at the back, but after detach() a query
\* somebody waits for goes before the first detached one.
Enqueued(s, q) ==
    LET turn(i) == IF detached /\ q \notin detachedQ
                   THEN /\ \A j \in 1..i - 1 : s[j] \notin detachedQ
                        /\ i <= Len(s) => s[i] \in detachedQ
                   ELSE i = Len(s) + 1
    IN  {InsertAt(s, i, q) : i \in {j \in 1..Len(s) + 1 : turn(j)}}

\* Mutant: re-queued whatever was sent of it, as before PgRetry.
AlwaysRepeated(q, part) == TRUE

MayRepeat(q, part) == part \/ q \in Retryable

\* fail_inflight_query(c), with `part` for needs_flush(): dropped if canceled,
\* taken back if it was not sent whole or may be repeated, otherwise lost_.
\* Uses one fault when the loop refuses the timer that tells the caller.
FailInflight(c, part, refused) ==
    LET q == cur[c] IN
    /\ cur' = [cur EXCEPT ![c] = NoQuery]
    /\ IF q = NoQuery \/ q \in marked
       THEN UNCHANGED <<queue, lost, lostTimer>> /\ refused = 0
       ELSE IF MayRepeat(q, part)
       THEN queue' \in Enqueued(queue, q) /\ UNCHANGED <<lost, lostTimer>> /\ refused = 0
       ELSE /\ lost' = Append(lost, q)
            /\ lostTimer' = (lostTimer \/ refused = 0)
            /\ UNCHANGED queue

\* The connection is lost: its query taken off it, the connection reset or
\* replaced.  `whole`: the server has the statement and has not run it yet.
Lose(c, part, whole, f) ==
    /\ \E refused \in {0, 1} :
        /\ f + refused <= MaxFaults
        /\ FailInflight(c, part, refused)
        /\ Reconnect(c, f + refused)
    /\ Forget(c, whole)
    /\ UNCHANGED <<asked, marked, canceledIds, detached, detachedQ>>
    /\ UNCHANGED <<on, history>>

Running(c) == srv[c] = "running"

\* PgPool::send_query() of q on c that succeeds: whole, or with a tail still to
\* flush (and EPOLLOUT asked for).  A socket that is cut takes it all the same.
Sent(c, q) ==
    /\ link[c] # "closed"
    /\ cur' = [cur EXCEPT ![c] = q]
    /\ \E tail \in BOOLEAN :
        /\ partial' = [partial EXCEPT ![c] = tail]
        /\ srv' = [srv EXCEPT ![c] = IF tail \/ link[c] = "cut" THEN "none" ELSE "running"]

\* ... that fails: for nothing where the two reads before it find the session
\* closed; else it takes a fault — libpq, or the loop asked to watch for the
\* tail, refuses, and the server is left without a whole statement to run.
SendFails(C) == Cardinality({c \in C : link[c] # "closed"})

-----------------------------------------------------------------------------
(* execute(), cancel(), detach()                                           *)

\* Mutant: a connection with a cancel on its way takes the next query.
FreeWhileCanceling == {c \in Conn : state[c] = "Ready"}

\* The connections execute() and dispatch_queue() may send on.
Free == {c \in Conn : state[c] = "Ready" /\ pend[c] = NoQuery}

\* The connections B met on the way, none of which takes the query: set to
\* Error and reset; in E the reset does not start, or the loop refuses it.
AfterBroken(B, E) ==
    [c \in Conn |-> IF c \in E THEN "Error" ELSE IF c \in B THEN "Connecting" ELSE state[c]]

Cost(B, E) == SendFails(B) + Cardinality(E)

BrokenOnTheWay(B) ==
    /\ link' = [c \in Conn |-> IF c \in B THEN "up" ELSE link[c]]
    /\ sent' = sent \ B

\* execute(): sent on a free connection.
ExecuteSends(q) ==
    /\ UserCode /\ q \notin asked
    /\ asked' = asked \cup {q}
    /\ \E B \in SUBSET Free, c \in Free : \E E \in SUBSET B :
        /\ c \notin B
        /\ BrokenOnTheWay(B)
        /\ Sent(c, q)
        /\ state' = [AfterBroken(B, E) EXCEPT ![c] = "Busy"]
        /\ fresh' = fresh \cup (B \ E)
        /\ faults + Cost(B, E) <= MaxFaults
        /\ faults' = faults + Cost(B, E)
    /\ UNCHANGED <<queue, lost, lostTimer, marked, canceledIds, detached, detachedQ>>
    /\ UNCHANGED <<pend, backoff, timer, probed, waited, at, on, orphans, history>>

\* execute(): no connection takes it; it waits in the queue.
ExecuteQueues(q) ==
    /\ UserCode /\ q \notin asked
    /\ asked' = asked \cup {q}
    /\ \E E \in SUBSET Free :
        /\ BrokenOnTheWay(Free)
        /\ faults + Cost(Free, E) <= MaxFaults
        /\ EnsureMinReturns(AfterBroken(Free, E), fresh \cup (Free \ E), backoff, timer,
                            faults + Cost(Free, E))
    /\ queue' \in Enqueued(queue, q)
    /\ UNCHANGED <<cur, lost, lostTimer, marked, canceledIds, detached, detachedQ>>
    /\ UNCHANGED <<partial, pend, probed, waited, at, on, srv, orphans, history>>

\* execute() ends in an exception: the loop refuses the socket of a reset or of
\* a new connection, or to watch for the tail.  The query is gone, and its
\* caller has been told.
ExecuteThrows(q) ==
    /\ UserCode /\ q \notin asked
    /\ asked' = asked \cup {q}
    /\ told' = [told EXCEPT ![q] = @ + 1]
    /\ \/ \E B \in SUBSET Free : \E E \in SUBSET B :
            /\ B # {}
            /\ BrokenOnTheWay(B)
            /\ state' = AfterBroken(B, E)
            /\ fresh' = fresh \cup (B \ E)
            /\ faults + Cost(B, E) < MaxFaults
            /\ faults' = faults + Cost(B, E) + 1
            /\ UNCHANGED <<backoff, timer>>
       \/ \E E \in SUBSET Free :
            /\ BrokenOnTheWay(Free)
            /\ EnsureMinThrows(AfterBroken(Free, E), fresh \cup (Free \ E), backoff, timer,
                               faults + Cost(Free, E))
    /\ UNCHANGED <<queue, cur, lost, lostTimer, marked, canceledIds, detached, detachedQ>>
    /\ UNCHANGED <<partial, pend, probed, waited, at, on, srv, orphans>>
    /\ UNCHANGED <<canceled, ran, killed, strandedCalls>>

\* The caller of cancel(): a query it has not heard of is canceled from here on.
NotedCanceled(q) ==
    /\ canceled' = IF told[q] = 0 THEN canceled \cup {q} ELSE canceled
    /\ UNCHANGED <<told, ran, killed, strandedCalls>>

\* cancel() of a query in flight on c: marked, and a request started unless one
\* is under way already, or starting it fails.
CancelInFlight(q, c) ==
    /\ UserCode /\ q \in asked /\ cur[c] = q
    /\ marked' = marked \cup {q}
    /\ \/ pend' = [pend EXCEPT ![c] = q] /\ UNCHANGED faults
       \/ /\ pend[c] # q /\ faults < MaxFaults
          /\ faults' = faults + 1 /\ UNCHANGED pend
    /\ NotedCanceled(q)
    /\ UNCHANGED <<queue, cur, lost, lostTimer, asked, canceledIds, detached, detachedQ>>
    /\ UNCHANGED <<state, partial, fresh, backoff, timer, probed, waited, at, on>>
    /\ UNCHANGED <<link, srv, sent, orphans>>

\* cancel() of a query in lost_: not told.
CancelLost(q) ==
    /\ UserCode /\ q \in Lost
    /\ marked' = marked \cup {q}
    /\ NotedCanceled(q)
    /\ UNCHANGED <<queue, cur, lost, lostTimer, asked, canceledIds, detached, detachedQ>>
    /\ UNCHANGED <<conns, at, on, world>>

\* cancel() of any other query, queued or not: its id is put down.
CancelById(q) ==
    /\ UserCode /\ q \in asked \ (InFlight \cup Lost)
    /\ canceledIds' = canceledIds \cup {q}
    /\ NotedCanceled(q)
    /\ UNCHANGED <<queue, cur, lost, lostTimer, asked, marked, detached, detachedQ>>
    /\ UNCHANGED <<conns, at, on, world>>

Cancel(q) == \/ \E c \in Conn : CancelInFlight(q, c)
             \/ CancelLost(q)
             \/ CancelById(q)

\* detach(): nothing asked for so far is told any more.
Detach ==
    /\ UserCode /\ ~detached
    /\ detached' = TRUE
    /\ detachedQ' = Queued \cup InFlight \cup Lost
    /\ UNCHANGED <<queue, cur, lost, lostTimer, asked, marked, canceledIds>>
    /\ UNCHANGED <<conns, at, on, world, history>>

-----------------------------------------------------------------------------
(* on_io()                                                                 *)

\* start(), and the start of on_io(), of a timer, of a module's call.
Loop == at = "loop"

Start ==
    /\ at = "start" /\ at' = "loop"
    /\ EnsureMin(state, fresh, backoff, timer, faults)
    /\ UNCHANGED <<queries, partial, pend, probed, waited, on, link, srv, sent, orphans, history>>

\* The handshake is over: record_connect_success(), then the queue.
ConnectOk(c) ==
    /\ Loop /\ state[c] = "Connecting"
    /\ state' = [state EXCEPT ![c] = "Ready"]
    /\ fresh' = fresh \ {c}
    /\ backoff' = FALSE /\ probed' = FALSE /\ waited' = FALSE
    /\ strandedCalls' = 0
    /\ at' = "dispatch" /\ on' = c
    /\ UNCHANGED <<queries, partial, pend, timer, world, told, canceled, ran, killed>>

\* The handshake fails, runs out of time (on_handshake_watch()), leaves no
\* socket, or the loop refuses the one it ended with: record_connect_failure()
\* — a step of the backoff for the first failure of a round — and replaced.
ConnectFailed(c) ==
    /\ Loop /\ state[c] = "Connecting" /\ faults < MaxFaults
    /\ EnsureMin([state EXCEPT ![c] = "none"],
                 IF c \in fresh THEN {} ELSE fresh,
                 backoff \/ c \in fresh, timer, faults + 1)
    /\ UNCHANGED <<queries, partial, pend, probed, waited, at, on>>
    /\ UNCHANGED <<link, srv, sent, orphans, history>>

\* The tail of the statement goes out.  A socket the loop has stopped watching
\* (modify_io()) is a lost connection, with the statement whole on its way.
Flush(c) ==
    /\ Loop /\ state[c] = "Busy" /\ partial[c] /\ link[c] # "closed"
    /\ \/ /\ partial' = [partial EXCEPT ![c] = FALSE]
          /\ srv' = [srv EXCEPT ![c] = IF link[c] = "up" THEN "running" ELSE @]
          /\ UNCHANGED <<queries, state, pend, fresh, backoff, timer, probed, waited>>
          /\ UNCHANGED <<at, on, link, sent, orphans, faults, history>>
       \/ /\ faults < MaxFaults
          /\ Lose(c, FALSE, link[c] = "up", faults + 1)
          /\ UNCHANGED at

\* Mutant: detach() does not reach a query in flight or in lost_.
SilentIfCanceled(q) == q \in marked

\* A query whose handlers are not called: canceled, or detached.
Silent(q) == q \in marked \cup detachedQ

\* The answer is complete, and somebody waits for it: handed to the result
\* handler, or to the error handler where the statement failed.
ResultArrives(c) ==
    /\ Loop /\ state[c] = "Busy" /\ srv[c] = "answered" /\ link[c] # "cut"
    /\ cur' = [cur EXCEPT ![c] = NoQuery]
    /\ state' = [state EXCEPT ![c] = "Ready"]
    /\ srv' = [srv EXCEPT ![c] = "none"]
    /\ on' = c
    /\ IF Silent(cur[c])
       THEN at' = "dispatch" /\ UNCHANGED told
       ELSE at' = "handler" /\ told' = [told EXCEPT ![cur[c]] = @ + 1]
    /\ UNCHANGED <<queue, lost, lostTimer, asked, marked, canceledIds, detached, detachedQ>>
    /\ UNCHANGED <<partial, pend, fresh, backoff, timer, probed, waited>>
    /\ UNCHANGED <<link, sent, orphans, faults, canceled, ran, killed, strandedCalls>>

HandlerReturns ==
    /\ at = "handler" /\ at' = "dispatch"
    /\ UNCHANGED <<queries, conns, on, world, history>>

\* The end of input is read, with no complete answer before it.
ConnectionLost(c) ==
    /\ Loop /\ state[c] \in {"Ready", "Busy"} /\ link[c] = "closed"
    /\ Lose(c, partial[c], Running(c), faults)
    /\ UNCHANGED at

\* dispatch_queue(c) takes the canceled queries off the front: n of them.
CanceledInFront(n) ==
    /\ \A i \in 1..n : queue[i] \in canceledIds
    /\ n < Len(queue) => queue[n + 1] \notin canceledIds
    /\ canceledIds' = canceledIds \ {queue[i] : i \in 1..n}

After(n) == SubSeq(queue, n + 1, Len(queue))

\* dispatch_queue(c) with nothing to send, or nothing to send it on.
DispatchNothing(c) ==
    /\ \E n \in 0..Len(queue) :
        /\ CanceledInFront(n)
        /\ n = Len(queue) \/ c \notin Free
        /\ queue' = After(n)
    /\ UNCHANGED <<cur, lost, lostTimer, asked, marked, detached, detachedQ>>
    /\ UNCHANGED <<conns, world, history>>

\* dispatch_queue(c): the first query left goes out.
DispatchSends(c) ==
    /\ c \in Free
    /\ \E n \in 0..Len(queue) - 1 :
        /\ CanceledInFront(n)
        /\ queue' = After(n + 1)
        /\ Sent(c, queue[n + 1])
    /\ state' = [state EXCEPT ![c] = "Busy"]
    /\ UNCHANGED <<lost, lostTimer, asked, marked, detached, detachedQ>>
    /\ UNCHANGED <<pend, fresh, backoff, timer, probed, waited>>
    /\ UNCHANGED <<link, sent, orphans, faults, history>>

\* dispatch_queue(c): the send fails; the query is queued again and c is reset.
\* That the reset did not start is passed over: c is left in Error.
DispatchFails(c) ==
    /\ c \in Free
    /\ \E n \in 0..Len(queue) - 1, E \in SUBSET {c} :
        /\ CanceledInFront(n)
        /\ queue' \in Enqueued(After(n + 1), queue[n + 1])
        /\ faults + Cost({c}, E) <= MaxFaults
        /\ faults' = faults + Cost({c}, E)
        /\ state' = AfterBroken({c}, E)
        /\ fresh' = fresh \cup ({c} \ E)
    /\ BrokenOnTheWay({c})
    /\ UNCHANGED <<cur, lost, lostTimer, asked, marked, detached, detachedQ>>
    /\ UNCHANGED <<partial, pend, backoff, timer, probed, waited>>
    /\ UNCHANGED <<srv, orphans, history>>

DispatchQueue(c) == DispatchNothing(c) \/ DispatchSends(c) \/ DispatchFails(c)

\* The last thing on_io() and end_cancel() do.
Dispatch ==
    /\ at = "dispatch" /\ at' = "loop" /\ on' = NoConn
    /\ DispatchQueue(on)

-----------------------------------------------------------------------------
(* A cancel request on its way, and the stall watch.                       *)

\* The request's packet leaves: its socket connected, or it awaits the server.
CancelLeaves(c) ==
    /\ Loop /\ pend[c] # NoQuery /\ c \notin sent
    /\ sent' = sent \cup {c}
    /\ UNCHANGED <<queries, conns, at, on, link, srv, orphans, faults, history>>

\* end_cancel(): delivered, or failed with nothing sent; c takes queries again.
CancelEnds(c) ==
    /\ Loop /\ pend[c] # NoQuery
    /\ \/ c \in sent /\ UNCHANGED faults
       \/ c \notin sent /\ faults < MaxFaults /\ faults' = faults + 1
    /\ pend' = [pend EXCEPT ![c] = NoQuery]
    /\ sent' = sent \ {c}
    /\ at' = "dispatch" /\ on' = c
    /\ UNCHANGED <<queries, state, partial, fresh, backoff, timer, probed, waited>>
    /\ UNCHANGED <<link, srv, orphans, history>>

\* end_cancel(): failed, or given up by its timer, with the packet perhaps on
\* its way: the backend it names is given up.
CancelFails(c) ==
    /\ Loop /\ pend[c] # NoQuery /\ c \in sent /\ faults < MaxFaults
    /\ Lose(c, partial[c], Running(c), faults + 1)
    /\ UNCHANGED at

\* drop_stalled(): no answer, none to read, for longer than the stall timeout.
\* The idle connections are handed the queue.
Stall(c) ==
    /\ Loop /\ state[c] = "Busy"
    /\ link[c] = "cut" \/ (link[c] = "up" /\ srv[c] # "answered" /\ faults < MaxFaults)
    /\ Lose(c, partial[c], Running(c), IF link[c] = "up" THEN faults + 1 ELSE faults)
    /\ at' = "stallDrain"

-----------------------------------------------------------------------------
(* Timers: reconnecting, heartbeat(), deliver_lost().                      *)

ReconnectTimer ==
    /\ Loop /\ timer
    /\ EnsureMin(state, fresh, backoff, FALSE, faults)
    /\ UNCHANGED <<queries, partial, pend, probed, waited, at, on>>
    /\ UNCHANGED <<link, srv, sent, orphans, history>>

\* Mutant: nobody calls heartbeat().
NeverDue == FALSE

\* A heartbeat that finds nothing to do changes nothing.
HeartbeatDue ==
    \/ \E c \in Conn : state[c] = "Error"
    \/ Needed(state) > 0 /\ ~(backoff /\ timer)
    \/ queue # <<>> /\ Free # {}
    \/ queue # <<>> /\ Head(queue) \in canceledIds /\ \E c \in Conn : state[c] = "Ready"
    \/ lost # <<>> /\ ~lostTimer

Heartbeat ==
    /\ Loop /\ HeartbeatDue
    /\ at' = "beat"
    /\ UNCHANGED <<queries, conns, on, world, history>>

\* A connection left in Error is replaced.
HeartbeatReplaces(c) ==
    /\ at = "beat" /\ state[c] = "Error"
    /\ EnsureMin([state EXCEPT ![c] = "none"], fresh, backoff, timer, faults)
    /\ UNCHANGED <<queries, partial, pend, probed, waited, at, on>>
    /\ UNCHANGED <<link, srv, sent, orphans, history>>

\* None is left: the minimum is restored.
HeartbeatRestores ==
    /\ at = "beat" /\ \A c \in Conn : state[c] # "Error"
    /\ EnsureMin(state, fresh, backoff, timer, faults)
    /\ at' = "beatDrain"
    /\ UNCHANGED <<queries, partial, pend, probed, waited, on>>
    /\ UNCHANGED <<link, srv, sent, orphans, history>>

\* Each Ready connection is handed the queue, while there is one.
Drain(c) ==
    /\ at \in {"beatDrain", "stallDrain"}
    /\ queue # <<>> /\ c \in Free
    /\ DispatchQueue(c)
    /\ UNCHANGED <<at, on>>

\* heartbeat() arms what the loop refused to arm for lost_.
ArmsLost == at = "beatDrain" /\ lost # <<>>

\* Connections with a cancel on its way only drop what is canceled in front.
DrainEnds ==
    /\ at \in {"beatDrain", "stallDrain"} /\ at' = "loop"
    /\ queue = <<>> \/ Free = {}
    /\ IF queue # <<>> /\ \E c \in Conn : state[c] = "Ready"
       THEN \E n \in 0..Len(queue) : CanceledInFront(n) /\ queue' = After(n)
       ELSE UNCHANGED <<queue, canceledIds>>
    /\ lostTimer' = (lostTimer \/ ArmsLost)
    /\ UNCHANGED <<cur, lost, asked, marked, detached, detachedQ>>
    /\ UNCHANGED <<conns, on, world, history>>

\* lost_timer_ fires: deliver_lost() begins.
LostTimer ==
    /\ Loop /\ lostTimer
    /\ lostTimer' = FALSE /\ at' = "tell"
    /\ UNCHANGED <<queue, cur, lost, asked, marked, canceledIds, detached, detachedQ>>
    /\ UNCHANGED <<conns, on, world, history>>

\* deliver_lost() takes one loss out and, unless canceled or detached, tells.
TellLost ==
    /\ at = "tell" /\ lost # <<>>
    /\ lost' = Tail(lost)
    /\ IF Silent(Head(lost))
       THEN UNCHANGED <<at, told>>
       ELSE at' = "lost" /\ told' = [told EXCEPT ![Head(lost)] = @ + 1]
    /\ UNCHANGED <<queue, cur, lostTimer, asked, marked, canceledIds, detached, detachedQ>>
    /\ UNCHANGED <<conns, on, world, canceled, ran, killed, strandedCalls>>

LostHandlerReturns ==
    /\ at = "lost" /\ at' = "tell"
    /\ UNCHANGED <<queries, conns, on, world, history>>

AllToldOfLoss ==
    /\ at = "tell" /\ lost = <<>> /\ at' = "loop"
    /\ UNCHANGED <<queries, conns, on, world, history>>

-----------------------------------------------------------------------------
(* fail_stranded(), in the finish of a stop.                               *)

\* The positions of s whose elements are in S, in order: s filtered by S is
\* [i \in DOMAIN f |-> s[f[i]]] for the one f in Picks(s, S).
Picks(s, S) ==
    {f \in UNION {[1..n -> 1..Len(s)] : n \in 0..Len(s)} :
        /\ \A i, j \in DOMAIN f : i < j => f[i] < f[j]
        /\ Range(f) = {i \in 1..Len(s) : s[i] \in S}}

Only(s, f) == [i \in DOMAIN f |-> s[f[i]]]

\* sides() for the pool: queries somebody waits for, and no connection up or
\* connecting; `due`, a reconnect within the caller's patience.
Waits == Queued \ (canceledIds \cup detachedQ) # {}

ReconnectDue(tm, bo) == {due \in BOOLEAN : (due => tm) /\ (tm /\ ~bo => due)}

\* A reconnect due is waited for once per outage.
Patient == ~waited

\* Nothing is failed: nobody waits, a connection may still take it, or a
\* reconnect is due and is waited for, once.
StrandedWaits(kept) ==
    LET stranded == Waits /\ Healthy(state) = 0
    IN  /\ \/ ~stranded /\ UNCHANGED <<waited, strandedCalls>>
           \/ /\ stranded /\ Patient /\ TRUE \in ReconnectDue(timer, backoff)
              /\ waited' = TRUE
              /\ strandedCalls' = strandedCalls + 1
        /\ queue' = Only(queue, kept)
        /\ UNCHANGED <<lost, at, state, fresh, backoff, timer, probed, faults>>

\* The queries somebody waits for are failed, and told so at once.
StrandedFail ==
    \E out \in Picks(queue, Query \ (canceledIds \cup detachedQ)),
       left \in Picks(queue, detachedQ \ canceledIds) :
        /\ queue' = Only(queue, left)
        /\ lost' = lost \o Only(queue, out)
        /\ at' = "tell"
        /\ strandedCalls' = 0

\* The first time no reconnect is due: one attempt now, past the backoff, and
\* nothing is failed — unless the loop refuses even that.
StrandedProbes(kept) ==
    /\ Waits /\ Healthy(state) = 0 /\ ~probed
    /\ ~Patient \/ FALSE \in ReconnectDue(timer, backoff)
    /\ probed' = TRUE
    /\ \/ /\ EnsureMinReturns(state, fresh, FALSE, FALSE, faults)
          /\ \E due \in ReconnectDue(timer', backoff') :
                waited' = (waited \/ (due /\ Healthy(state') = 0))
          /\ strandedCalls' = strandedCalls + 1
          /\ queue' = Only(queue, kept)
          /\ UNCHANGED <<lost, at>>
       \/ /\ EnsureMinThrows(state, fresh, FALSE, FALSE, faults)
          /\ UNCHANGED waited
          /\ IF Healthy(state') = 0
             THEN StrandedFail
             ELSE /\ strandedCalls' = strandedCalls + 1
                  /\ queue' = Only(queue, kept)
                  /\ UNCHANGED <<lost, at>>

StrandedFails(kept) ==
    /\ Waits /\ Healthy(state) = 0 /\ probed
    /\ ~Patient \/ FALSE \in ReconnectDue(timer, backoff)
    /\ StrandedFail
    /\ UNCHANGED <<state, fresh, backoff, timer, probed, waited, faults>>

\* fail_stranded(): the canceled queries leave the queue first.
FailStranded ==
    /\ Loop
    /\ canceledIds' = canceledIds \ Queued
    /\ \E kept \in Picks(queue, Query \ canceledIds) :
        StrandedWaits(kept) \/ StrandedProbes(kept) \/ StrandedFails(kept)
    /\ UNCHANGED <<cur, lostTimer, asked, marked, detached, detachedQ>>
    /\ UNCHANGED <<partial, pend, on, link, srv, sent, orphans>>
    /\ UNCHANGED <<told, canceled, ran, killed>>

-----------------------------------------------------------------------------
(* The server, the network, the clock.                                     *)

\* The server runs a statement it has whole, whether or not anyone will read
\* the answer.
ServerRuns(c) ==
    /\ srv[c] = "running"
    /\ ran' = [ran EXCEPT ![cur[c]] = @ + 1]
    /\ srv' = [srv EXCEPT ![c] = IF link[c] = "up" THEN "answered" ELSE "none"]
    /\ UNCHANGED <<queries, conns, at, on, link, sent, orphans, faults>>
    /\ UNCHANGED <<told, canceled, killed, strandedCalls>>

OrphanRuns(q) ==
    /\ q \in orphans
    /\ ran' = [ran EXCEPT ![q] = @ + 1]
    /\ orphans' = orphans \ {q}
    /\ UNCHANGED <<queries, conns, at, on, link, srv, sent, faults>>
    /\ UNCHANGED <<told, canceled, killed, strandedCalls>>

\* The cancel packet reaches the backend, whatever it runs by then.
CancelArrives(c) ==
    /\ c \in sent /\ srv[c] = "running"
    /\ killed' = killed \cup {cur[c]}
    /\ srv' = [srv EXCEPT ![c] = IF link[c] = "up" THEN "answered" ELSE "none"]
    /\ UNCHANGED <<queries, conns, at, on, link, sent, orphans, faults>>
    /\ UNCHANGED <<told, canceled, ran, strandedCalls>>

\* A session ends: with an end of input to read, or cut off in silence.
LinkBreaks(c) ==
    /\ state[c] \in {"Ready", "Busy"} /\ link[c] = "up" /\ faults < MaxFaults
    /\ \E how \in {"closed", "cut"} : link' = [link EXCEPT ![c] = how]
    /\ faults' = faults + 1
    /\ UNCHANGED <<queries, conns, at, on, srv, sent, orphans, history>>

\* Keepalives, or the kernel's retransmissions, give a silent connection up.
CutIsNoticed(c) ==
    /\ link[c] = "cut" /\ link' = [link EXCEPT ![c] = "closed"]
    /\ UNCHANGED <<queries, conns, at, on, srv, sent, orphans, faults, history>>

BackoffExpires ==
    /\ backoff /\ backoff' = FALSE
    /\ UNCHANGED <<queries, state, partial, pend, fresh, timer, probed, waited>>
    /\ UNCHANGED <<at, on, world, history>>

-----------------------------------------------------------------------------
User(q) == ExecuteSends(q) \/ ExecuteQueues(q) \/ ExecuteThrows(q) \/ Cancel(q)

OnConnection(c) ==
    \/ ConnectOk(c) \/ ConnectFailed(c)
    \/ Flush(c) \/ ResultArrives(c) \/ ConnectionLost(c)
    \/ CancelLeaves(c) \/ CancelEnds(c) \/ CancelFails(c)
    \/ Stall(c) \/ HeartbeatReplaces(c) \/ Drain(c)

OnThread ==
    \/ Start \/ HandlerReturns \/ Dispatch
    \/ ReconnectTimer \/ Heartbeat \/ HeartbeatRestores \/ DrainEnds
    \/ LostTimer \/ TellLost \/ LostHandlerReturns \/ AllToldOfLoss

Outside(c) == ServerRuns(c) \/ CancelArrives(c) \/ LinkBreaks(c) \/ CutIsNoticed(c)

Next ==
    \/ \E q \in Query : User(q) \/ OrphanRuns(q)
    \/ Detach \/ FailStranded
    \/ \E c \in Conn : OnConnection(c) \/ Outside(c)
    \/ OnThread
    \/ BackoffExpires

Spec == Init /\ [][Next]_vars

\* The kernel reports a ready socket and an expired timer again and again until
\* the loop has handled it, and heartbeat() is called every minute; a server
\* with a statement runs it; a handshake, unless it fails, ends.
WorldFairness ==
    /\ \A q \in Query : WF_vars(OrphanRuns(q))
    /\ \A c \in Conn :
        \* strong: a caller may cancel() the same query again and again, and
        \* each request ends in between
        /\ SF_vars(Flush(c) \/ ResultArrives(c) \/ ConnectionLost(c))
        /\ WF_vars(ConnectOk(c))
        /\ WF_vars(CancelLeaves(c)) /\ WF_vars(CancelEnds(c))
        /\ WF_vars(HeartbeatReplaces(c)) /\ WF_vars(Drain(c))
        /\ WF_vars(ServerRuns(c)) /\ WF_vars(CutIsNoticed(c))
    /\ WF_vars(BackoffExpires)

Fairness == WorldFairness /\ WF_vars(OnThread)

FairSpec == Spec /\ Fairness

-----------------------------------------------------------------------------
(* Properties.                                                             *)

\* Every variable keeps to its type, and the thread is in on_io() or
\* end_cancel() of a connection exactly where the model says it is.
TypeOK ==
    /\ queue \in Seq(Query) /\ lost \in Seq(Query)
    /\ cur \in [Conn -> Query \cup {NoQuery}]
    /\ lostTimer \in BOOLEAN /\ detached \in BOOLEAN
    /\ asked \subseteq Query /\ marked \subseteq Query
    /\ canceledIds \subseteq Query /\ detachedQ \subseteq Query
    /\ state \in [Conn -> ConnStates] /\ partial \in [Conn -> BOOLEAN]
    /\ pend \in [Conn -> Query \cup {NoQuery}] /\ fresh \subseteq Conn
    /\ backoff \in BOOLEAN /\ timer \in BOOLEAN
    /\ probed \in BOOLEAN /\ waited \in BOOLEAN
    /\ at \in Places /\ on \in Conn \cup {NoConn}
    /\ at \in {"handler", "dispatch"} <=> on # NoConn
    /\ link \in [Conn -> {"up", "cut", "closed"}]
    /\ srv \in [Conn -> {"none", "running", "answered"}]
    /\ sent \subseteq Conn /\ orphans \subseteq Query \cup {NoQuery}
    /\ faults \in 0..MaxFaults
    /\ told \in [Query -> Nat] /\ ran \in [Query -> Nat]
    /\ canceled \subseteq Query /\ killed \subseteq Query \cup {NoQuery}
    /\ strandedCalls \in Nat

\* A query has one owner: the queue, one connection, or lost_ — never two, and
\* never twice the same (the moves of the unique_ptr between queue_, inflight_
\* and lost_).
OnePlace ==
    /\ IsInjective(queue) /\ IsInjective(lost)
    /\ Queued \cap Lost = {}
    /\ \A c \in Conn : cur[c] \notin Queued \cup Lost
    /\ \A c, d \in Conn : cur[c] = cur[d] /\ cur[c] # NoQuery => c = d

\* A query asked for, not told, not canceled and not detached is somewhere the
\* pool will come back to: none is dropped on any path that takes it off a
\* connection, out of the queue or out of lost_.
NothingForgotten ==
    \A q \in asked : told[q] = 0 /\ q \notin canceled \cup detachedQ
                        => q \in Queued \cup InFlight \cup Lost

\* A statement whose caller did not say a repeat is harmless (PgRetry::never)
\* is run at most once, whatever is lost, reset, re-queued or dropped on the
\* way: "it may or may not have been executed, and is not repeated".
NotRunTwice == \A q \in Query \ Retryable : ran[q] <= 1

\* A cancel packet ends no statement but the canceled one ("a request arriving
\* after its query finished would cancel the next one").
CancelHitsItsOwn == killed \subseteq canceled

\* After detach() no query somebody waits for stands behind one nobody waits
\* for (enqueue()).
UndetachedFirst ==
    detached => \A i, j \in DOMAIN queue :
                    i < j /\ queue[i] \in detachedQ => queue[j] \in detachedQ

\* "A fresh outage is failed by the third call at the latest": fail_stranded()
\* leaves a stranded query twice at most while no connect succeeds.
StrandedByThird == strandedCalls <= 2

\* What execute()'s caller sees (AsyncQuery): asked, told once at most, and
\* never told after cancel() or detach().
Phase(q) == IF q \notin asked THEN "new"
            ELSE IF told[q] > 0 THEN "told"
            ELSE IF q \in canceled \cup detachedQ THEN "released"
            ELSE "waiting"

-----------------------------------------------------------------------------
(* The inductive invariant behind the safety properties.                   *)

Placed == Queued \cup InFlight \cup Lost

\* Only a Busy connection has a query, and it always has one; only there does
\* the server have anything, and nothing of it while a tail is unsent.
SessionsAgree ==
    \A c \in Conn :
        /\ state[c] = "Busy" <=> cur[c] # NoQuery
        /\ srv[c] # "none" \/ partial[c] => state[c] = "Busy"
        /\ partial[c] => srv[c] = "none"

\* What the pool still holds was asked for and nobody was told; what was not
\* asked for is nowhere.
HistoryAgrees ==
    /\ Placed \subseteq asked /\ \A q \in Placed : told[q] = 0
    /\ \A q \in Query \ asked : told[q] = 0
    /\ marked \cup canceledIds \cup canceled \cup detachedQ \cup orphans \subseteq asked
    /\ \A q \in Query : told[q] <= 1

\* A statement not to be repeated is in one stage on its way to the server:
\* not there whole, there and to be run, or run.
RunAgrees ==
    \A q \in Query \ Retryable :
        /\ ran[q] <= 1
        /\ q \in Queued \/ q \notin asked => ran[q] = 0 /\ q \notin orphans
        /\ q \in orphans => ran[q] = 0 /\ q \notin InFlight
        /\ \A c \in Conn : cur[c] = q /\ (partial[c] \/ Running(c)) => ran[q] = 0

\* A canceled query bears the mark of the place it is in, and only it.
CancelAgrees ==
    /\ marked \subseteq canceled
    /\ (InFlight \cup Lost) \cap canceled \subseteq marked
    /\ (InFlight \cup Lost) \cap canceledIds = {}
    /\ Queued \cap canceledIds = Queued \cap canceled

\* A cancel packet can only meet the canceled query, or nothing.
RequestsAgree ==
    \A c \in Conn :
        /\ c \in sent => pend[c] # NoQuery
        /\ pend[c] # NoQuery => /\ state[c] \in {"Ready", "Busy"}
                                /\ pend[c] \in canceled
                                /\ cur[c] \in {pend[c], NoQuery}

StrandedAgrees ==
    strandedCalls <= (IF waited THEN 1 ELSE 0) + (IF probed THEN 1 ELSE 0)

\* How the places of a query, its marks, its session and its history agree.
Agreements ==
    /\ SessionsAgree /\ HistoryAgrees /\ RunAgrees /\ CancelAgrees /\ RequestsAgree
    /\ StrandedAgrees
    /\ ~detached => detachedQ = {}

\* Inductive: the parts together hold initially and are kept by every step.
Inv == /\ TypeOK /\ OnePlace /\ NothingForgotten /\ CancelHitsItsOwn /\ UndetachedFirst
       /\ Agreements

-----------------------------------------------------------------------------

Promise == INSTANCE AsyncQuery WITH phase <- [q \in Query |-> Phase(q)],
                                    answers <- told

KeepsPromise == Promise!Spec

\* Nobody waits for good: every query asked for is told, canceled or detached
\* in the end.
Answered == \A q \in Query : Phase(q) = "waiting" ~> Phase(q) # "waiting"

\* Once the failures are over the pool is whole again, for good: it has its
\* connections, none is still marked by a cancel request, and every loss put in
\* lost_ was reported or let go of, also when the loop refused the timer for it.
PoolRestored ==
    <>[](/\ \A c \in Conn : state[c] \in {"none", "Ready", "Busy"} /\ pend[c] = NoQuery
         /\ Healthy(state) >= MinConns
         /\ lost = <<>>)
=============================================================================

----------------------------- MODULE PgPoolSize -----------------------------
(***************************************************************************)
(* How many connections a PgPool has, and which (pg.cpp): the minimum, the *)
(* growth above it while queries wait, the closing of idle ones, and the   *)
(* replacement of a connection past its lifetime by a successor that is    *)
(* opened first.  What becomes of each query is PgPool's matter; here a    *)
(* query is a place in the queue or a Busy connection.                     *)
(*                                                                         *)
(* `ps' holds the members; the operators return the sets of what a call    *)
(* may leave, for libpq may refuse to start a connect or a reset.          *)
(***************************************************************************)
EXTENDS Naturals, Sequences, FiniteSets, FiniteSetsExt, SequencesExt

CONSTANTS Conn, NoConn,
          MinConns, MaxConns,
          MaxQueries,   \* bound: calls of execute()
          MaxFaults     \* bound: connects refused, connections lost, sends failed

VARIABLE ps

Each(S, Op(_)) == UNION {Op(x) : x \in S}

\* A loop: what n rounds of it may leave, the k-th of what those before it left.
Rounds(x, n, Op(_, _)) ==
    LET after[k \in 0 .. n] ==
            IF k = 0 THEN {x} ELSE Each(after[k - 1], LAMBDA u : Op(u, k))
    IN  after[n]

\* A loop over connections.
ForEach(x, S, Op(_, _)) ==
    LET q == SetToSeq(S)
    IN  Rounds(x, Cardinality(S), LAMBDA u, k : Op(u, q[k]))

At(x, states) == {c \in Conn : x.st[c] \in states}

Size(x) == Cardinality(At(x, {"Connecting", "Ready", "Busy", "Error"}))
Healthy(x) == Cardinality(At(x, {"Connecting", "Ready", "Busy"}))
Connecting(x) == Cardinality(At(x, {"Connecting"}))
HasRoom(x) == Size(x) < MaxConns + MinConns

Fault(x) == [x EXCEPT !.faults = @ + 1]
MayFail(x) == x.faults < MaxFaults

----------------------------------------------------------------------------
(* Opening and closing.                                                    *)

\* record_connect_failure(): growth pauses growth, a successor nothing, and of
\* the attempts of one round the first one counts.
ConnectFailure(x, round, counts) ==
    CASE round = "growth"           -> [x EXCEPT !.growthPaused = TRUE]
      [] round = "min" /\ counts    -> [x EXCEPT !.failing = TRUE, !.backoff = TRUE, !.fresh = {}]
      [] OTHER                      -> x

\* new_connection()
NewConnection(x, why) ==
    IF x.backoff THEN {[x EXCEPT !.timer = @ \/ why = "min"]}
    ELSE LET c == CHOOSE c \in Conn : x.st[c] = "none"
         IN  {[x EXCEPT !.st[c] = "Connecting", !.round[c] = why,
                        !.fresh = IF why = "min" THEN @ \cup {c} ELSE @]}
             \cup (IF MayFail(x) THEN {Fault(ConnectFailure(x, why, TRUE))} ELSE {})

\* ensure_min_connections(): an attempt for each one missing, deferred or not.
EnsureMin(x) ==
    Rounds(x, IF Healthy(x) < MinConns THEN MinConns - Healthy(x) ELSE 0,
           LAMBDA u, k : IF HasRoom(u) THEN NewConnection(u, "min") ELSE {u})

\* grow_for_queue()
Grow(x, demand) ==
    LET more(u) == /\ ~u.growthPaused /\ HasRoom(u)
                   /\ Healthy(u) < MaxConns /\ Connecting(u) < demand
    IN  IF MaxConns <= MinConns \/ Healthy(x) < MinConns THEN {x}
        ELSE Rounds(x, MaxConns,
                    LAMBDA u, k : IF more(u) THEN NewConnection(u, "growth") ELSE {u})

\* Mutant: the retirement is not ended.
RemoveOnly(x, c) ==
    [x EXCEPT !.st[c] = "none", !.round[c] = "min", !.block[c] = "none",
              !.old = @ \ {c}, !.idle = @ \ {c}, !.fresh = @ \ {c}]

\* remove_connection(): whichever side of a retirement goes ends it.
RemoveConnection(x, c) ==
    LET u == [x EXCEPT !.st[c] = "none", !.round[c] = "min", !.block[c] = "none",
                       !.old = @ \ {c}, !.idle = @ \ {c}, !.fresh = @ \ {c}]
    IN  IF c \notin {x.retiring, x.successor} THEN u
        ELSE [u EXCEPT !.retiring = NoConn, !.successor = NoConn, !.up = FALSE,
                       !.retirePaused = @ \/ c = x.successor]

Replace(x, c) == EnsureMin(RemoveConnection(x, c))

\* try_reconnect(): reset in place, in the current round.
TryReconnect(x, c) ==
    LET u == [x EXCEPT !.block[c] = "none", !.idle = @ \ {c}]
    IN  {[u EXCEPT !.st[c] = "Connecting", !.round[c] = "min", !.fresh = @ \cup {c}]}
        \cup (IF MayFail(x) THEN {Fault([u EXCEPT !.st[c] = "Error"])} ELSE {})

\* A connection found lost by the loop or heartbeat().
Lose(x, c) ==
    Each(TryReconnect(x, c), LAMBDA u : IF u.st[c] = "Error" THEN Replace(u, c) ELSE {u})

----------------------------------------------------------------------------
(* Retirement.                                                             *)

\* start_retirement(): only a healthy pool opens a successor.
MayRetire(x, c) ==
    /\ x.retiring = NoConn /\ c \in x.old
    /\ x.st[c] = "Ready" /\ x.block[c] = "none"
    /\ ~x.retirePaused /\ ~x.failing /\ ~x.backoff
    /\ Connecting(x) = 0 /\ HasRoom(x)

StartRetirement(x, c) ==
    LET opened(u) == At(u, {"Connecting"}) \ At(x, {"Connecting"})
    IN  IF ~MayRetire(x, c) THEN {x}
        ELSE { IF opened(u) = {} THEN [u EXCEPT !.retirePaused = TRUE]
               ELSE [u EXCEPT !.retiring = c, !.up = FALSE,
                              !.successor = CHOOSE n \in opened(u) : TRUE]
               : u \in NewConnection(x, "successor") }

\* finish_retirement()
Finishes(x) ==
    /\ x.retiring # NoConn /\ x.up
    /\ x.st[x.retiring] = "Ready" /\ x.block[x.retiring] # "open"

FinishRetirement(x) == IF Finishes(x) THEN RemoveConnection(x, x.retiring) ELSE x

----------------------------------------------------------------------------
(* Queries.                                                                *)

Send(x, c) == [x EXCEPT !.st[c] = "Busy", !.idle = @ \ {c}]

\* dispatch_queue(): a query it could not send stays queued.
Dispatch(x, c) ==
    IF x.queued = 0 \/ x.st[c] # "Ready" THEN {x}
    ELSE {[Send(x, c) EXCEPT !.queued = @ - 1]}
         \cup (IF MayFail(x) THEN TryReconnect(Fault(x), c) ELSE {})

DispatchAll(x) == ForEach(x, At(x, {"Ready"}), Dispatch)

\* execute(): past its lifetime comes after the others, the one being retired
\* last; with none ready the query is queued, connections first.
Rank(x, c) == IF c = x.retiring THEN 2 ELSE IF c \in x.old THEN 1 ELSE 0

Best(x) == {c \in At(x, {"Ready"}) : \A d \in At(x, {"Ready"}) : Rank(x, c) <= Rank(x, d)}

Queue(x) ==
    {[v EXCEPT !.queued = @ + 1] :
        v \in Each(EnsureMin(x), LAMBDA u : Grow(u, x.queued + 1))}

Execute(x) ==
    LET sent(u) == IF Best(u) = {} THEN Queue(u) ELSE {Send(u, c) : c \in Best(u)}
        broken(c) == IF MayFail(x) THEN Each(TryReconnect(Fault(x), c), sent) ELSE {}
    IN  sent(x) \cup UNION {broken(c) : c \in Best(x)}

\* The end of a query: retire_after_query(), or the queue.
AfterQuery(x, c) ==
    IF c # x.retiring THEN Each(StartRetirement(x, c), LAMBDA u : Dispatch(u, c))
    ELSE IF Finishes(x) THEN DispatchAll(FinishRetirement(x))
    ELSE Dispatch(x, c)

----------------------------------------------------------------------------
(* Steps.                                                                  *)

Asks(x) == x.asked < MaxQueries

Asked(S) == {[x EXCEPT !.asked = @ + 1] : x \in S}

UserExecutes ==
    /\ Asks(ps)
    /\ ps' \in Asked(Execute(ps))

\* A connect or a reset is over: a new term begins.
ConnectOk(c) ==
    LET u == [ps EXCEPT !.st[c] = "Ready", !.old = @ \ {c}, !.fresh = @ \ {c}, !.failing = FALSE, !.backoff = FALSE,
                        !.up = @ \/ c = ps.successor]
        v == FinishRetirement(u)
    IN  /\ ps.st[c] = "Connecting"
        /\ ps' \in Dispatch(v, c)

ConnectFails(c) ==
    /\ ps.st[c] = "Connecting" /\ MayFail(ps)
    /\ ps' \in Replace(Fault(ConnectFailure(ps, ps.round[c], c \in ps.fresh)), c)

\* The answer of a query, which may leave a transaction block; its handler may
\* ask for the next one while the connection is Ready.
QueryDone(c, block, again) ==
    LET u == [ps EXCEPT !.st[c] = "Ready", !.block[c] = block]
        started == IF c = u.retiring THEN {u} ELSE StartRetirement(u, c)
        handled == IF again THEN Each(started, LAMBDA v : Asked(Execute(v))) ELSE started
    IN  /\ ps.st[c] = "Busy"
        /\ again => Asks(ps)
        /\ ps' \in Each(handled, LAMBDA v : AfterQuery(v, c))

\* A connection is lost; its query may go back to the queue.
ConnectionLost(c, requeued) ==
    /\ ps.st[c] \in {"Ready", "Busy"} /\ MayFail(ps)
    /\ requeued => ps.st[c] = "Busy"
    /\ ps' \in Lose([Fault(ps) EXCEPT !.queued = IF requeued THEN @ + 1 ELSE @], c)

----------------------------------------------------------------------------
(* Timers.                                                                 *)

\* close_idle(): those above the minimum, not during a retirement.
CloseIdle(x) ==
    LET idle == {c \in x.idle : x.st[c] = "Ready" /\ x.block[c] = "none"}
        above == IF Healthy(x) > MinConns THEN Healthy(x) - MinConns ELSE 0
        n == IF Cardinality(idle) < above THEN Cardinality(idle) ELSE above
    IN  IF x.queued > 0 \/ x.retiring # NoConn THEN {x}
        ELSE Each(kSubset(n, idle),
                  LAMBDA S : ForEach(x, S, LAMBDA u, c : {RemoveConnection(u, c)}))

\* The lifetime step: finishes one, or starts the one that is due.
Lifetime(x) ==
    LET u == FinishRetirement(x)
    IN  IF u.retiring # NoConn \/ u.old = {} THEN {u}
        ELSE UNION {StartRetirement(u, c) : c \in u.old}

ReplaceErrors(x) == ForEach(x, At(x, {"Error"}), Replace)

Heartbeat ==
    ps' \in Each(Each(Each(Each(Each(ReplaceErrors(ps), EnsureMin), CloseIdle), Lifetime),
                      DispatchAll),
                 LAMBDA x : IF x.queued > 0 THEN Grow(x, x.queued) ELSE {x})

ReconnectTimer ==
    /\ ps.timer
    /\ ps' \in Each(EnsureMin([ps EXCEPT !.timer = FALSE, !.backoff = FALSE]),
                    LAMBDA x : IF x.queued > 0 THEN Grow(x, x.queued) ELSE {x})

\* Time: the backoff and the pauses end, a connection comes of age or idle.
BackoffEnds ==
    /\ ps.backoff /\ ~ps.timer
    /\ ps' = [ps EXCEPT !.backoff = FALSE]

PausesEnd ==
    /\ ps.growthPaused \/ ps.retirePaused
    /\ ps' = [ps EXCEPT !.growthPaused = FALSE, !.retirePaused = FALSE]

Ages(c) ==
    /\ ps.st[c] \in {"Ready", "Busy"} /\ c \notin ps.old
    /\ ps.aged < 1 /\ ps' = [ps EXCEPT !.old = @ \cup {c}, !.aged = @ + 1]

Idles(c) ==
    /\ ps.st[c] = "Ready" /\ c \notin ps.idle
    /\ ps' = [ps EXCEPT !.idle = @ \cup {c}]

----------------------------------------------------------------------------
NewPool ==
    [ st |-> [c \in Conn |-> "none"], round |-> [c \in Conn |-> "min"],
      block |-> [c \in Conn |-> "none"], old |-> {}, idle |-> {}, fresh |-> {},
      retiring |-> NoConn, successor |-> NoConn, up |-> FALSE,
      backoff |-> FALSE, timer |-> FALSE, failing |-> FALSE,
      growthPaused |-> FALSE, retirePaused |-> FALSE,
      queued |-> 0, asked |-> 0, aged |-> 0, faults |-> 0 ]

SizeInit == ps \in EnsureMin(NewPool)

SizeNext ==
    \/ UserExecutes
    \/ \E c \in Conn : ConnectOk(c) \/ ConnectFails(c) \/ Ages(c) \/ Idles(c)
    \/ \E c \in Conn, b \in {"none", "open", "aborted"}, again \in BOOLEAN : QueryDone(c, b, again)
    \/ \E c \in Conn, requeued \in BOOLEAN : ConnectionLost(c, requeued)
    \/ Heartbeat
    \/ ReconnectTimer
    \/ BackoffEnds
    \/ PausesEnd

SizeSpec == SizeInit /\ [][SizeNext]_ps

----------------------------------------------------------------------------
(* Properties.                                                             *)

\* "Count one connection more than the pool's size per pool for that while": with
\* no retirement in progress the pool never has more than max_conns, however its
\* connections are lost, reset in place and replaced (grow_for_queue,
\* ensure_min_connections, start_retirement).
SizeBounded ==
    /\ Healthy(ps) <= MaxConns + (IF ps.retiring = NoConn THEN 0 ELSE 1)
    /\ Size(ps) <= MaxConns + MinConns
    /\ (ps.retiring = NoConn) <=> (ps.successor = NoConn)
    /\ ps.retiring # NoConn => ps.st[ps.retiring] # "none" /\ ps.st[ps.successor] # "none"

\* The pool comes back to its size: what was opened for a burst or for a
\* retirement is closed again, and a connection past its term is replaced.  Two
\* things hold the second: a transaction block left open or aborted on it, and a
\* connect failure with no successful connect since, which the pool forgets only
\* when it has reason to connect again (heartbeat, close_idle, start_retirement).
PoolSettles ==
    /\ []<>(Healthy(ps) >= MinConns)
    /\ []<>(Healthy(ps) <= MinConns \/ \E c \in Conn : ps.block[c] # "none")
    /\ \A c \in Conn : c \in ps.old ~> c \notin ps.old \/ ps.block[c] # "none" \/ ps.failing

\* "A new connection that ... is lost before the old one goes, leaves the old one
\* in service": a connection in service is closed by its retirement only with its
\* successor up (finish_retirement; README.md, Connection lifetime).
LeavesOldInService ==
    [][ \A c \in Conn :
            (c = ps.retiring /\ ps.st[c] \in {"Ready", "Busy"}
                /\ ps'.st[c] = "none" /\ ps'.faults = ps.faults)
            => ps'.st[ps.successor] \in {"Ready", "Busy"} ]_ps
=============================================================================

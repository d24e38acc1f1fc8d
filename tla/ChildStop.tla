----------------------------- MODULE ChildStop -----------------------------
(***************************************************************************)
(* A process that serves, and how it stops (application.cpp, module.cpp):  *)
(* a worker, the single process, the helper or a custom process.  The      *)
(* first SIGTERM or SIGQUIT ends the loop; the process mutes what feeds    *)
(* it, runs the loop again until its work is done or the budget is over,   *)
(* cuts the rest off, stops its modules and runs the loop once more for    *)
(* what they sent.  A helper or a custom process may have a leader's lock  *)
(* to take first (PgLeader): until then it stands by, with no module       *)
(* started, and once the lock is lost it stops.                            *)
(*                                                                         *)
(* A query is a record: the module its handler enters, the connection the  *)
(* answer is owed on, and whether its handler is still bound (PgPool's     *)
(* detach() unbinds it).  Time is counted in the rounds of finish_work(),  *)
(* a quarter of its budget each.                                           *)
(***************************************************************************)
EXTENDS Naturals, FiniteSets

CONSTANTS Mod, Proc,      \* the modules of a worker; the one of a custom process
          Conn, NoConn,
          MaxQueries,     \* bound: queries sent
          Rounds          \* finish_work(): its budget, in rounds of the strand timer

\* A process without modules has nothing to enter; "at most a quarter of the
\* budget, so that three rounds fit" (finish_work).
ASSUME StopConstants ==
    /\ Mod # {} /\ NoConn \notin Conn
    /\ MaxQueries \in Nat /\ Rounds \in Nat /\ Rounds >= 3

VARIABLE cs

Mods == IF cs.role = "custom" THEN {Proc} ELSE Mod

Serves == cs.role \in {"worker", "single"}      \* it has an HTTP server

Outstanding(x) == {q \in x.queries : q.bound}
Busy(x) == {c \in Conn : x.conn[c] \in {"owed", "reading"}}
\* finish_work(): done().
Done(x) == Outstanding(x) = {} /\ Busy(x) = {} /\ x.busy = {}

\* pool.execute(), from a handler of module m.
Sends(x, m, c) ==
    IF x.sent = MaxQueries THEN x
    ELSE [x EXCEPT !.sent = @ + 1,
                   !.queries = @ \cup {[id |-> x.sent, mod |-> m, conn |-> c, bound |-> TRUE,
                                        ofStop |-> m \in x.released]}]

\* Code of a module runs; `late' remembers the modules entered after on_stop().
Enters(x, m) == [x EXCEPT !.late = IF m \in x.released THEN @ \cup {m} ELSE @]

\* The answer goes out, to a client that is still there: draining, it is the
\* connection's last.
AnswerOn(x, c) ==
    IF c = NoConn \/ x.conn[c] = "closed" THEN x
    ELSE [x EXCEPT !.conn[c] = IF x.stopping THEN "closed" ELSE "idle"]

----------------------------------------------------------------------------
(* Events of the loop, while it runs: serving, finishing or draining.      *)

LoopRuns == cs.phase \in {"serving", "finishing", "draining"}
StandsBy == cs.phase = "standby"

\* Part of a request comes in on a connection.
RequestBegins(c) ==
    /\ LoopRuns /\ Serves
    /\ cs.conn[c] = "idle"
    /\ cs' = [cs EXCEPT !.conn[c] = "reading"]

\* A connection is accepted; the listener is out of the loop once stopping.
Accept(c) ==
    /\ LoopRuns /\ Serves
    /\ cs.conn[c] = "none" /\ ~cs.stopping
    /\ cs' = [cs EXCEPT !.conn[c] = "idle"]

\* The request is whole: execute(), the handler of start_http_server().  The
\* module asks the database and answers later, or answers at once.
Request(c, m, defer) ==
    LET u == Enters(cs, m)
    IN  /\ LoopRuns /\ cs.conn[c] = "reading" /\ m \in Mods
        /\ IF cs.quiet THEN cs' = [cs EXCEPT !.conn[c] = "closed"]            \* 503, close
           ELSE IF defer /\ cs.sent < MaxQueries
                THEN cs' = [Sends(u, m, c) EXCEPT !.conn[c] = "owed"]
                ELSE cs' = AnswerOn(u, c)

\* SIGHUP of the single process: on_reload(), not while it stops.
Reload ==
    /\ LoopRuns /\ cs.role = "single" /\ ~cs.stopping
    /\ cs' = [cs EXCEPT !.late = @ \cup (Mods \cap cs.released)]

\* A WebSocket upgrade takes the connection out of the HTTP server; refused with
\* 503 while the process stops.
Upgrade(c) ==
    /\ LoopRuns /\ cs.conn[c] = "reading"
    /\ cs' = [cs EXCEPT !.conn[c] = "closed"]

\* The client goes.
ClientLeaves(c) ==
    /\ LoopRuns /\ cs.conn[c] \in {"idle", "reading", "owed"}
    /\ cs' = [cs EXCEPT !.conn[c] = "closed"]

\* heartbeat(): ModuleManager's latch; a leader whose lock is not confirmed waits.
Beats(m, works) == cs' = IF works THEN Sends(Enters(cs, m), m, NoConn) ELSE Enters(cs, m)

Heartbeat(m, works) ==
    /\ LoopRuns /\ cs.role # "custom" /\ m \in Mods
    /\ ~cs.stopping /\ cs.lock # "stale"
    /\ Beats(m, works)

\* A custom process has no manager: its timer is cancelled by hand.
ProcessHeartbeat(works) ==
    /\ LoopRuns /\ cs.role = "custom"
    /\ ~cs.stopping /\ cs.lock # "stale"
    /\ Beats(Proc, works)

\* A NOTIFY reaches a module, which asks the database; muted on the stop.
Notify(m) ==
    /\ LoopRuns /\ m \in Mods
    /\ ~cs.muted /\ cs.db = "up"
    /\ cs.sent < MaxQueries
    /\ cs' = Sends(Enters(cs, m), m, NoConn)

\* What a handler does with the outcome: send the next query, or answer.
Outcome(x, q, next) ==
    LET u == [x EXCEPT !.queries = @ \ {q}]
        v == Enters(u, q.mod)
    IN  CASE ~q.bound                         -> u
          [] q.bound /\ q.ofStop              -> u
          [] q.bound /\ ~q.ofStop /\ next /\ u.sent < MaxQueries -> Sends(v, q.mod, q.conn)
          [] OTHER                            -> AnswerOn(v, q.conn)

DbAnswers(q, next) ==
    /\ LoopRuns /\ cs.db = "up" /\ q \in cs.queries
    /\ cs' = Outcome(cs, q, next)

\* A module works on something the pool knows nothing of, and is done with it.
GetsBusy(m) ==
    /\ cs.phase = "serving" /\ m \in Mods \ cs.busy
    /\ cs' = [cs EXCEPT !.busy = @ \cup {m}]

GetsDone(m) ==
    /\ LoopRuns /\ m \in cs.busy
    /\ cs' = [Enters(cs, m) EXCEPT !.busy = @ \ {m}]

----------------------------------------------------------------------------
(* Stopping.                                                               *)

\* Mutant: the queries keep their handlers past on_stop().
ReleasedBound(x, signsOut) ==
    LET u == [x EXCEPT !.quiet = TRUE, !.muted = TRUE, !.busy = {}, !.cut = FALSE,
                       !.released = Mods, !.phase = "draining"]
        m == CHOOSE m \in Mods : TRUE
        v == IF signsOut THEN Sends(u, m, NoConn) ELSE u
    IN  IF Outstanding(v) = {} THEN [v EXCEPT !.phase = "gone"] ELSE v

\* quiesce, detach_db(), on_stop() of every module, which may send its sign-out.
Released(x, signsOut) ==
    LET u == [x EXCEPT !.quiet = TRUE, !.muted = TRUE, !.busy = {}, !.cut = FALSE,
                       !.queries = {[q EXCEPT !.bound = FALSE] : q \in @},
                       !.released = Mods, !.phase = "draining"]
        m == CHOOSE m \in Mods : TRUE
        v == IF signsOut THEN Sends(u, m, NoConn) ELSE u
    \* drain_db() returns at once with nothing outstanding.
    IN  IF Outstanding(v) = {} THEN [v EXCEPT !.phase = "gone"] ELSE v

\* on_worker_start() and on_start() of the modules; one that throws ends the
\* process before its loop.
Starts ==
    /\ cs.phase = "starting" /\ cs.lock = "none"
    /\ cs' = [cs EXCEPT !.phase = "serving"]

StartFails ==
    /\ cs.phase = "starting" /\ cs.lock = "none"
    /\ cs' = [cs EXCEPT !.phase = "gone"]

\* Under a leader's lock the process runs its loop with nothing started, and
\* starts when the lock is taken; failing that, it goes as it would unstarted.
Candidate ==
    /\ cs.phase = "starting" /\ cs.lock = "wanted"
    /\ cs' = [cs EXCEPT !.phase = "standby"]

TakesRole(starts) ==
    /\ StandsBy /\ ~cs.cut
    /\ cs' = IF starts THEN [cs EXCEPT !.lock = "held", !.phase = "serving"]
             ELSE [cs EXCEPT !.lock = "held", !.cut = TRUE]

StandbyEnds ==
    /\ StandsBy /\ cs.cut
    /\ cs' = [cs EXCEPT !.phase = "gone"]

\* The lock is not confirmed for a while, and is again, ...
Stalls == LoopRuns /\ cs.lock = "held" /\ cs' = [cs EXCEPT !.lock = "stale"]
Confirmed == LoopRuns /\ cs.lock = "stale" /\ cs' = [cs EXCEPT !.lock = "held"]

\* ... or lost: the process stops, unless it is stopping already.
RoleLost ==
    /\ LoopRuns /\ cs.lock \in {"held", "stale"}
    /\ cs' = [cs EXCEPT !.lock = "lost", !.cut = @ \/ ~cs.stopping]

\* stop_signal(): the first one ends the loop.
Signal ==
    /\ LoopRuns \/ StandsBy
    /\ cs' = [cs EXCEPT !.signalled = TRUE, !.cut = @ \/ ~cs.signalled]

\* SIGINT of the single process, every time; a module that calls loop.stop().
Interrupt ==
    /\ LoopRuns /\ cs.role = "single" /\ ~cs.cut
    /\ cs' = [cs EXCEPT !.cut = TRUE]

\* loop.run() is over: stop_http_server(), the heartbeats off, on_stopping() of
\* every module, one of which may still send, quiesce_db(), and finish_work() begins.
LoopEnds(works, signsOut) ==
    LET u == [cs EXCEPT !.stopping = TRUE, !.muted = TRUE, !.cut = FALSE, !.phase = "finishing",
                        !.conn = [c \in Conn |-> IF @[c] = "idle" THEN "closed" ELSE @[c]],
                        !.stranded = IF cs.db = "down" THEN {c \in Conn : cs.conn[c] = "owed"}
                                     ELSE {}]
        m == CHOOSE m \in Mods : TRUE
        v == IF works THEN Sends(Enters(u, m), m, NoConn) ELSE u
    IN  /\ cs.phase = "serving" /\ cs.cut
        /\ cs' = IF Done(v) THEN Released(v, signsOut) ELSE v

FinishEnds(signsOut) ==
    /\ cs.phase = "finishing"
    /\ Done(cs) \/ cs.cut \/ cs.round = Rounds
    /\ cs' = Released(cs, signsOut)

\* drain_db(): until what on_stop() sent is answered, or its time is over.
DrainEnds ==
    /\ cs.phase = "draining"
    /\ Outstanding(cs) = {} \/ cs.cut \/ cs.drained
    /\ cs' = [cs EXCEPT !.phase = "gone"]

\* Mutant: what was stranded is left to the end of the budget.
StrandedNot(x) == x

\* fail_stranded(): queries with no connection fail, by the third call at the
\* latest; their handlers answer.
Stranded(x) ==
    [ x EXCEPT !.queries = {q \in @ : ~q.bound},
               !.late = @ \cup {q.mod : q \in {p \in Outstanding(x) : p.mod \in x.released}},
               !.conn = [c \in Conn |-> IF \E q \in Outstanding(x) : q.conn = c
                                        THEN "closed" ELSE x.conn[c]] ]

Round ==
    /\ cs.phase = "finishing" /\ cs.round < Rounds
    /\ LET u == [cs EXCEPT !.round = @ + 1]
       IN  \/ /\ cs.db = "down" /\ u.round >= 2
              /\ cs' = Stranded(u)
           \/ /\ ~(cs.db = "down" /\ u.round = 3)
              /\ cs' = u

DrainTime ==
    /\ cs.phase = "draining" /\ ~cs.drained
    /\ cs' = [cs EXCEPT !.drained = TRUE]

\* The database is gone, or stays connected and mute.
DbGone(how) ==
    /\ cs.db = "up" /\ LoopRuns
    /\ cs' = [cs EXCEPT !.db = how]

----------------------------------------------------------------------------
NewProcess(r, lock) ==
    [ role |-> r, lock |-> lock, phase |-> "starting", signalled |-> FALSE, cut |-> FALSE,
      stopping |-> FALSE, muted |-> FALSE, quiet |-> FALSE,
      conn |-> [c \in Conn |-> "none"], queries |-> {}, sent |-> 0, busy |-> {},
      released |-> {}, late |-> {}, round |-> 0, drained |-> FALSE, db |-> "up",
      stranded |-> {} ]     \* those owed an answer, with the database gone, as the stop begins

\* Only a process with no HTTP server can be a leader ("process.leader", "leader").
StopInit ==
    \/ \E r \in {"worker", "single", "helper", "custom"} : cs = NewProcess(r, "none")
    \/ \E r \in {"helper", "custom"} : cs = NewProcess(r, "wanted")

StopNext ==
    \/ \E c \in Conn : Accept(c) \/ RequestBegins(c) \/ Upgrade(c) \/ ClientLeaves(c)
    \/ \E c \in Conn, m \in Mod, defer \in BOOLEAN : Request(c, m, defer)
    \/ \E m \in Mod \cup {Proc} : Notify(m) \/ GetsBusy(m) \/ GetsDone(m)
    \/ \E m \in Mod, works \in BOOLEAN : Heartbeat(m, works)
    \/ \E works \in BOOLEAN : ProcessHeartbeat(works)
    \/ \E q \in cs.queries, next \in BOOLEAN : DbAnswers(q, next)
    \/ Starts
    \/ StartFails
    \/ Candidate
    \/ \E starts \in BOOLEAN : TakesRole(starts)
    \/ StandbyEnds
    \/ Stalls
    \/ Confirmed
    \/ RoleLost
    \/ Reload
    \/ Signal
    \/ Interrupt
    \/ \E works, signsOut \in BOOLEAN : LoopEnds(works, signsOut)
    \/ \E signsOut \in BOOLEAN : FinishEnds(signsOut)
    \/ DrainEnds
    \/ Round
    \/ DrainTime
    \/ \E how \in {"down", "mute"} : DbGone(how)

StopSpec == StopInit /\ [][StopNext]_cs

\* The loop runs and its timers fire: what is due is done.
StopFairness ==
    /\ WF_cs(\E works, signsOut \in BOOLEAN : LoopEnds(works, signsOut))
    /\ WF_cs(\E signsOut \in BOOLEAN : FinishEnds(signsOut))
    /\ WF_cs(StandbyEnds) /\ WF_cs(DrainEnds) /\ WF_cs(Round) /\ WF_cs(DrainTime)

----------------------------------------------------------------------------
(* Properties.                                                             *)

\* "From here on no handler of a query sent before this call is invoked"
\* (module.hpp, on_stop): no module is entered again after its on_stop(), by a
\* late result, a request still open, a heartbeat, a NOTIFY or a query failed.
NoModuleAfterStop == cs.late = {}

\* Every process that is told to stop goes, whatever its database, its clients
\* and its modules do (stop_work, finish_work, drain_db).
StopEnds == cs.signalled ~> cs.phase = "gone"

\* With the database gone the stop still answers: no client that was owed an
\* answer as the stop began loses it to the detach, unless the process was cut
\* short (finish_work: three rounds fit the budget, and an answer written by the
\* handler still has time to leave).
StrandedAreAnswered ==
    [][ (cs.phase = "finishing" /\ cs'.phase # "finishing" /\ ~cs.cut)
        => \A c \in cs.stranded : cs.conn[c] # "owed" ]_cs
=============================================================================

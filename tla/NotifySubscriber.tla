-------------------------- MODULE NotifySubscriber --------------------------
(***************************************************************************)
(* The subscriber of a `notify` channel (notify_subscriber.cpp): it takes  *)
(* rows of a queue in the database under a token, hands them to the module *)
(* and confirms or refuses each under that token.                          *)
(*                                                                         *)
(* Its statements go two ways: `line' is the listener's, one after another *)
(* (PgListener); `asked' is the pool's, in no order.  Each runs and is     *)
(* answered later, or is lost, run or not.  `db' stands for the functions  *)
(* of schema notify, from how this file uses them.                         *)
(***************************************************************************)
EXTENDS Naturals, FiniteSets, FiniteSetsExt, Sequences

CONSTANTS Row,
          Alive,        \* the channel's `alive', in ticks
          MaxNumbers,   \* bound: numbers the database gives out
          MaxEvents     \* bound: ticks, takes and faults, together

ASSUME SubscriberConstants == Alive \in Nat

VARIABLES ns,       \* the subscriber
          line,     \* statements on the listener
          asked,    \* statements on the pool
          work,     \* rows the module works on: <<row, token>>
          db,       \* registrations, rows
          now,
          gapped,   \* the database counted the subscriber dead, untold yet
          undone,   \* completions the database refused
          missed    \* faults: what was lost, ended or forgotten

nsVars == <<ns, line, asked, work, db, now, gapped, undone, missed>>

\* Faults are statements lost, leases that end, registrations forgotten.
MayHappen == (now - 1) + missed + FoldSet(LAMBDA r, n : n + db.row[r].token, 0, Row) < MaxEvents

Copies == {1, 2}          \* two statements that are alike

----------------------------------------------------------------------------
(* Statements.                                                             *)

Statement(kind, n, rows) ==
    [kind |-> kind, n |-> n, rows |-> rows, ran |-> FALSE, out |-> 0, at |-> 0]

OnLine(q, s) == Append(q, s)

Ask(kind, r, t) ==
    LET q(c) == [kind |-> kind, row |-> r, token |-> t, copy |-> c, ran |-> FALSE, out |-> 0]
        free == {c \in Copies : \A x \in asked : ~(x.kind = kind /\ x.row = r
                                                   /\ x.token = t /\ x.copy = c)}
    IN  {q(c) : c \in {CHOOSE c \in free : TRUE}}

AnyRow == CHOOSE r \in Row : TRUE      \* for a statement about none

----------------------------------------------------------------------------
(* The subscriber's own steps, on the record.                              *)

ArmRetry(s) == [s EXCEPT !.retry = ~s.draining /\ ~s.stopped]
ArmHeartbeat(s) == [s EXCEPT !.beat = ~s.stopped]
ArmSweep(s) == [s EXCEPT !.sweep = ~s.draining /\ ~s.stopped]

\* subscribe()
MaySubscribe(s) == ~s.subscribing /\ ~s.draining /\ ~s.stopped

Subscribing(s) == IF MaySubscribe(s) THEN [s EXCEPT !.subscribing = TRUE] ELSE s

SubscribeLine(s, q) == IF MaySubscribe(s) THEN OnLine(q, Statement("subscribe", 0, {})) ELSE q

\* heartbeat_now()
MayBeat(s) == s.number # 0 /\ ~s.stopped /\ ~s.beating

BeatLine(s, q) == IF MayBeat(s) THEN OnLine(q, Statement("heartbeat", s.number, {})) ELSE q

Beating(s) == IF MayBeat(s) THEN [s EXCEPT !.beating = TRUE] ELSE s

\* sweep_now()
MaySweep(s) == s.number # 0 /\ ~s.draining /\ ~s.stopped /\ ~s.sweeping

Sweeping(s) == IF MaySweep(s) THEN [s EXCEPT !.sweeping = TRUE] ELSE s

SweepAsk(s) == IF MaySweep(s) THEN Ask("sweep", AnyRow, 0) ELSE {}

\* stop(): the rows still with the module are refused, in one batch with the
\* deregistration; a second call only gives back a number that came late.
Held(s) == {<<r, s.taken[r]>> : r \in {x \in Row : s.taken[x] # 0}}

StopSpeaks(s) == (~s.stopped \/ s.number # 0) /\ (s.number # 0 \/ Held(s) # {})

Stopping(s) ==
    [s EXCEPT !.stopped = TRUE, !.draining = TRUE, !.number = 0,
              !.taken = [r \in Row |-> 0],
              !.retry = FALSE, !.beat = FALSE, !.sweep = FALSE]

StopLine(s, q) == IF StopSpeaks(s) THEN OnLine(q, Statement("stop", s.number, Held(s))) ELSE q

\* on_subscribed()
OnSubscribed(s, n) ==
    IF s.stopped THEN Stopping([s EXCEPT !.number = n])
    ELSE LET u == ArmHeartbeat([s EXCEPT !.number = n, !.listening = n])
         IN  IF s.draining THEN u ELSE ArmSweep(u)

OnSubscribedLine(s, n, q) ==
    IF s.stopped THEN StopLine([s EXCEPT !.number = n], q)
    ELSE IF s.draining THEN OnLine(q, Statement("drain", n, {})) ELSE q

----------------------------------------------------------------------------
(* The calls of the application and the module.                            *)

Start ==
    /\ ~ns.started
    /\ ns' = Subscribing([ns EXCEPT !.started = TRUE])
    /\ line' = SubscribeLine(ns, line)
    /\ UNCHANGED <<asked, work, db, now, gapped, undone, missed>>

Drain ==
    /\ ns.started /\ ~ns.draining /\ ~ns.stopped
    /\ ns' = [ns EXCEPT !.draining = TRUE, !.sweep = FALSE, !.retry = FALSE]
    /\ line' = IF ns.number = 0 THEN line ELSE OnLine(line, Statement("drain", ns.number, {}))
    /\ UNCHANGED <<asked, work, db, now, gapped, undone, missed>>

Stop ==
    /\ ns.started /\ ~ns.stopped
    /\ ns' = Stopping(ns)
    /\ line' = StopLine(ns, line)
    /\ UNCHANGED <<asked, work, db, now, gapped, undone, missed>>

\* complete(): the row is not with the module any more once its ack is sent; a
\* row that is not is not sent.
Complete(r, t) ==
    /\ <<r, t>> \in work
    /\ work' = work \ {<<r, t>>}
    /\ IF ns.taken[r] = t
       THEN /\ ns' = [ns EXCEPT !.taken[r] = 0]
            /\ asked' = asked \cup Ask("ack", r, t)
       ELSE UNCHANGED <<ns, asked>>
    /\ UNCHANGED <<line, db, now, gapped, undone, missed>>

\* refuse(), by the module or because its handler threw.
Refuse(r, t) ==
    /\ <<r, t>> \in work
    /\ work' = work \ {<<r, t>>}
    /\ IF ns.taken[r] = t
       THEN /\ ns' = [ns EXCEPT !.taken[r] = 0]
            /\ asked' = asked \cup Ask("nack", r, t)
       ELSE UNCHANGED <<ns, asked>>
    /\ UNCHANGED <<line, db, now, gapped, undone, missed>>

----------------------------------------------------------------------------
(* Wake-ups and timers.                                                    *)

\* on_wake() -> take(): a wake-up may be late, and may come twice.
Wake(r) ==
    /\ ns.listening # 0 /\ ns.number # 0 /\ ~ns.draining /\ ~ns.stopped
    /\ ns.taken[r] = 0
    /\ Cardinality({q \in asked : q.kind = "take" /\ q.row = r}) < 2
    /\ asked' = asked \cup Ask("take", r, 0)
    /\ UNCHANGED <<ns, line, work, db, now, gapped, undone, missed>>

\* The LISTEN is confirmed, the first time or on a new listener.
ListenReady ==
    /\ ns.listening # 0 /\ (MaySweep(ns) \/ MayBeat(ns))
    /\ ns' = Beating(Sweeping(ns))
    /\ asked' = asked \cup SweepAsk(ns)
    /\ line' = BeatLine(ns, line)
    /\ UNCHANGED <<work, db, now, gapped, undone, missed>>

HeartbeatTimer ==
    /\ ns.beat /\ MayBeat(ns)
    /\ ns' = ArmHeartbeat(Beating(ns))
    /\ line' = BeatLine(ns, line)
    /\ UNCHANGED <<asked, work, db, now, gapped, undone, missed>>

SweepTimer ==
    /\ ns.sweep /\ MaySweep(ns)
    /\ ns' = ArmSweep(Sweeping(ns))
    /\ asked' = asked \cup SweepAsk(ns)
    /\ UNCHANGED <<line, work, db, now, gapped, undone, missed>>

RetryTimer ==
    /\ ns.retry
    /\ ns' = Subscribing([ns EXCEPT !.retry = FALSE])
    /\ line' = SubscribeLine(ns, line)
    /\ UNCHANGED <<asked, work, db, now, gapped, undone, missed>>

----------------------------------------------------------------------------
(* The database.                                                           *)

Refused(d, S) ==
    [d EXCEPT !.row = [r \in Row |-> IF d.row[r].held /\ <<r, d.row[r].token>> \in S
                                     THEN [d.row[r] EXCEPT !.held = FALSE] ELSE d.row[r]]]

\* The statement at the head of the line runs: its effect, and its answer.
LineRuns ==
    LET s == Head(line)
        n == Cardinality(db.given) + 1
        known == s.n \in db.reg
    IN  /\ line # <<>> /\ ~s.ran
        /\ s.kind = "subscribe" => n <= MaxNumbers
        /\ db' = CASE s.kind = "subscribe" -> [db EXCEPT !.given = @ \cup {n}, !.reg = @ \cup {n},
                                                         !.seen = now]
                   [] s.kind = "heartbeat" -> [db EXCEPT !.seen = IF known THEN now ELSE @]
                   [] s.kind = "stop"      -> [Refused(db, s.rows) EXCEPT !.reg = @ \ {s.n}]
                   [] s.kind = "drain"     -> db
        /\ line' = [line EXCEPT ![1].ran = TRUE, ![1].at = now,
                        ![1].out = CASE s.kind = "subscribe"           -> n
                                     [] s.kind = "heartbeat" /\ known -> 1
                                     [] OTHER                          -> 0]
        /\ UNCHANGED <<ns, asked, work, now, gapped, undone, missed>>

\* A statement of the pool runs.  A row is taken under a new token.
AskedRuns(q) ==
    LET d == db.row[q.row]
        current == d.held /\ d.token = q.token
        after(x, out) == /\ db' = [db EXCEPT !.row[q.row] = x]
                         /\ asked' = (asked \ {q}) \cup {[q EXCEPT !.ran = TRUE, !.out = out]}
    IN  /\ q \in asked /\ ~q.ran
        /\ \/ /\ q.kind = "take"
              /\ \/ /\ ~d.held /\ ~d.closed /\ MayHappen
                    /\ after([d EXCEPT !.held = TRUE, !.token = @ + 1], d.token + 1)
                 \/ after(d, 0)
           \/ /\ q.kind \in {"ack", "nack"}
              /\ after(IF current THEN [d EXCEPT !.held = FALSE, !.closed = (q.kind = "ack")] ELSE d,
                       IF current THEN 1 ELSE 0)
           \/ /\ q.kind = "sweep"
              /\ asked' = (asked \ {q}) \cup {[q EXCEPT !.ran = TRUE, !.out = 1]}
              /\ UNCHANGED db
        /\ UNCHANGED <<ns, line, work, now, gapped, undone, missed>>

\* A row's lease ends: its token is not current any more.
LeaseEnds(r) ==
    /\ db.row[r].held
    /\ MayHappen /\ missed' = missed + 1
    /\ db' = [db EXCEPT !.row[r].held = FALSE]
    /\ UNCHANGED <<ns, line, asked, work, now, gapped, undone>>

\* The database forgets a registration.
Forgotten ==
    /\ db.reg # {} /\ MayHappen /\ missed' = missed + 1
    /\ db' = [db EXCEPT !.reg = {}]
    /\ UNCHANGED <<ns, line, asked, work, now, gapped, undone>>

\* is_alive() says no once `alive' has passed since the last `seen'.
Tick ==
    /\ MayHappen /\ now' = now + 1
    /\ gapped' = (gapped \/ (ns.number \in db.reg /\ now' - db.seen >= Alive))
    /\ UNCHANGED <<ns, line, asked, work, db, undone, missed>>

----------------------------------------------------------------------------
(* Answers.                                                                *)

\* Mutant: off by one.
LapsesLate(s, at) == s.seen > 0 /\ ~s.draining /\ at - s.seen > Alive

\* A lapse is told when `alive' has passed between two seens confirmed.
Lapses(s, at) == s.seen > 0 /\ ~s.draining /\ at - s.seen >= Alive

LineAnswered ==
    LET s == Head(line)
        rest == Tail(line)
        free == [ns EXCEPT !.subscribing = FALSE]
        beaten == [ns EXCEPT !.beating = FALSE]
        lost == [beaten EXCEPT !.number = 0, !.seen = 0]
    IN  /\ line # <<>> /\ s.ran
        /\ \/ /\ s.kind = "subscribe"
              /\ ns' = OnSubscribed([free EXCEPT !.seen = s.at], s.out)
              /\ line' = OnSubscribedLine(free, s.out, rest)
              /\ gapped' = (now - s.at >= Alive)
           \/ /\ s.kind = "heartbeat" /\ (s.n # ns.number \/ ns.stopped)
              /\ ns' = beaten /\ line' = rest /\ UNCHANGED gapped
           \/ /\ s.kind = "heartbeat" /\ s.n = ns.number /\ ~ns.stopped /\ s.out = 0
              /\ ns' = Subscribing(lost) /\ line' = SubscribeLine(lost, rest)
              /\ gapped' = FALSE
           \/ /\ s.kind = "heartbeat" /\ s.n = ns.number /\ ~ns.stopped /\ s.out # 0
              /\ ns' = [beaten EXCEPT !.seen = s.at] /\ line' = rest
              /\ gapped' = (now - s.at >= Alive \/ (gapped /\ ~Lapses(ns, s.at)))
           \/ /\ s.kind \in {"drain", "stop"}
              /\ ns' = ns /\ line' = rest /\ UNCHANGED gapped
        /\ UNCHANGED <<asked, work, db, now, undone, missed>>

\* The listener is lost with it: told as failed, run or not.
LineFails ==
    LET s == Head(line)
    IN  /\ line # <<>> /\ MayHappen /\ missed' = missed + 1
        /\ line' = Tail(line)
        /\ ns' = CASE s.kind = "subscribe" -> ArmRetry([ns EXCEPT !.subscribing = FALSE])
                   [] s.kind = "heartbeat" -> [ns EXCEPT !.beating = FALSE]
                   [] OTHER                -> ns
        /\ UNCHANGED <<asked, work, db, now, gapped, undone>>

\* take's answer: a row for the module, or, after the stop, to be given back at
\* once.  A row that is there already keeps its first token.
Taken(q) ==
    LET r == q.row
        kept == IF ns.taken[r] = 0 THEN [ns EXCEPT !.taken[r] = q.out] ELSE ns
    IN  IF q.out = 0 THEN asked' = asked \ {q} /\ UNCHANGED <<ns, work>>
        ELSE IF ~ns.stopped
        THEN /\ ns' = kept /\ work' = work \cup {<<r, q.out>>}
             /\ asked' = asked \ {q}
        ELSE /\ ns' = IF kept.taken[r] = q.out THEN [kept EXCEPT !.taken[r] = 0] ELSE kept
             /\ asked' = (asked \ {q}) \cup (IF kept.taken[r] = q.out
                                             THEN Ask("nack", r, q.out) ELSE {})
             /\ UNCHANGED work

AskedAnswered(q) ==
    /\ q \in asked /\ q.ran
    /\ \/ q.kind = "take" /\ Taken(q) /\ UNCHANGED undone
       \/ /\ q.kind \in {"ack", "nack"} /\ asked' = asked \ {q} /\ UNCHANGED <<ns, work>>
          /\ undone' = IF q.kind = "ack" /\ q.out = 0 THEN undone \cup {q.row} ELSE undone
       \/ /\ q.kind = "sweep" /\ asked' = asked \ {q} /\ UNCHANGED <<work, undone>>
          /\ ns' = [ns EXCEPT !.sweeping = FALSE]
    /\ UNCHANGED <<line, db, now, gapped, missed>>

AskedFails(q) ==
    /\ q \in asked /\ MayHappen /\ missed' = missed + 1
    /\ asked' = asked \ {q}
    /\ ns' = IF q.kind = "sweep" THEN [ns EXCEPT !.sweeping = FALSE] ELSE ns
    /\ UNCHANGED <<line, work, db, now, gapped, undone>>

----------------------------------------------------------------------------
SubscriberInit ==
    /\ ns = [ number |-> 0, listening |-> 0, started |-> FALSE, subscribing |-> FALSE,
              draining |-> FALSE, stopped |-> FALSE, beating |-> FALSE, sweeping |-> FALSE,
              beat |-> FALSE, sweep |-> FALSE, retry |-> FALSE,
              taken |-> [r \in Row |-> 0], seen |-> 0 ]
    /\ line = <<>> /\ asked = {} /\ work = {}
    /\ db = [ given |-> {}, reg |-> {}, seen |-> 0,
              row |-> [r \in Row |-> [held |-> FALSE, token |-> 0, closed |-> FALSE]] ]
    /\ now = 1 /\ gapped = FALSE /\ undone = {} /\ missed = 0

SubscriberNext ==
    \/ Start \/ Drain \/ Stop
    \/ \E w \in work : Complete(w[1], w[2]) \/ Refuse(w[1], w[2])
    \/ \E r \in Row : Wake(r)
    \/ ListenReady
    \/ HeartbeatTimer \/ SweepTimer \/ RetryTimer
    \/ LineRuns \/ LineAnswered \/ LineFails
    \/ \E q \in asked : AskedRuns(q) \/ AskedAnswered(q) \/ AskedFails(q)
    \/ \E r \in Row : LeaseEnds(r)
    \/ Forgotten
    \/ Tick

SubscriberSpec == SubscriberInit /\ [][SubscriberNext]_nsVars

----------------------------------------------------------------------------
(* Properties.                                                             *)

\* Nothing is left behind by a stop: once its statements have run, with none of
\* them lost, no registration and no row is this subscriber's, not even a number
\* or a row that was on its way when it stopped (stop, on_subscribed, take).
StopGivesBack ==
    (ns.stopped /\ line = <<>> /\ asked = {} /\ missed = 0) =>
        /\ db.reg = {}
        /\ \A r \in Row : ~db.row[r].held

\* While a row's lease runs, a completion that was sent is confirmed: nothing
\* this subscriber does takes the row away from it (complete, stop: "a nack ahead
\* of it would return the row and roll back a finished result").
CompletedStays == missed = 0 => undone = {}

\* A subscriber that runs is subscribed, or is about to ask for it; and it beats
\* and sweeps as long as it has a number.
KeepsAtIt ==
    (ns.started /\ ~ns.stopped) =>
        /\ ns.number # 0 => ns.beat
        /\ (ns.number # 0 /\ ~ns.draining) => ns.sweep
        /\ (ns.number = 0 /\ ~ns.draining) => ns.subscribing \/ ns.retry
        /\ ns.subscribing => \E i \in DOMAIN line : line[i].kind = "subscribe"
        /\ ns.beating => \E i \in DOMAIN line : line[i].kind = "heartbeat"

\* A module hears that the database counted its subscriber dead: a gap not told
\* yet lies after the last heartbeat confirmed, whose successor tells it (the
\* lapse handler).
LapseTold ==
    (gapped /\ ns.number # 0 /\ ~ns.draining) => now - ns.seen >= Alive

\* All of it together: what a subscriber has taken it gives back or completes, and
\* it goes on.
SubscriberKeeps == StopGivesBack /\ CompletedStays /\ KeepsAtIt /\ LapseTold
=============================================================================

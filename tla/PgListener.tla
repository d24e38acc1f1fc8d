----------------------------- MODULE PgListener -----------------------------
(***************************************************************************)
(* The LISTEN side of PgPool (pg.cpp): one connection of its own that      *)
(* carries the subscriptions of every module and the statements given to   *)
(* listener_execute().  It is found dead, replaced, and subscribed again   *)
(* from the registry of channels; one command is with the server at a      *)
(* time, and the handlers run in the middle of on_listener_io() may listen,*)
(* unlisten and send statements of their own.                              *)
(*                                                                         *)
(* `pl' holds the pool's members and, with them, the session at the other  *)
(* end (subs, cmd, link).  io says where on_listener_io() stands while it  *)
(* runs handlers; same is FALSE once the listener it saw was replaced.     *)
(***************************************************************************)
EXTENDS Naturals, FiniteSets, Sequences, SequencesExt

CONSTANTS Chan,       \* channels
          Bad,        \* those the server refuses to LISTEN to
          Stmt,       \* statements modules give to listener_execute()
          Limited,    \* those with an answer_within
          Name,       \* the statement set_listener_name() puts first
          None,       \* no statement
          MaxCalls,   \* bound: calls of listen(), unlisten() and listener_execute()
          MaxFaults   \* bound: losses, refused connections, late answers

ASSUME ListenerConstants ==
    /\ IsFiniteSet(Chan) /\ Bad \subseteq Chan /\ Limited \subseteq Stmt
    /\ None \notin Stmt /\ Name \notin Stmt
    /\ MaxCalls \in Nat /\ MaxFaults \in Nat

VARIABLES pl,         \* the pool's listener
          sends,      \* sends[s]: times a statement reached the connection
          told,       \* told[s]: times its handlers were called
          calls,
          faults

plVars == <<pl, sends, told, calls, faults>>

NoCmd == [kind |-> "none", chans |-> {}, at |-> "server", ok |-> TRUE]

Cmd(kind, chans) == [NoCmd EXCEPT !.kind = kind, !.chans = chans]

----------------------------------------------------------------------------
(* libpq: PgConnection::send_query() reads first and so meets a close.     *)

CanSend(x) == x.conn = "Ready" /\ x.link \in {"up", "mute"}

Sent(x, cmd) == [x EXCEPT !.conn = "Busy", !.cmd = cmd]

Unsent(x) == IF x.link = "shut" THEN [x EXCEPT !.conn = "Error", !.link = "gone"] ELSE x

Dead(x) == x.conn = "Error" \/ (x.conn \in {"Ready", "Busy"} /\ x.link = "gone")

Wants(x) == x.registry # {} \/ x.queue # <<>>

----------------------------------------------------------------------------
(* Starting and replacing the connection: the sets of what may come out.   *)

NoListener(x) == [x EXCEPT !.conn = "none", !.link = "gone", !.subs = {}, !.cmd = NoCmd,
                           !.stale = TRUE, !.same = (x.io = "idle")]

\* abandon_listener(): the channels stay pending, the reconnect timer is armed.
Abandon(x) == [NoListener(x) EXCEPT !.backoff = TRUE, !.failed = TRUE]

\* start_listener(): not within the backoff, and it may fail on the spot.
StartListener(x) ==
    IF x.backoff THEN {x}
    ELSE {[NoListener(x) EXCEPT !.conn = "Connecting", !.link = "up"]}
         \cup (IF faults < MaxFaults THEN {Abandon(x)} ELSE {})

\* fail_listener_query(): told from the loop, by lost_timer_.
FailFlight(x) ==
    [x EXCEPT !.timer = "none", !.flight = None,
              !.lost = IF x.flight \in Stmt THEN @ \cup {x.flight} ELSE @]

\* Mutant: the new listener starts with what was still to be sent on the old one.
RestartForgets(x) ==
    LET u == [NoListener(FailFlight(x)) EXCEPT
                 !.sent = {}, !.confirmed = {}, !.single = {}, !.rejected = {}, !.batch = 0]
    IN  IF Wants(u) THEN StartListener(u) ELSE {u}

\* restart_listener(): subscribed again from the registry.
Restart(x) ==
    LET u == [NoListener(FailFlight(x)) EXCEPT
                 !.pending = @ \cup x.registry, !.sent = {}, !.confirmed = {},
                 !.single = {}, !.rejected = {}, !.batch = 0]
    IN  IF Wants(u) THEN StartListener(u) ELSE {u}

----------------------------------------------------------------------------
(* What goes out on it.                                                    *)

\* send_pending_listens(): a channel to be tried alone, or all in one batch.
SendPending(x) ==
    LET Ship(b) ==
            LET u == [x EXCEPT !.pending = @ \ b, !.single = @ \ b]
            IN  IF CanSend(x)
                THEN {[Sent(u, Cmd("LISTEN", b)) EXCEPT !.sent = @ \cup b,
                                                        !.batch = Cardinality(b)]}
                ELSE Restart([Unsent(u) EXCEPT !.pending = @ \cup b])
    IN  IF x.pending = {} \/ x.conn = "none" THEN {x}
        ELSE IF x.single # {} THEN UNION {Ship({c}) : c \in x.single}
        ELSE Ship(x.pending)

\* listener_send_next(): LISTENs first; a statement that could not be sent goes
\* back to the front.
SendNext(x) ==
    IF x.conn # "Ready" \/ x.flight # None THEN {x}
    ELSE IF x.pending # {} THEN SendPending(x)
    ELSE IF x.queue = <<>> THEN {x}
    ELSE LET s == Head(x.queue)
         IN  IF ~CanSend(x) THEN Restart(Unsent(x))
             ELSE {[Sent(x, Cmd("statement", {})) EXCEPT
                       !.queue = Tail(@), !.flight = s,
                       !.timer = IF s \in Limited THEN "flight" ELSE @]}

\* watch_listener_queue(): a statement that waits has its limit too.
WatchQueue(x) ==
    IF x.timer = "none" /\ x.conn = "Busy" /\ ToSet(x.queue) \cap Limited # {}
    THEN [x EXCEPT !.timer = "watch", !.stale = FALSE]
    ELSE x

----------------------------------------------------------------------------
(* The calls.                                                              *)

InNotify(x) == x.io = "notify"         \* notify_depth_ > 0

\* listen()
Listened(x, c, ready) ==
    LET coming == c \in x.sent \cup x.confirmed
        u == [x EXCEPT !.registry = @ \cup {c},
                       !.ready = IF ready THEN @ \cup {c} ELSE @,
                       !.waits = IF ready THEN @ \cup {c} ELSE @,
                       !.pending = IF c \notin x.registry \/ (ready /\ ~coming)
                                   THEN @ \cup {c} ELSE @]
    IN  IF InNotify(u) THEN {u}
        ELSE IF u.conn = "none" THEN StartListener(u)
        ELSE IF Dead(u) THEN Restart(u)
        ELSE IF u.conn = "Ready" THEN SendPending(u)
        ELSE {u}

\* unlisten(): what it could not send is not sent later.
Unlistened(x, c) ==
    LET u == [x EXCEPT !.registry = @ \ {c}, !.ready = @ \ {c}, !.waits = @ \ {c},
                       !.pending = @ \ {c}, !.sent = @ \ {c}, !.confirmed = @ \ {c},
                       !.single = @ \ {c}, !.rejected = @ \ {c}]
    IN  IF u.conn # "Ready" THEN u
        ELSE IF CanSend(u) THEN Sent(u, Cmd("UNLISTEN", {c}))
        ELSE Unsent(u)

\* After detach() a statement goes ahead of those nobody waits for.
Ahead(q, s, detached) ==
    LET k == Cardinality({i \in DOMAIN q : \A j \in 1..i : q[j] \notin detached})
    IN  InsertAt(q, k + 1, s)

\* listener_execute()
Executed(x, s) ==
    LET u == [x EXCEPT !.queue = IF x.down THEN Ahead(@, s, x.detached) ELSE Append(@, s)]
    IN  IF InNotify(u) THEN {u}
        ELSE IF u.conn = "none" THEN StartListener(u)
        ELSE IF Dead(u) THEN Restart(u)
        ELSE IF u.conn = "Ready" THEN SendNext(u)
        ELSE {WatchQueue(u)}

----------------------------------------------------------------------------
(* on_listener_io(), part by part.                                         *)

Done(x) == [x EXCEPT !.io = "idle", !.from = "none", !.same = TRUE]

\* Mutant: an answer that libpq has read already waits for the socket.
FinishWaits(x) == UNION { {Done(WatchQueue(u))} : u \in SendNext(x) }

\* The end of the handler: what waits goes out, and an answer libpq has read
\* already is handled in the same call.
Finish(x) ==
    UNION { IF ~u.same THEN {Done(u)}
            ELSE IF u.conn = "Busy" /\ u.cmd.at = "buffer" THEN {[u EXCEPT !.io = "again"]}
            ELSE {Done(WatchQueue(u))} : u \in SendNext(x) }

\* After the notifications: dispatch_listen_ready(), unless muted, then the end.
AfterNotify(x) ==
    IF x.from = "LISTEN" /\ x.confirmed # {} /\ ~x.muted THEN {[x EXCEPT !.io = "ready"]}
    ELSE Finish(IF x.muted THEN [x EXCEPT !.confirmed = {}] ELSE x)

\* consume_notify(): reads whatever is there, an answer included.
Consume(x, from) ==
    LET u == [x EXCEPT !.from = from,
                       !.cmd.at = IF x.cmd.at = "wire" THEN "buffer" ELSE @]
    IN  IF u.link = "shut" THEN {Done(v) : v \in Restart(Unsent(u))}
        ELSE AfterNotify(u) \cup
             (IF u.registry \cap u.subs # {} /\ ~u.muted THEN {[u EXCEPT !.io = "notify"]} ELSE {})

\* The answer to a LISTEN batch, or to an UNLISTEN (sent_listens_ is empty).
Judged(x, ok) ==
    LET u == [x EXCEPT !.sent = {}, !.batch = 0]
    IN  IF ok THEN [u EXCEPT !.rejected = @ \ x.sent, !.confirmed = @ \cup x.sent]
        ELSE IF x.batch > 1 THEN [u EXCEPT !.pending = @ \cup x.sent, !.single = @ \cup x.sent]
        ELSE [u EXCEPT !.rejected = @ \cup x.sent]

Answered(x) == [x EXCEPT !.conn = "Ready", !.cmd = NoCmd, !.stale = TRUE, !.same = TRUE]

\* The Busy case: a statement's handlers run first, a LISTEN's answer is judged.
\* io leaves "idle" here, so that a listener replaced meanwhile is noticed.
BusyRead(x) ==
    LET u == Answered(x)
    IN  IF x.flight # None
        THEN {[u EXCEPT !.io = "deliver", !.flight = None, !.timer = "none"]}
        ELSE UNION { IF ~v.same THEN {Done(v)} ELSE Consume(v, "LISTEN")
                     : v \in SendPending([Judged(u, x.cmd.ok) EXCEPT !.io = "notify"]) }

\* The handshake is over: the name is put ahead of the statements.
Connected(x) ==
    Finish([x EXCEPT !.conn = "Ready", !.io = "notify",
                     !.queue = IF Name = None THEN @ ELSE <<Name>> \o @])

----------------------------------------------------------------------------
(* A step: the new listener, what was sent and told by it, and the faults  *)
(* it met.                                                                 *)

Becomes(S) ==
    /\ \E u \in S :
        /\ pl' = [u EXCEPT !.failed = FALSE]
        /\ sends' = IF u.flight \in Stmt /\ pl.flight # u.flight
                    THEN [sends EXCEPT ![u.flight] = @ + 1] ELSE sends
        /\ faults' = IF u.failed THEN faults + 1 ELSE faults

Tells(s) == told' = IF s \in Stmt \ pl.detached THEN [told EXCEPT ![s] = @ + 1] ELSE told

Handlers == {"idle", "deliver", "notify", "ready"}

Listen(c, ready) ==
    /\ pl.io \in Handlers /\ ~pl.down
    /\ calls < MaxCalls /\ calls' = calls + 1
    /\ Becomes(Listened(pl, c, ready))
    /\ UNCHANGED told

Unlisten(c) ==
    /\ pl.io \in Handlers /\ c \in pl.registry
    /\ calls < MaxCalls /\ calls' = calls + 1
    /\ Becomes({Unlistened(pl, c)})
    /\ UNCHANGED told

Known(s) == sends[s] > 0 \/ told[s] > 0 \/ s \in ToSet(pl.queue) \/ s \in pl.lost
            \/ s \in pl.detached

ListenerExecute(s) ==
    /\ pl.io \in Handlers /\ ~Known(s)
    /\ calls < MaxCalls /\ calls' = calls + 1
    /\ Becomes(Executed(pl, s))
    /\ UNCHANGED told

\* detach(): its callers are gone, and no notification is dispatched any more.
Detach ==
    /\ pl.io = "idle" /\ ~pl.down
    /\ Becomes({[pl EXCEPT !.down = TRUE, !.muted = TRUE,
                           !.detached = ToSet(pl.queue) \cup pl.lost \cup ({pl.flight} \ {None})]})
    /\ UNCHANGED <<told, calls>>

----------------------------------------------------------------------------
\* The handshake ends: the listener is up, or one that failed.
HandshakeEnds ==
    /\ pl.io = "idle" /\ pl.conn = "Connecting"
    /\ Becomes(Connected(pl) \cup (IF faults < MaxFaults THEN {Abandon(pl)} ELSE {}))
    /\ UNCHANGED <<told, calls>>

\* The socket is readable: an answer.
AnswerRead ==
    /\ pl.conn = "Busy" /\ pl.cmd.at # "server"
    /\ pl.io = IF pl.cmd.at = "buffer" THEN "again" ELSE "idle"
    /\ Becomes(BusyRead(pl))
    /\ Tells(pl.flight) /\ UNCHANGED calls

\* ... a notification, on an idle listener.
NotifyRead ==
    /\ pl.io = "idle" /\ pl.conn = "Ready" /\ pl.link = "up"
    /\ pl.registry \cap pl.subs # {} /\ ~pl.muted
    /\ Becomes({[pl EXCEPT !.io = "notify", !.from = "notification"]})
    /\ UNCHANGED <<told, calls>>

\* ... or the end of the connection, with nothing before it.
LossRead ==
    /\ pl.io = "idle" /\ pl.conn \in {"Ready", "Busy"} /\ pl.link = "shut"
    /\ pl.cmd.at = "server"
    /\ Becomes(Restart(pl))
    /\ UNCHANGED <<told, calls>>

\* The handlers of a statement return.
DeliverReturns ==
    /\ pl.io = "deliver"
    /\ Becomes(IF pl.same THEN Consume([pl EXCEPT !.io = "notify"], "statement") ELSE {Done(pl)})
    /\ UNCHANGED <<told, calls>>

\* Those of the notifications return; consume_notify() read on meanwhile.
NotifyReturns ==
    /\ pl.io = "notify"
    /\ Becomes(IF pl.link = "shut" THEN {Done(v) : v \in Restart(Unsent(pl))}
               ELSE AfterNotify([pl EXCEPT !.cmd.at = IF @ = "wire" THEN "buffer" ELSE @]))
    /\ UNCHANGED <<told, calls>>

\* dispatch_listen_ready(): the next channel, taken out before its handlers run.
ReadyDispatch(c) ==
    /\ pl.io = "ready" /\ c \in pl.confirmed
    /\ Becomes({[pl EXCEPT !.confirmed = @ \ {c}, !.waits = @ \ {c}]})
    /\ UNCHANGED <<told, calls>>

ReadyReturns ==
    /\ pl.io = "ready" /\ pl.confirmed = {}
    /\ Becomes(IF pl.same THEN Finish([pl EXCEPT !.io = "notify"]) ELSE {Done(pl)})
    /\ UNCHANGED <<told, calls>>

----------------------------------------------------------------------------
(* The timers.                                                             *)

Silent == pl.link # "up"

\* listener_answer_timer_: no answer in time, or a watch that finds it answered.
AnswerTimer ==
    LET u == [pl EXCEPT !.timer = "none"]
        passed == pl.timer = "watch" /\ (pl.stale \/ pl.conn # "Busy")
    IN  /\ pl.io = "idle" /\ pl.timer # "none"
        /\ passed \/ Silent \/ faults < MaxFaults
        /\ Becomes(IF passed THEN {WatchQueue(u)}
                   ELSE {[v EXCEPT !.failed = @ \/ ~Silent] : v \in Restart(u)})
        /\ UNCHANGED <<told, calls>>

\* The reconnect timer: the backoff is over.
ReconnectTimer ==
    /\ pl.io = "idle" /\ pl.backoff
    /\ LET u == [pl EXCEPT !.backoff = FALSE]
       IN  Becomes(IF u.conn = "none" /\ Wants(u) THEN StartListener(u) ELSE {u})
    /\ UNCHANGED <<told, calls>>

\* heartbeat(): nothing else sees a listener libpq has closed.
Heartbeat ==
    /\ pl.io = "idle"
    /\ Dead(pl) \/ (pl.conn = "none" /\ Wants(pl))
    /\ Becomes(IF Dead(pl) THEN Restart(pl) ELSE StartListener(pl))
    /\ UNCHANGED <<told, calls>>

\* lost_timer_
DeliverLost(s) ==
    /\ pl.io = "idle" /\ s \in pl.lost
    /\ Becomes({[pl EXCEPT !.lost = @ \ {s}]})
    /\ Tells(s) /\ UNCHANGED calls

----------------------------------------------------------------------------
(* The server and the network.                                             *)

ServerWorks ==
    LET c == pl.cmd
        ok == c.kind # "LISTEN" \/ c.chans \cap Bad = {}
    IN  /\ pl.conn = "Busy" /\ c.at = "server" /\ pl.link = "up"
        /\ pl' = [pl EXCEPT !.cmd.at = "wire", !.cmd.ok = ok,
                            !.subs = CASE c.kind = "LISTEN" /\ ok -> @ \cup c.chans
                                       [] c.kind = "UNLISTEN"     -> @ \ c.chans
                                       [] OTHER                   -> @]
        /\ UNCHANGED <<sends, told, calls, faults>>

\* The connection ends where the client will see it, or in silence.
LinkLost(how) ==
    /\ pl.conn \in {"Ready", "Busy"} /\ pl.link = "up"
    /\ faults < MaxFaults /\ faults' = faults + 1
    /\ pl' = [pl EXCEPT !.link = how]
    /\ UNCHANGED <<sends, told, calls>>

\* TCP gives up a peer that is silent.
TcpGivesUp ==
    /\ pl.link = "mute"
    /\ pl' = [pl EXCEPT !.link = "shut"]
    /\ UNCHANGED <<sends, told, calls, faults>>

----------------------------------------------------------------------------
ListenerInit ==
    /\ pl = [ registry |-> {}, ready |-> {}, waits |-> {}, pending |-> {}, sent |-> {},
              confirmed |-> {}, single |-> {}, rejected |-> {}, batch |-> 0,
              conn |-> "none", link |-> "gone", subs |-> {}, cmd |-> NoCmd,
              queue |-> <<>>, flight |-> None, timer |-> "none", stale |-> FALSE,
              lost |-> {}, detached |-> {}, down |-> FALSE, muted |-> FALSE,
              backoff |-> FALSE, failed |-> FALSE,
              io |-> "idle", from |-> "none", same |-> TRUE ]
    /\ sends = [s \in Stmt |-> 0]
    /\ told = [s \in Stmt |-> 0]
    /\ calls = 0
    /\ faults = 0

ListenerNext ==
    \/ \E c \in Chan, ready \in BOOLEAN : Listen(c, ready)
    \/ \E c \in Chan : Unlisten(c)
    \/ \E s \in Stmt : ListenerExecute(s)
    \/ Detach
    \/ HandshakeEnds
    \/ AnswerRead
    \/ NotifyRead
    \/ LossRead
    \/ DeliverReturns
    \/ NotifyReturns
    \/ \E c \in Chan : ReadyDispatch(c)
    \/ ReadyReturns
    \/ AnswerTimer
    \/ ReconnectTimer
    \/ Heartbeat
    \/ \E s \in Stmt : DeliverLost(s)
    \/ ServerWorks
    \/ \E how \in {"shut", "mute"} : LinkLost(how)
    \/ TcpGivesUp

ListenerSpec == ListenerInit /\ [][ListenerNext]_plVars

\* The loop calls the handlers of sockets and timers, and handlers return; a timer
\* that is due is not kept out by notifications (a batch holds every descriptor
\* that is ready); the server answers; TCP gives up on a dead peer in the end.
ListenerFairness ==
    /\ WF_plVars(HandshakeEnds)
    /\ WF_plVars(AnswerRead)
    /\ WF_plVars(LossRead)
    /\ WF_plVars(DeliverReturns)
    /\ WF_plVars(NotifyReturns)
    /\ WF_plVars(\E c \in Chan : ReadyDispatch(c))
    /\ WF_plVars(ReadyReturns)
    /\ SF_plVars(AnswerTimer)
    /\ WF_plVars(ReconnectTimer)
    /\ WF_plVars(Heartbeat)
    /\ \A s \in Stmt : SF_plVars(DeliverLost(s))
    /\ WF_plVars(ServerWorks)
    /\ WF_plVars(TcpGivesUp)

----------------------------------------------------------------------------
(* Properties.                                                             *)

\* No channel of the registry is forgotten: the server's session has it, or it is
\* still to be sent, or with the server, or known to be refused; and what is
\* confirmed, about to be told to the on_ready handlers, the server has.
ChannelsAccounted ==
    /\ ~Dead(pl) => pl.registry \subseteq pl.pending \cup pl.sent \cup pl.rejected \cup pl.subs
    /\ pl.conn \in {"none", "Connecting"} => pl.registry \subseteq pl.pending
    /\ ~Dead(pl) => pl.confirmed \subseteq pl.subs
    /\ pl.single \subseteq pl.pending

\* A statement is sent at most once, whatever happens to the listener, its caller
\* is called at most once, and it is not dropped on the way.
StatementsKept ==
    \A s \in Stmt :
        /\ sends[s] <= 1 /\ told[s] <= 1
        /\ Known(s) => \/ s \in ToSet(pl.queue) \cup pl.lost \cup {pl.flight}
                       \/ told[s] = 1 \/ s \in pl.detached

\* Over any sequence of losses and calls no channel is forgotten, and a statement is
\* sent and told once.
ListenerKeeps == ChannelsAccounted /\ StatementsKept

\* A channel listened to is subscribed in the end, unless the server refuses it
\* or it is given up; and who asked to hear of it hears of it.
Subscribed ==
    \A c \in Chan :
        /\ c \in pl.registry ~> \/ c \notin pl.registry \/ c \in pl.rejected
                                \/ (c \in pl.subs /\ pl.link = "up")
        /\ c \in pl.waits ~> c \notin pl.waits \/ c \in pl.rejected \/ pl.muted

\* A statement with a limit is answered or failed in the end.
LimitedEnd == \A s \in Limited : Known(s) ~> (told[s] = 1 \/ s \in pl.detached)
=============================================================================

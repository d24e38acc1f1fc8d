----------------------------- MODULE HttpProxy -----------------------------
(***************************************************************************)
(* The reverse proxy (http_proxy.cpp): a forwarded request is answered     *)
(* with what the upstream sends, or fails once, with the reason that tells *)
(* the caller whether another upstream may be tried.  The caller may       *)
(* destroy the proxy from the callback that tells it.                      *)
(***************************************************************************)
EXTENDS Naturals, Sequences, TcpClient

CONSTANTS
    Fwd,        \* forwarded requests
    MaxReads    \* bound on the reads of an answer before its last one

VARIABLES
    ctx,        \* contexts_: what the proxy holds of each forward, or None
    deadline,   \* forwards with a response timer in the loop
    sweep,      \* cleanup_timer_: the interval of the pending sweep, or none
    outcome,    \* what the caller was told of each forward, in order
    reached,    \* forwards whose bytes went out to the upstream
    proxy       \* "live" until the caller destroys the proxy

hpVars == <<ctx, deadline, sweep, outcome, reached, proxy>>

None == [tcp |-> TcpFresh(FALSE, FALSE, FALSE), held |-> FALSE, done |-> FALSE,
         sent |-> FALSE, limit |-> FALSE, broken |-> FALSE, reads |-> 0]

Reasons == {"connect", "idle_timeout", "response_timeout", "closed", "other"}
Outcomes == {<<"answered", TRUE>>} \cup (Reasons \X BOOLEAN)

HttpProxyTypeOK ==
    /\ \A f \in Fwd : ctx[f] \in
           [tcp : TcpRecords, held : BOOLEAN, done : BOOLEAN, sent : BOOLEAN,
            limit : BOOLEAN, broken : BOOLEAN, reads : 0 .. MaxReads]
    /\ deadline \subseteq Fwd
    /\ sweep \in {"none", "0 ms"}
    /\ \A f \in Fwd : outcome[f] \in {<<>>} \cup {<<o>> : o \in Outcomes}
    /\ reached \subseteq Fwd
    /\ proxy \in {"live", "gone"}

----------------------------------------------------------------------------
(* The sweep is asked for before the caller is told, and the caller is     *)
(* told last; `destroys` says that it then destroys the proxy.             *)

Settle(f, c, o, destroys) ==
    /\ outcome' = [outcome EXCEPT ![f] = Append(@, o)]
    /\ deadline' = deadline \ {f}
    /\ sweep' = "0 ms"
    /\ proxy' = IF destroys THEN "gone" ELSE proxy
    /\ ctx' = IF destroys THEN [g \in Fwd |-> None]
              ELSE [ctx EXCEPT ![f] = [c EXCEPT !.done = TRUE]]

Keep(f, c) ==
    /\ ctx' = [ctx EXCEPT ![f] = c]
    /\ UNCHANGED <<deadline, sweep, outcome, proxy>>

\* `fail` of forward_impl: nothing once the forward is settled.
Fail(f, c, reason, destroys) ==
    IF c.done THEN Keep(f, c) ELSE Settle(f, c, <<reason, c.sent>>, destroys)

\* A forward after a method of its connection that ended in on_close or
\* on_error: `idle` is TcpClient's "idle timeout", the one text told apart.
Ended(f, c, t, idle, destroys) ==
    LET d == [c EXCEPT !.tcp = TcpHeard(t)]
        reason == IF ~c.sent THEN "connect"
                  ELSE IF t.ev = "close" THEN "closed"
                  ELSE IF idle THEN "idle_timeout" ELSE "other"
    IN  IF t.ev = "none" THEN Keep(f, d) ELSE Fail(f, d, reason, destroys)

\* Mutant: that the request left is not noted.
ConnectedUnsent(f, c, t) ==
    /\ ctx' = [ctx EXCEPT ![f] = [c EXCEPT !.tcp = TcpHeard(TcpSend(TcpHeard(t)))]]
    /\ deadline' = IF c.limit THEN deadline \cup {f} ELSE deadline
    /\ UNCHANGED <<sweep, outcome, proxy>>

\* on_connect: from here on the upstream may act on the request, which is queued
\* on the connected socket.  The deadline of the answer starts here.
Connected(f, c, t) ==
    /\ ctx' = [ctx EXCEPT ![f] =
                 [c EXCEPT !.sent = TRUE, !.tcp = TcpHeard(TcpSend(TcpHeard(t)))]]
    /\ deadline' = IF c.limit THEN deadline \cup {f} ELSE deadline
    /\ UNCHANGED <<sweep, outcome, proxy>>

Handle(f, c, t, idle, destroys) ==
    IF t.ev = "connect" THEN Connected(f, c, t)
    ELSE Ended(f, c, t, idle, destroys)

----------------------------------------------------------------------------
\* forward(): the timeouts of the proxy are on by default, the deadline is not.
\* The connection may fail before connect() returns.
Forward(f, how, tls, limit) ==
    /\ proxy = "live" /\ ~ctx[f].held /\ outcome[f] = <<>>
    /\ Handle(f, [None EXCEPT !.held = TRUE, !.limit = limit],
              TcpConnect(TcpFresh(tls, TRUE, TRUE), how), FALSE, FALSE)
    /\ UNCHANGED reached

News(f, e, destroys) ==
    /\ ctx[f].held /\ TcpCan(ctx[f].tcp, e)
    /\ Handle(f, ctx[f], TcpOn(ctx[f].tcp, e), e = "idle timeout", destroys)
    /\ reached' = IF e = "writable" THEN reached \cup {f} ELSE reached

\* The upstream's answer: a piece, the end, or bytes that are no HTTP.  The
\* context is settled and its connection closed before the answer is handed on.
Read(f, what, destroys) ==
    LET c == [ctx[f] EXCEPT !.tcp = TcpReading(@), !.reads = @ + 1]
    IN  /\ ctx[f].held /\ Awake(ctx[f].tcp) /\ ctx[f].tcp.st = "Connected"
        /\ ctx[f].reads < MaxReads
        /\ IF what = "end" /\ ~c.broken /\ ~c.done
           THEN Settle(f, [c EXCEPT !.tcp = TcpHeard(TcpClose(@))],
                       <<"answered", TRUE>>, destroys)
           ELSE Keep(f, [c EXCEPT !.broken = @ \/ what = "garbage"])
        /\ UNCHANGED reached

\* The response timer: a context that is gone is left alone; else it is done
\* first, closed next, and the caller told last.
ResponseTimer(f, destroys) ==
    LET c == [ctx[f] EXCEPT !.tcp = TcpHeard(TcpClose(@))]
    IN  /\ f \in deadline
        /\ IF ~ctx[f].held \/ ctx[f].done
           THEN /\ deadline' = deadline \ {f}
                /\ UNCHANGED <<ctx, sweep, outcome, proxy>>
           ELSE Settle(f, c, <<"response_timeout", c.sent>>, destroys)
        /\ UNCHANGED reached

\* ~HttpProxy(): no timer is cancelled, each finds its token expired.
Destroy ==
    /\ proxy = "live" /\ proxy' = "gone"
    /\ ctx' = [f \in Fwd |-> None]
    /\ UNCHANGED <<deadline, sweep, outcome, reached>>

----------------------------------------------------------------------------
HttpProxyInit ==
    /\ ctx = [f \in Fwd |-> None]
    /\ deadline = {}
    /\ sweep = "none"
    /\ outcome = [f \in Fwd |-> <<>>]
    /\ reached = {}
    /\ proxy = "live"

HttpProxyNext ==
    \/ \E f \in Fwd, how \in Hows, tls, limit \in BOOLEAN : Forward(f, how, tls, limit)
    \/ \E f \in Fwd, e \in TcpEvents, destroys \in BOOLEAN : News(f, e, destroys)
    \/ \E f \in Fwd, what \in {"piece", "end", "garbage"}, destroys \in BOOLEAN :
           Read(f, what, destroys)
    \/ \E f \in Fwd, destroys \in BOOLEAN : ResponseTimer(f, destroys)
    \/ Destroy

HttpProxySpec == HttpProxyInit /\ [][HttpProxyNext]_hpVars

\* Timers that are armed fire.  Nothing is assumed of the upstream.
HttpProxyFairness ==
    \A f \in Fwd :
        /\ WF_hpVars(\E d \in BOOLEAN : News(f, "connect timeout", d))
        /\ WF_hpVars(\E d \in BOOLEAN : News(f, "idle timeout", d))
        /\ WF_hpVars(\E d \in BOOLEAN : ResponseTimer(f, d))

----------------------------------------------------------------------------
(* Properties.                                                             *)

\* A forward is answered or fails once, and a caller told that the connection
\* failed may try elsewhere: nothing has reached this upstream ("request_sent ...
\* Equivalent to reason != Reason::connect", http_proxy.hpp).
SafeToRetry ==
    \A f \in Fwd : \A i \in DOMAIN outcome[f] :
        LET reason == outcome[f][i][1]
            sent   == outcome[f][i][2]
        IN  /\ i = 1
            /\ sent <=> reason # "connect"
            /\ reason = "connect" => f \notin reached

\* The same of every forward, from the connection to the last byte of the answer.
ForwardsEnd ==
    \A f \in Fwd : ctx[f].held ~> (outcome[f] # <<>> \/ proxy = "gone")

\* ForwardsEnd for an upstream without TLS.
PlainForwardsEnd ==
    \A f \in Fwd : (ctx[f].held /\ ~ctx[f].tcp.tls) ~> (outcome[f] # <<>> \/ proxy = "gone")
=============================================================================

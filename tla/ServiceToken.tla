---------------------------- MODULE ServiceToken ---------------------------
(***************************************************************************)
(* The access token an application holds for itself (service_token.cpp)    *)
(* and the requests that renew it (service_token_sql.cpp): heartbeat calls *)
(* refresh_service_token(), whose answer may be late, lost or useless.     *)
(*                                                                         *)
(* Time is counted down: `good' is what is left of the token's life,       *)
(* `fresh' of the time before its renewal, `wait' of the backoff, `limit'  *)
(* of the deadline of the request in flight.  Token 0 is no token.         *)
(***************************************************************************)
EXTENDS Naturals, FiniteSets, FiniteSetsExt

CONSTANTS Tokens,                \* the database's, used again once closed
          Requests,              \* bound: those in flight at once
          Life, Margin,          \* of a token; renewal starts Margin before its end
          RetryInitial, RetryMax, Timeout,
          MaxFaults              \* bound: answers lost, failed, useless

VARIABLE tok

Valid == tok.token # 0 /\ tok.good > 0

Fault(x) == [x EXCEPT !.faults = @ + 1]
MayFail == tok.faults < MaxFaults

\* failed(): the backoff doubles up to its maximum.
Failed(x) ==
    LET b == IF x.backoff = 0 THEN RetryInitial
             ELSE IF 2 * x.backoff > RetryMax THEN RetryMax ELSE 2 * x.backoff
    IN  [x EXCEPT !.refreshing = FALSE, !.backoff = b, !.wait = b]

Invalidated(x) == [x EXCEPT !.token = 0, !.good = 0, !.fresh = 0]

\* issued(): the one replaced is kept for the caller to close, ...
Issued(x, t) ==
    [ x EXCEPT !.refreshing = FALSE, !.previous = x.token, !.token = t,
               !.backoff = 0, !.wait = 0, !.good = Life, !.fresh = Life - Margin ]

\* ... and one of no use is a failure that drops the token held.
Useless(x) == Failed(Invalidated([x EXCEPT !.refreshing = FALSE,
                                           !.dropped = @ \cup ({x.token} \ {0})]))

\* Mutant: the token replaced is forgotten, and its session stays open.
ForgetsPrevious(x) == [x EXCEPT !.previous = 0]

\* take_previous_token() and close_session().
ClosesPrevious(x) ==
    [x EXCEPT !.previous = 0, !.closing = @ \cup ({x.previous} \ {0})]

----------------------------------------------------------------------------
\* needs_refresh(): a request past its deadline is given up first.
TimedOut == tok.refreshing /\ tok.limit = 0
Due == ~tok.refreshing /\ (tok.token = 0 \/ tok.fresh = 0) /\ tok.wait = 0

Heartbeat ==
    \/ TimedOut /\ tok' = Failed(tok)
    \/ /\ Due
       /\ \E r \in Requests \ tok.asked :
            tok' = [tok EXCEPT !.refreshing = TRUE, !.limit = Timeout, !.asked = @ \cup {r}]

\* The answer of daemon.token, in time or not.
AnswerToken(r) ==
    /\ r \in tok.asked /\ tok.open # Tokens
    /\ LET t == Min(Tokens \ tok.open)
       IN  tok' = ClosesPrevious(Issued([tok EXCEPT !.asked = @ \ {r}, !.open = @ \cup {t}], t))

AnswerRefused(r) ==
    /\ r \in tok.asked /\ MayFail
    /\ tok' = Failed([Fault(tok) EXCEPT !.asked = @ \ {r}])

AnswerUseless(r) ==
    /\ r \in tok.asked /\ MayFail
    /\ tok' = Useless([Fault(tok) EXCEPT !.asked = @ \ {r}])

\* Cancelled or dropped: no outcome is ever told.
AnswerLost(r) ==
    /\ r \in tok.asked /\ MayFail
    /\ tok' = [Fault(tok) EXCEPT !.asked = @ \ {r}]

\* daemon.session_close, which PgPool sends again if its answer is lost.
Closed(t) ==
    /\ t \in tok.closing
    /\ tok' = [tok EXCEPT !.closing = @ \ {t}, !.open = @ \ {t}]

\* A caller whose token the issuer rejected: invalidate().
Rejected ==
    /\ Valid /\ MayFail
    /\ tok' = Invalidated([Fault(tok) EXCEPT !.dropped = @ \cup {tok.token}])

\* The database sweeps the sessions nobody will close.
Swept(t) ==
    /\ t \in tok.dropped
    /\ tok' = [tok EXCEPT !.dropped = @ \ {t}, !.open = @ \ {t}]

Less(n) == IF n = 0 THEN 0 ELSE n - 1

Tick ==
    tok' = [tok EXCEPT !.good = Less(@), !.fresh = Less(@), !.wait = Less(@), !.limit = Less(@)]

----------------------------------------------------------------------------
TokenInit ==
    tok = [ token |-> 0, previous |-> 0, good |-> 0, fresh |-> 0, wait |-> 0, limit |-> 0,
            backoff |-> 0, refreshing |-> FALSE, asked |-> {}, open |-> {}, closing |-> {},
            dropped |-> {}, faults |-> 0 ]

TokenNext ==
    \/ Heartbeat
    \/ \E r \in Requests : AnswerToken(r) \/ AnswerRefused(r) \/ AnswerUseless(r) \/ AnswerLost(r)
    \/ \E t \in Tokens : Closed(t) \/ Swept(t)
    \/ Rejected
    \/ Tick

TokenSpec == TokenInit /\ [][TokenNext]_tok

----------------------------------------------------------------------------
(* Properties.                                                             *)

\* The token still serving requests is never closed, and no other is left open at
\* the database: each one issued is held, on its way to be closed, or was rejected
\* or dropped by an answer of no use — however late answers cross ("handed over
\* only once the replacement is in hand"; take_previous_token).
OnlyReplacedAreClosed ==
    /\ tok.token \notin tok.closing
    /\ tok.open \subseteq {tok.token} \cup tok.closing \cup tok.dropped

\* A request whose outcome never comes does not wedge the token: the application
\* holds a good one again and again (needs_refresh, begin_refresh, failed).
TokenComesBack == []<>Valid

\* A failed renewal costs nothing while the token is good: it is held until it is
\* replaced, unless the issuer rejects it or answers with one of no use ("a token
\* stays usable through the renewal margin").
ServesThroughFailures ==
    [][ Valid /\ tok.good > 1 /\ tok'.dropped = tok.dropped => tok'.token # 0 /\ tok'.good > 0 ]_tok
=============================================================================

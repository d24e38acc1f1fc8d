----------------------------- MODULE BotSession ----------------------------
(***************************************************************************)
(* The sessions a background process works under (bot_session.cpp,         *)
(* bot_session_sql.cpp): the heartbeat logs in and asks for a session of   *)
(* every scope; the login's own session is signed out again.  The bot's    *)
(* sessions are the database's to keep; a new process is handed the same.  *)
(***************************************************************************)
EXTENDS Naturals

CONSTANTS Life,           \* of the sessions, in beats
          Retry,          \* k_retry_interval
          MaxFaults       \* bound

VARIABLE bot

Fault(x) == [x EXCEPT !.faults = @ + 1]
MayFail == bot.faults < MaxFaults

\* valid()
Valid(x) == x.held /\ x.good > 0

Throttled(x) == [x EXCEPT !.step = "none", !.wait = Retry]

\* refresh_if_needed(): one attempt at a time.
Heartbeat ==
    /\ ~Valid(bot) /\ bot.step = "none" /\ bot.wait = 0
    /\ bot' = [bot EXCEPT !.step = "login"]

\* The answer to both statements: `found' a session of some scope, `token' the
\* login's own.  A login that found nothing is tried again at the next beat.
LoginAnswered(found, token) ==
    LET u == IF found THEN [bot EXCEPT !.held = TRUE, !.good = Life] ELSE bot
    IN  /\ bot.step = "login"
        /\ (~found \/ ~token) => MayFail
        /\ LET v == IF found /\ token THEN u ELSE Fault(u)
           IN  bot' = IF token THEN [v EXCEPT !.step = "signout", !.logins = @ + 1]
                      ELSE Throttled(v)

\* The login reached the database, and its answer did not come back.
LoginFailed(reached) ==
    /\ bot.step = "login" /\ MayFail
    /\ bot' = Throttled([Fault(bot) EXCEPT !.left = IF reached THEN @ + 1 ELSE @])

SignedOut(ok) ==
    /\ bot.step = "signout"
    /\ ok \/ MayFail
    /\ bot' = [IF ok THEN bot ELSE Fault(bot)
               EXCEPT !.step = "none", !.logins = @ - 1, !.left = IF ok THEN @ ELSE @ + 1]

\* sign_out(): forgets, closes nothing.
SignOut == bot.held /\ MayFail /\ bot' = [Fault(bot) EXCEPT !.held = FALSE, !.good = 0]

Less(n) == IF n = 0 THEN 0 ELSE n - 1

Tick == bot' = [bot EXCEPT !.good = Less(@), !.wait = Less(@)]

----------------------------------------------------------------------------
BotInit ==
    bot = [ held |-> FALSE, good |-> 0, wait |-> 0, step |-> "none",
            logins |-> 0,      \* login sessions open, on their way to be signed out
            left |-> 0,        \* login sessions nobody will sign out
            faults |-> 0 ]

BotNext ==
    \/ Heartbeat
    \/ \E found, token \in BOOLEAN : LoginAnswered(found, token)
    \/ \E b \in BOOLEAN : LoginFailed(b) \/ SignedOut(b)
    \/ SignOut
    \/ Tick

BotSpec == BotInit /\ [][BotNext]_bot

----------------------------------------------------------------------------
(* Properties.                                                             *)

\* "The login session is closed ... by the client that opened it": the heartbeats
\* of a long run leave no login session behind but those whose own statement
\* failed (bot_login, bot_close).
LoginsSignedOut == bot.logins <= 1 /\ bot.left <= bot.faults

\* The bot holds its sessions again and again, and signs its logins out
\* (refresh_if_needed).
BotComesBack ==
    /\ []<>Valid(bot)
    /\ bot.logins > 0 ~> bot.logins = 0
=============================================================================

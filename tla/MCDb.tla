-------------------------------- MODULE MCDb --------------------------------
(***************************************************************************)
(* Model checking of DbClients.  The parts share no state, and one run     *)
(* checks them one beside the other: `part' is the one that runs, the      *)
(* others stay as they begin.                                              *)
(***************************************************************************)
EXTENDS DbClients

VARIABLE part     \* which part runs

Parts == {"PgListener", "NotifySubscriber", "PgPoolSize", "ServiceToken", "BotSession"}

Is(p) == part = p

Init ==
    /\ part \in Parts
    /\ ListenerInit
    /\ SubscriberInit
    /\ \/ Is("PgPoolSize") /\ P!SizeInit
       \/ ~Is("PgPoolSize") /\ ps = P!NewPool
    /\ T!TokenInit
    /\ B!BotInit

Next ==
    /\ UNCHANGED part
    /\ \/ Is("PgListener") /\ ListenerNext /\ UNCHANGED <<nsVars, ps, tok, bot>>
       \/ Is("NotifySubscriber") /\ SubscriberNext
             /\ UNCHANGED <<plVars, ps, tok, bot>>
       \/ Is("PgPoolSize") /\ P!SizeNext /\ UNCHANGED <<plVars, nsVars, tok, bot>>
       \/ Is("ServiceToken") /\ T!TokenNext /\ UNCHANGED <<plVars, nsVars, ps, bot>>
       \/ Is("BotSession") /\ B!BotNext /\ UNCHANGED <<plVars, nsVars, ps, tok>>

vars == <<part, plVars, nsVars, ps, tok, bot>>

\* Handshakes end, the server answers the queries, the timers of the loop fire.
SizeFairness ==
    /\ \A c \in Conn :
         /\ WF_ps(Is("PgPoolSize") /\ P!ConnectOk(c))
         /\ WF_ps(Is("PgPoolSize") /\ P!QueryDone(c, "none", FALSE))
         /\ WF_ps(Is("PgPoolSize") /\ P!Idles(c))
    /\ WF_ps(Is("PgPoolSize") /\ P!Heartbeat)
    /\ WF_ps(Is("PgPoolSize") /\ P!ReconnectTimer)
    /\ WF_ps(Is("PgPoolSize") /\ P!BackoffEnds)
    /\ WF_ps(Is("PgPoolSize") /\ P!PausesEnd)

\* The heartbeat beats, time passes, the database answers and closes sessions.
TokenFairness ==
    /\ WF_tok(Is("ServiceToken") /\ T!Heartbeat)
    /\ WF_tok(Is("ServiceToken") /\ T!Tick)
    /\ \A r \in Requests : WF_tok(Is("ServiceToken") /\ T!AnswerToken(r))
    /\ \A t \in Tokens :
         /\ WF_tok(Is("ServiceToken") /\ T!Closed(t))
         /\ WF_tok(Is("ServiceToken") /\ T!Swept(t))

\* The same for the bot.
BotFairness ==
    /\ WF_bot(Is("BotSession") /\ B!Heartbeat)
    /\ WF_bot(Is("BotSession") /\ B!Tick)
    /\ WF_bot(Is("BotSession") /\ B!LoginAnswered(TRUE, TRUE))
    /\ WF_bot(Is("BotSession") /\ B!SignedOut(TRUE))

Spec ==
    /\ Init /\ [][Next]_vars
    /\ ListenerFairness /\ SizeFairness
    /\ TokenFairness /\ BotFairness

----------------------------------------------------------------------------
(* Properties; each is stated, and its code named, in the module it is of. *)

\* Channels are subscribed and statements with a limit end; the pool comes back to
\* its size; tokens and sessions come back, and a good token serves until then
\* (PgListener, PgPoolSize, ServiceToken, BotSession).
ComesBack ==
    /\ Subscribed /\ LimitedEnd
    /\ T!ServesThroughFailures
    /\ Is("PgPoolSize") => P!PoolSettles
    /\ Is("ServiceToken") => T!TokenComesBack
    /\ Is("BotSession") => B!BotComesBack
=============================================================================

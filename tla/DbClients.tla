------------------------------ MODULE DbClients ------------------------------
(***************************************************************************)
(* What a process does with the database beside its queries (PgPool): the  *)
(* listener, the subscriber on it, the size of the pool, tokens and        *)
(* sessions, side by side.  They share no state: what one needs of another *)
(* is a choice in its own module.                                          *)
(***************************************************************************)
EXTENDS PgListener, NotifySubscriber

CONSTANTS
    Conn, NoConn, MinConns, MaxConns, MaxQueries, PoolFaults,   \* PgPoolSize
    Tokens, Requests, Life, Margin, RetryInitial, RetryMax,     \* ServiceToken
    Timeout, TokenFaults,
    BotLife, BotRetry, BotFaults                                \* BotSession

\* The pool has one connection at least, and no bound below the other (settings:
\* postgres.pool.min and .max), and names for as many as it may hold.
ASSUME PoolConstants ==
    /\ IsFiniteSet(Conn) /\ NoConn \notin Conn
    /\ MinConns \in Nat \ {0} /\ MaxConns \in Nat /\ MinConns <= MaxConns
    /\ MaxConns + MinConns <= Cardinality(Conn)
    /\ MaxQueries \in Nat /\ PoolFaults \in Nat

\* Tokens are numbers, and 0 none; a token and a session live for a while.
ASSUME CredentialConstants ==
    /\ Tokens \subseteq Nat \ {0}
    /\ Life \in Nat \ {0} /\ Margin \in 0 .. Life
    /\ RetryInitial \in Nat /\ RetryMax \in Nat /\ Timeout \in Nat /\ TokenFaults \in Nat
    /\ BotLife \in Nat \ {0} /\ BotRetry \in Nat /\ BotFaults \in Nat

VARIABLES
    ps,       \* PgPoolSize
    tok,      \* ServiceToken
    bot       \* BotSession

P == INSTANCE PgPoolSize WITH MaxFaults <- PoolFaults
T == INSTANCE ServiceToken WITH MaxFaults <- TokenFaults
B == INSTANCE BotSession WITH Life <- BotLife, Retry <- BotRetry, MaxFaults <- BotFaults

\* Each part goes its own way.
DbClientsSpec ==
    /\ ListenerSpec /\ SubscriberSpec /\ P!SizeSpec /\ T!TokenSpec /\ B!BotSpec

----------------------------------------------------------------------------
(* Properties; each is stated, and its code named, in the module it is of.  *)

\* The pool has no more connections than it may (PgPoolSize).
SizeBounded == P!SizeBounded

\* No token in use is closed and none forgotten, and logins are signed out
\* (ServiceToken, BotSession).
CredentialsKept == T!OnlyReplacedAreClosed /\ B!LoginsSignedOut
=============================================================================

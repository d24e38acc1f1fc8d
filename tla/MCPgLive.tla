------------------------------ MODULE MCPgLive ------------------------------
(***************************************************************************)
(* What must eventually happen to the queries and connections of a PgPool, *)
(* and to the role of a PgLeaderLock.  The two share no state: `part' is   *)
(* the one that runs, the other stays as it begins.                        *)
(***************************************************************************)
EXTENDS PgPool

CONSTANTS Member, Nobody, Ghost

VARIABLES
    part,                                                     \* which part runs
    role, stopping, conn, question, since, confirmed, tick, stalled, wire, reply,
    theirs, idle, cut, met, holder, mishaps                   \* PgLeader

L == INSTANCE PgLeader WITH Proc <- Member, Interval <- 1, MinAnswer <- 1,
                            Together <- TRUE, Prompt <- TRUE, MaxFaults <- 2,
                            asked <- question, session <- theirs, faults <- mishaps

leaderVars == <<role, stopping, conn, question, since, confirmed, tick, stalled, wire,
                reply, theirs, idle, cut, met, holder, mishaps>>
liveVars == <<part, vars, leaderVars>>

Is(p) == part = p

\* Bounds: both queries and one fault, or one query and MaxFaults.  No step that
\* fairness asks for needs either.
Bounded == Cardinality(asked') = Cardinality(Query) => faults' <= 1

LiveInit == part \in {"PgPool", "PgLeader"} /\ Init /\ L!Init

LiveNext ==
    /\ UNCHANGED part
    /\ \/ Is("PgPool") /\ Next /\ Bounded /\ UNCHANGED leaderVars
       \/ Is("PgLeader") /\ L!Next /\ UNCHANGED vars

\* The fairness of PgPool, and that of PgLeader, each for the part that runs: of
\* the pool only its thread has something to do as it begins.
PoolFairness == WorldFairness /\ WF_vars(Is("PgPool") /\ OnThread)

LeaderFairness ==
    /\ WF_leaderVars(Is("PgLeader") /\ L!Advance)
    /\ WF_leaderVars(Is("PgLeader") /\ L!GhostEnds)
    /\ \A p \in Member :
        /\ WF_leaderVars(Is("PgLeader") /\ (L!Tick(p) \/ L!Connected(p) \/ L!Answered(p)
                                            \/ L!SeesEof(p) \/ L!Exits(p)))
        /\ WF_leaderVars(Is("PgLeader") /\ (L!Serves(p) \/ L!Arrives(p) \/ L!IdleTimeout(p)))
        /\ WF_leaderVars(Is("PgLeader") /\ L!Heals(p))
        /\ WF_leaderVars(Is("PgLeader") /\ L!GoesOn(p))

LiveSpec == LiveInit /\ [][LiveNext]_liveVars /\ PoolFairness /\ LeaderFairness

----------------------------------------------------------------------------
(* Properties; each is stated, and its code named, in the module it is of. *)

\* Once the failures are over the pool is whole again (PgPool).
PoolIsRestored == Is("PgPool") => PoolRestored

\* The role does not stay without a leader (PgLeader).
RoleTaken == Is("PgLeader") => L!RoleTaken
=============================================================================

----------------------------- MODULE MCProcess -----------------------------
(***************************************************************************)
(* Model checking of the processes of an application: that a master gets   *)
(* where it has to (Supervisor), how a child stops (ChildStop), and the    *)
(* log that they share (LogRotation).  The parts share no state, and one   *)
(* run checks them one beside the other: `part' is the one that runs, the  *)
(* others stay as they begin.                                              *)
(***************************************************************************)
EXTENDS ChildStop, LogRotation

CONSTANTS Pid, Free

VARIABLES
    part,                                                              \* which part runs
    children, name, conf, retiring, proc, rapid, storm, delayed, respawns, shutting,
    killTimer, signals, current, at, todo, then, winched, faults       \* Supervisor

S == INSTANCE Supervisor WITH Name <- {"worker"}, Worker <- {"worker"}, RapidLimit <- 1,
                              Ceiling <- 2, MaxReloads <- 1, MaxFaults <- 0

suVars == <<children, name, conf, retiring, proc, rapid, storm, delayed, respawns, shutting,
            killTimer, signals, current, at, todo, then, winched, faults>>
vars == <<part, suVars, cs, lg>>

Parts == {"Supervisor", "ChildStop", "LogRotation"}

Is(p) == part = p

Init ==
    /\ part \in Parts
    /\ S!Init
    /\ \/ Is("LogRotation") /\ RotationInit
       \/ ~Is("LogRotation") /\ lg = NewLog(FALSE)
    /\ \/ Is("ChildStop") /\ StopInit
       \/ ~Is("ChildStop") /\ cs = [NewProcess("worker", "none") EXCEPT !.phase = "gone"]

Next ==
    /\ UNCHANGED part
    /\ \/ Is("Supervisor") /\ S!Next /\ UNCHANGED <<cs, lg>>
       \/ Is("ChildStop") /\ StopNext /\ UNCHANGED <<suVars, lg>>
       \/ Is("LogRotation") /\ RotationNext /\ UNCHANGED <<suVars, cs>>

\* The fairness of Supervisor, while it runs.
MasterFairness ==
    /\ WF_suVars(Is("Supervisor") /\ S!Steps)
    /\ SF_suVars(Is("Supervisor") /\ S!TakesChild)
    /\ SF_suVars(Is("Supervisor") /\ S!TakesTerm)
    /\ SF_suVars(Is("Supervisor") /\ S!TakesQuit)
    /\ SF_suVars(Is("Supervisor") /\ S!KillTimer)
    /\ SF_suVars(Is("Supervisor") /\ S!RespawnTimer("worker"))
    /\ \A p \in Pid : WF_suVars(Is("Supervisor") /\ S!Falls(p))

Spec ==
    /\ Init /\ [][Next]_vars
    /\ MasterFairness /\ StopFairness

----------------------------------------------------------------------------
(* Properties; each is stated, and its code named, in the module it is of. *)

\* SIGTERM ends the master whatever its children do, and SIGQUIT unless one of
\* them hangs; until then no name is without a running child for good
\* (Supervisor).  A child that is told to stop goes (ChildStop).
MasterServes == S!TermEnds /\ S!QuitEnds /\ (Is("Supervisor") => S!KeptUp) /\ StopEnds
=============================================================================

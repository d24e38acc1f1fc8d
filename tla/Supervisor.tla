----------------------------- MODULE Supervisor -----------------------------
(***************************************************************************)
(* The master process (src/core/application.cpp, master_run()) and its     *)
(* children: spawning, reaping and respawning with a backoff, the rolling  *)
(* restart of SIGHUP, SIGWINCH, and the two ways to stop.                  *)
(*                                                                         *)
(* The master is one thread: `at` is where it stands.  Its handlers are    *)
(* split where the children matter in the middle: reap_children() takes    *)
(* one child after another, rolling_restart() forks, waits 100 ms and only *)
(* then signals.  A child is what its master sees of it: running, stopping *)
(* (told to, finishing its work), killed, a zombie not waited for.  A pid  *)
(* may be used again once its process is waited for.                       *)
(*                                                                         *)
(* An exception out of a signal handler or a timer — fork() or a timer     *)
(* refused — leaves the loop, and the master ends; the kernel then sends   *)
(* its children SIGTERM (PR_SET_PDEATHSIG).                                *)
(***************************************************************************)
EXTENDS Naturals, FiniteSets

CONSTANTS
    Pid,         \* bound: the processes there may be at once
    Name,        \* the children of one configuration: "helper", "worker#1", ...
    Worker,      \* those of them that are workers
    Free,        \* the name under a pid not in use
    RapidLimit,  \* quick deaths before a respawn is delayed (3 in the code)
    Ceiling,     \* quick deaths at which the delay is 30 s (3 + 5)
    MaxReloads,  \* bound: configurations ever taken
    MaxFaults    \* bound: forks and timers the system refuses

ASSUME ConstantsAssumption ==
    /\ Worker \subseteq Name /\ Free \notin Name /\ IsFiniteSet(Pid)
    /\ RapidLimit \in Nat /\ Ceiling \in Nat /\ RapidLimit < Ceiling
    /\ MaxReloads \in Nat /\ MaxFaults \in Nat

VARIABLES
    children,  \* children_, by pid
    name,      \* the name a process was forked under
    conf,      \* the configuration it was forked with
    retiring,  \* children with ChildInfo::shutting_down
    proc,      \* what the process is doing
    rapid,     \* RespawnState::rapid_count, by name
    storm,     \* RespawnState::storm
    delayed,   \* the last respawn of the name was put off by 2 s or more
    respawns,  \* respawns[n]: one-shot timers of master_loop_ that fork n
    shutting,  \* shutting_down_
    killTimer, \* kill_timer_id is armed
    signals,   \* signals pending on the signalfd, each at most once
    current,   \* the configuration in force
    at,        \* where the master stands
    todo,      \* names still to be forked, at "boot" and in rolling_restart()
    then,      \* what follows reap_children()
    winched,   \* workers were told to stop (SIGWINCH), and no reload came since
    faults

spawn == <<children, name, conf, retiring, proc>>
backing == <<rapid, storm, delayed, respawns>>

vars == <<spawn, backing, shutting, killTimer, signals, current, at, todo, then, winched, faults>>

Signals == {"CHLD", "TERM", "QUIT", "HUP", "WINCH"}
Doing   == {"none", "running", "stopping", "killed", "zombie"}

Init ==
    /\ children = {} /\ retiring = {}
    /\ name = [p \in Pid |-> Free]
    /\ conf = [p \in Pid |-> 0]
    /\ proc = [p \in Pid |-> "none"]
    /\ rapid = [n \in Name |-> 0]
    /\ storm = [n \in Name |-> FALSE]
    /\ delayed = [n \in Name |-> FALSE]
    /\ respawns = [n \in Name |-> 0]
    /\ shutting = FALSE /\ killTimer = FALSE
    /\ signals = {} /\ current = 0
    /\ at = "boot" /\ todo = Name /\ then = "loop"
    /\ winched = FALSE /\ faults = 0

-----------------------------------------------------------------------------
(* fork_child()                                                            *)

Unborn == {p \in Pid : proc[p] = "none"}

Forked(p, n) ==
    /\ children' = children \cup {p}
    /\ name' = [name EXCEPT ![p] = n]
    /\ conf' = [conf EXCEPT ![p] = current]
    /\ proc' = [proc EXCEPT ![p] = "running"]
    /\ UNCHANGED retiring

\* The master ends by an exception.
Throws ==
    /\ faults < MaxFaults /\ faults' = faults + 1
    /\ at' = "over"

\* start_process() forks the children, before any signal is looked at.
BootForks(n) ==
    /\ at = "boot" /\ n \in todo
    /\ todo' = todo \ {n}
    /\ \/ \E p \in Unborn : Forked(p, n) /\ UNCHANGED <<at, faults>>
       \/ Throws /\ UNCHANGED spawn
    /\ UNCHANGED <<backing, shutting, killTimer, signals, current, then, winched>>

\* master_run(): the signals go to the signalfd, and those of the children that
\* died before are looked for.
MasterRun ==
    /\ at = "boot" /\ todo = {}
    /\ at' = "reap" /\ then' = "loop"
    /\ UNCHANGED <<spawn, backing, shutting, killTimer, signals, current, todo, winched, faults>>

-----------------------------------------------------------------------------
(* reap_children()                                                         *)

Zombies == {p \in children : proc[p] = "zombie"}

\* Mutant: the count goes on past the ceiling.
CountedOn(n, gap) == IF gap = "quick" THEN rapid[n] + 1 ELSE rapid[n]

\* The quick deaths of n in a row, with one more `gap` after the last; beyond the
\* ceiling their number tells nothing.
Counted(n, gap) ==
    CASE gap = "stable" -> 0
      [] gap = "quick" /\ rapid[n] < Ceiling -> rapid[n] + 1
      [] OTHER -> rapid[n]

\* Mutant: a storm does not hold the delay at its ceiling.
HeldNot(n, gap) == FALSE

\* The storm of n goes on after a death `gap` after the one before it.
Held(n, gap) == storm[n] /\ gap # "stable"

\* What a death does to the respawn state of n, `gap` after the one before it:
\* under 2 s, over a minute, or between.  Delayed by 2 s or more, n cannot have
\* died within 2 s of its death before.
Backoff(n, gap) ==
    LET slow == gap = "quick" /\ Counted(n, gap) > RapidLimit
    IN  /\ gap = "quick" => ~delayed[n]
        /\ rapid' = [rapid EXCEPT ![n] = Counted(n, gap)]
        /\ storm' = [storm EXCEPT ![n] = (@ /\ gap # "stable") \/ (slow /\ Counted(n, gap) = Ceiling)]
        /\ delayed' = [delayed EXCEPT ![n] = slow \/ Held(n, gap)]

\* Mutant: a child that dies is not replaced.
NeverReplaced(p) == FALSE

Replaced(p) == p \notin retiring /\ ~shutting

\* waitpid() returns p: it is out of children_, and nothing takes its place.
Gone(p) ==
    /\ children' = children \ {p}
    /\ name' = [name EXCEPT ![p] = Free]
    /\ conf' = [conf EXCEPT ![p] = 0]
    /\ proc' = [proc EXCEPT ![p] = "none"]

\* ... and a child b forked under the same name does.
GoneFor(p, b) ==
    /\ children' = (children \ {p}) \cup {b}
    /\ name' = [name EXCEPT ![p] = Free, ![b] = name[p]]
    /\ conf' = [conf EXCEPT ![p] = 0, ![b] = current]
    /\ proc' = [proc EXCEPT ![p] = "none", ![b] = "running"]

\* reap_children() takes one child, and respawns it at once or by a timer.
ReapOne(p) ==
    /\ at = "reap" /\ p \in Zombies
    /\ retiring' = retiring \ {p}
    /\ \/ ~Replaced(p) /\ Gone(p) /\ UNCHANGED <<backing, at, faults>>
       \/ /\ Replaced(p)
          /\ \E gap \in {"quick", "later", "stable"} : Backoff(name[p], gap)
          /\ \/ /\ ~delayed'[name[p]]
                /\ \E b \in Unborn \cup {p} : GoneFor(p, b)
                /\ UNCHANGED <<respawns, at, faults>>
             \/ /\ delayed'[name[p]]
                /\ respawns' = [respawns EXCEPT ![name[p]] = @ + 1]
                /\ Gone(p) /\ UNCHANGED <<at, faults>>
             \/ Throws /\ Gone(p) /\ UNCHANGED respawns
    /\ UNCHANGED <<shutting, killTimer, signals, current, todo, then, winched>>

\* Children told to stop: one with no handler yet dies of it, the others finish
\* their work first.  Already stopping, they take no notice.
Told(S) == [p \in Pid |-> IF p \in S /\ proc[p] = "running" THEN "stopping" ELSE proc[p]]

\* Mutant: only the workers are told to go, the others are left out.
WorkersRetired == {p \in children : name[p] \in Worker}

\* Every child is marked for retirement, by a stop and by a reload.
Retired == children

\* No zombie left: the rest of the handler.
Reaped ==
    /\ at = "reap" /\ Zombies = {}
    /\ \/ /\ then = "loop" /\ at' = "loop"
          /\ UNCHANGED <<proc, retiring, killTimer, faults>>
       \* SIGCHLD, and the end of the kill timer
       \/ /\ then \in {"child", "killed"}
          /\ killTimer' = (killTimer /\ ~(shutting /\ children = {}))
          /\ at' = IF shutting /\ children = {} THEN "over" ELSE "loop"
          /\ UNCHANGED <<proc, retiring, faults>>
       \* the end of fast_shutdown() and of its handler
       \/ /\ then = "term"
          /\ retiring' = Retired /\ proc' = Told(Retired)
          /\ IF children = {}
             THEN at' = "over" /\ UNCHANGED <<killTimer, faults>>
             ELSE \/ at' = "loop" /\ killTimer' = TRUE /\ UNCHANGED faults
                  \/ Throws /\ UNCHANGED killTimer
       \* the end of graceful_shutdown() and of its handler
       \/ /\ then = "quit"
          /\ retiring' = Retired /\ proc' = Told(Retired)
          /\ at' = IF children = {} THEN "over" ELSE "loop"
          /\ UNCHANGED <<killTimer, faults>>
    /\ UNCHANGED <<children, name, conf, backing, shutting, signals, current, todo, then, winched>>

-----------------------------------------------------------------------------
(* The master's loop.                                                      *)

Takes(s) == at = "loop" /\ s \in signals /\ signals' = signals \ {s}

TakesChild ==
    /\ Takes("CHLD") /\ at' = "reap" /\ then' = "child"
    /\ UNCHANGED <<spawn, backing, shutting, killTimer, current, todo, winched, faults>>

\* SIGTERM: a second one is ignored while the kill timer runs.
TakesTerm ==
    /\ Takes("TERM")
    /\ IF killTimer THEN UNCHANGED <<shutting, at, then>>
                    ELSE shutting' = TRUE /\ at' = "reap" /\ then' = "term"
    /\ UNCHANGED <<spawn, backing, killTimer, current, todo, winched, faults>>

TakesQuit ==
    /\ Takes("QUIT")
    /\ shutting' = TRUE /\ at' = "reap" /\ then' = "quit"
    /\ UNCHANGED <<spawn, backing, killTimer, current, todo, winched, faults>>

\* SIGWINCH: the workers go, the rest stays.
TakesWinch ==
    /\ Takes("WINCH")
    /\ LET W == {p \in children : name[p] \in Worker}
       IN  retiring' = retiring \cup W /\ proc' = Told(W)
    /\ winched' = TRUE
    /\ UNCHANGED <<children, name, conf, backing, shutting, killTimer, current, at, todo, then, faults>>

ReloadTaken == ~shutting

\* SIGHUP: ignored during a stop, refused with a file that is no good; taken,
\* it retires every child there is.
TakesHup ==
    /\ Takes("HUP")
    /\ \/ UNCHANGED <<current, retiring, at, todo>>
       \/ /\ ReloadTaken /\ current < MaxReloads
          /\ current' = current + 1
          /\ retiring' = retiring \cup Retired
          /\ at' = "reload" /\ todo' = Name
    /\ UNCHANGED <<children, name, conf, proc, backing, shutting, killTimer, then, winched, faults>>

\* rolling_restart() forks the new children ...
ReloadForks(n) ==
    /\ at = "reload" /\ n \in todo
    /\ todo' = todo \ {n}
    /\ \/ \E p \in Unborn : Forked(p, n) /\ UNCHANGED <<at, faults>>
       \/ Throws /\ UNCHANGED spawn
    /\ UNCHANGED <<backing, shutting, killTimer, signals, current, then, winched>>

\* ... and tells the old ones to stop.
ReloadTells ==
    /\ at = "reload" /\ todo = {}
    /\ proc' = Told(retiring)
    /\ at' = "loop" /\ winched' = FALSE
    /\ UNCHANGED <<children, name, conf, retiring, backing, shutting, killTimer, signals>>
    /\ UNCHANGED <<current, todo, then, faults>>

RespawnStands == ~shutting

\* The timer of a delayed respawn.
RespawnTimer(n) ==
    /\ at = "loop" /\ respawns[n] > 0
    /\ respawns' = [respawns EXCEPT ![n] = @ - 1]
    /\ \/ ~RespawnStands /\ UNCHANGED <<spawn, at, faults>>
       \/ RespawnStands /\ (\E p \in Unborn : Forked(p, n)) /\ UNCHANGED <<at, faults>>
       \/ RespawnStands /\ Throws /\ UNCHANGED spawn
    /\ UNCHANGED <<rapid, storm, delayed, shutting, killTimer, signals, current, todo, then, winched>>

\* Mutant: the kill timer only takes the dead, and kills nobody.
Spared(S) == proc

Killed(S) == [p \in Pid |-> IF p \in S /\ proc[p] # "zombie" THEN "killed" ELSE proc[p]]

\* The kill timer: SIGKILL to what is left.
KillTimer ==
    /\ at = "loop" /\ killTimer
    /\ killTimer' = FALSE
    /\ IF children = {}
       THEN UNCHANGED <<proc, at, then>>
       ELSE proc' = Killed(children) /\ at' = "reap" /\ then' = "killed"
    /\ UNCHANGED <<children, name, conf, retiring, backing, shutting, signals, current>>
    /\ UNCHANGED <<todo, winched, faults>>

-----------------------------------------------------------------------------
(* The children, and whoever sends signals.                                *)

\* SIGCHLD is lost until master_run() asked for it.
Dead(p) ==
    /\ proc' = [proc EXCEPT ![p] = "zombie"]
    /\ signals' = IF at = "boot" THEN signals ELSE signals \cup {"CHLD"}
    /\ UNCHANGED <<children, name, conf, retiring, backing, shutting, killTimer, current>>
    /\ UNCHANGED <<at, todo, then, winched, faults>>

\* A start that fails, a crash, a leadership lost.
Dies(p) == proc[p] = "running" /\ Dead(p)

\* The work is finished, or the time for it is over.
Finishes(p) == proc[p] = "stopping" /\ Dead(p)

\* SIGKILL takes its time, but is not to be waited out.
Falls(p) == proc[p] = "killed" /\ Dead(p)

\* Before master_run() asked for them, these end the master.
Sent(s) ==
    /\ at # "over" /\ s \notin signals
    /\ IF at = "boot"
       THEN at' = "over" /\ UNCHANGED signals
       ELSE signals' = signals \cup {s} /\ UNCHANGED at
    /\ UNCHANGED <<spawn, backing, shutting, killTimer, current, todo, then, winched, faults>>

-----------------------------------------------------------------------------
Steps ==
    \/ \E n \in Name : BootForks(n) \/ ReloadForks(n)
    \/ MasterRun \/ Reaped \/ ReloadTells
    \/ \E p \in Pid : ReapOne(p)

Next ==
    \/ Steps
    \/ TakesChild \/ TakesTerm \/ TakesQuit \/ TakesWinch \/ TakesHup \/ KillTimer
    \/ \E n \in Name : RespawnTimer(n)
    \/ \E p \in Pid : Dies(p) \/ Finishes(p) \/ Falls(p)
    \/ \E s \in {"TERM", "QUIT", "HUP"} : Sent(s)
    \/ at # "boot" /\ Sent("WINCH")

Spec == Init /\ [][Next]_vars

\* The master's thread goes on with what it began.  A round of its loop reads
\* every pending signal and calls every timer that expired, so that none of them
\* waits behind others for ever (strong, as the master is busy now and then).  A
\* killed process dies; that one told to stop ever does is left open.
Fairness ==
    /\ WF_vars(Steps)
    /\ SF_vars(TakesChild) /\ SF_vars(TakesTerm) /\ SF_vars(TakesQuit) /\ SF_vars(KillTimer)
    /\ \A n \in Name : SF_vars(RespawnTimer(n))
    /\ \A p \in Pid : WF_vars(Falls(p))

FairSpec == Spec /\ Fairness

-----------------------------------------------------------------------------
(* Properties.                                                             *)

TypeOK ==
    /\ children \subseteq Pid /\ retiring \subseteq children
    /\ name \in [Pid -> Name \cup {Free}]
    /\ conf \in [Pid -> 0..MaxReloads]
    /\ proc \in [Pid -> Doing]
    /\ rapid \in [Name -> 0..Ceiling]
    /\ storm \in [Name -> BOOLEAN] /\ delayed \in [Name -> BOOLEAN]
    /\ respawns \in [Name -> Nat]
    /\ shutting \in BOOLEAN /\ killTimer \in BOOLEAN /\ winched \in BOOLEAN
    /\ signals \subseteq Signals
    /\ current \in 0..MaxReloads /\ faults \in 0..MaxFaults
    /\ at \in {"boot", "loop", "reap", "reload", "over"}
    /\ todo \subseteq Name
    /\ then \in {"loop", "child", "killed", "term", "quit"}

\* Whenever the master waits for events, each child that has to go -- all of
\* them in a stop, those of an older configuration, those marked as shutting
\* down -- is marked and has been told, the children forked meanwhile included:
\* children_ against shutting_down_ in fast_shutdown(), graceful_shutdown(),
\* rolling_restart() and reap_children().
ToldToStop ==
    at = "loop" => \A p \in children :
        shutting \/ conf[p] # current \/ p \in retiring => p \in retiring /\ proc[p] # "running"

\* No name is forgotten: while the master waits for events and is not stopping,
\* every child of the configuration is there and is to stay, or died and is
\* to be respawned by a timer, unless SIGWINCH sent the workers away.
NoNameForgotten ==
    at = "loop" /\ ~shutting => \A n \in Name :
        \/ respawns[n] > 0
        \/ \E p \in children \ retiring : name[p] = n
        \/ winched /\ n \in Worker

\* "Latched, the ceiling is real": after a storm began, no respawn of the name
\* is at once until the name stood for a minute.
StormHolds == \A n \in Name : storm[n] => delayed[n]

\* SIGTERM ends the master whatever its children do: the kill timer runs until
\* they are gone, and what is left is killed and waited for.
TermEnds == killTimer ~> at = "over"

\* SIGQUIT ends it too, provided no child hangs while it finishes its work.
QuitEnds == shutting ~> (at = "over" \/ \E p \in Pid : proc[p] = "stopping")

\* A name is never without a running child for good, however the deaths, the
\* delays and the reloads fall, unless the master stops or SIGWINCH sent the
\* workers away.
KeptUp ==
    \A n \in Name : []<>
        \/ shutting \/ at = "over" \/ (winched /\ n \in Worker)
        \/ \E p \in children \ retiring : name[p] = n /\ proc[p] = "running"
=============================================================================

------------------------------ MODULE PgLeader ------------------------------
(***************************************************************************)
(* PgLeaderLock (src/pg/pg_leader.cpp): the processes that compete for one *)
(* role, each with a session of its own at a PostgreSQL server, and the    *)
(* advisory lock whose holder leads.  With it, the life of a process in    *)
(* leader mode (run_as_leader() and custom_process_run() in                *)
(* src/core/application.cpp): it starts as a standby, works while it leads,*)
(* and after a loss or a stop ends and starts anew.                        *)
(*                                                                         *)
(* Time is discrete.  Ages count the units since something happened and    *)
(* stop growing where they no longer matter.  A process that does not      *)
(* stand still does what is due before time passes; one that stands still  *)
(* (SIGSTOP, a paused machine) does nothing, and finds its timers and its  *)
(* sockets due at once, in any order, when it goes on.  A packet takes no  *)
(* time unless the link is cut; a query, and its answer, may.              *)
(***************************************************************************)
EXTENDS Naturals

CONSTANTS
    Proc,      \* the processes configured for the role
    Nobody,    \* no session holds the lock
    Ghost,     \* a session without a process, its socket never closed
    Interval,  \* leader_interval
    MinAnswer, \* k_min_answer_timeout
    Together,  \* whether one life of a process may meet a cut and a stall
    Prompt,    \* whether an answer takes no time unless the link is cut
    MaxFaults  \* bound: cuts, stalls, sessions killed, crashes and stops

ASSUME ConstantsAssumption ==
    /\ Nobody \notin Proc /\ Ghost \notin Proc /\ Nobody # Ghost
    /\ Interval \in Nat \ {0} /\ MinAnswer \in Nat \ {0}
    /\ Together \in BOOLEAN /\ Prompt \in BOOLEAN /\ MaxFaults \in Nat

VARIABLES
    role,      \* "standby"; held_: "leader"; inert_: "lost"
    stopping,  \* told to stop, finishing its work
    conn,      \* conn_: "none", or its state
    asked,     \* asked_, while busy
    since,     \* age of since_, while connecting or busy
    confirmed, \* age of confirmed_, while leading
    tick,      \* age of the timer's last tick
    stalled,   \* the process stands still
    wire,      \* its question: "held" up by a cut, "there" at the server; its
               \* answer: on the way "back", or "here"
    reply,     \* what the server answers, from then on
    session,   \* at the server: "open"; "ended" by it; "eof": the client's kernel knows
    idle,      \* age of the server's last answer in the session
    cut,       \* nothing passes between the process and the server
    met,       \* what the process met in this life, of "cut" and "stall"
    holder,    \* the session that holds the advisory lock
    faults

lock == <<role, conn, asked, since, confirmed>>
server == <<wire, reply, session, idle, holder>>
world == <<stalled, cut, met>>
vars == <<lock, stopping, tick, server, world, faults>>

-----------------------------------------------------------------------------
(* The bounds on time.                                                     *)

AnswerTimeout == IF 3 * Interval > MinAnswer THEN 3 * Interval ELSE MinAnswer

\* Mutant: the server waits no longer than the process does.
ServerTimeoutShort == AnswerTimeout

ServerTimeout == 4 * AnswerTimeout

\* Mutant: the age alone, without a look at the socket.
FreshByAge(p) == role[p] = "leader" /\ confirmed[p] <= AnswerTimeout

Fresh(p) == role[p] = "leader" /\ session[p] # "eof" /\ confirmed[p] <= AnswerTimeout

Overdue(p) == since[p] > AnswerTimeout

Init ==
    /\ role = [p \in Proc |-> "standby"]
    /\ stopping = [p \in Proc |-> FALSE]
    /\ conn = [p \in Proc |-> "connecting"]
    /\ asked = [p \in Proc |-> "none"]
    /\ since = [p \in Proc |-> 0] /\ confirmed = [p \in Proc |-> 0]
    /\ tick = [p \in Proc |-> 0]
    /\ stalled = [p \in Proc |-> FALSE]
    /\ wire = [p \in Proc |-> "none"] /\ reply = [p \in Proc |-> "no"]
    /\ session = [p \in Proc |-> "none"]
    /\ idle = [p \in Proc |-> 0]
    /\ cut = [p \in Proc |-> FALSE] /\ met = [p \in Proc |-> {}]
    /\ holder = Nobody /\ faults = 0

-----------------------------------------------------------------------------
(* What the handlers are made of.                                          *)

\* The lock after the session of p is gone.
Released(p) == IF holder = p THEN Nobody ELSE holder

\* Mutant: the connection is forgotten, not closed.
CloseForgets(p, next) ==
    /\ conn' = [conn EXCEPT ![p] = next]
    /\ asked' = [asked EXCEPT ![p] = "none"]
    /\ since' = [since EXCEPT ![p] = 0] /\ confirmed' = [confirmed EXCEPT ![p] = 0]
    /\ UNCHANGED server

\* close(): the server hears of it, or the session stays behind.
Close(p, next) ==
    /\ conn' = [conn EXCEPT ![p] = next]
    /\ asked' = [asked EXCEPT ![p] = "none"]
    /\ since' = [since EXCEPT ![p] = 0] /\ confirmed' = [confirmed EXCEPT ![p] = 0]
    /\ wire' = [wire EXCEPT ![p] = "none"] /\ reply' = [reply EXCEPT ![p] = "no"]
    /\ session' = [session EXCEPT ![p] = "none"]
    /\ idle' = [idle EXCEPT ![p] = 0]
    /\ holder' = IF cut[p] /\ holder = p THEN Ghost ELSE Released(p)

\* Mutant: a loss closes the connection.
LoseCloses(p) == role' = [role EXCEPT ![p] = "lost"] /\ Close(p, "none")

\* lose(): out of the loop but not closed, the session may hold the lock still.
Lose(p) ==
    /\ role' = [role EXCEPT ![p] = "lost"]
    /\ since' = [since EXCEPT ![p] = 0] /\ confirmed' = [confirmed EXCEPT ![p] = 0]
    /\ UNCHANGED <<conn, asked, server>>

\* drop() of a leader, and of a standby.
Drop(p) ==
    \/ role[p] = "leader" /\ Lose(p)
    \/ role[p] = "standby" /\ Close(p, "none") /\ UNCHANGED role

\* send(): a probe of a leader, the try of a standby.
Send(p) ==
    /\ conn' = [conn EXCEPT ![p] = "busy"]
    /\ asked' = [asked EXCEPT ![p] = IF role[p] = "leader" THEN "probe" ELSE "try"]
    /\ since' = [since EXCEPT ![p] = 0]
    /\ wire' = [wire EXCEPT ![p] = IF cut[p] THEN "held" ELSE "there"]
    /\ UNCHANGED <<role, confirmed, reply>>

\* handle(): the answer to the question is here.
Handle(p) ==
    /\ conn' = [conn EXCEPT ![p] = "ready"] /\ asked' = [asked EXCEPT ![p] = "none"]
    /\ since' = [since EXCEPT ![p] = 0] /\ confirmed' = [confirmed EXCEPT ![p] = 0]
    /\ wire' = [wire EXCEPT ![p] = "none"] /\ reply' = [reply EXCEPT ![p] = "no"]
    /\ role' = [role EXCEPT ![p] =
           CASE reply[p] = "yes" -> "leader"
             [] reply[p] = "no" /\ asked[p] = "probe" -> "lost"
             [] OTHER -> "standby"]
    /\ UNCHANGED <<session, idle, holder>>

-----------------------------------------------------------------------------
(* The process.                                                            *)

Runs(p) == ~stalled[p] /\ role[p] # "lost"

\* Mutant: a standby that lost its connection asks no more.
ConnectNot(p) == UNCHANGED conn

\* connect() begins; a refusal shows in the handshake.
Connect(p) == conn' = [conn EXCEPT ![p] = "connecting"]

\* Its timer, every interval.
Tick(p) ==
    /\ Runs(p) /\ tick[p] = Interval
    /\ tick' = [tick EXCEPT ![p] = 0]
    /\ \/ /\ conn[p] = "none"
          /\ Connect(p)
          /\ UNCHANGED <<role, asked, since, confirmed, server>>
       \/ /\ conn[p] \in {"connecting", "busy"} /\ ~Overdue(p)
          /\ UNCHANGED <<lock, server>>
       \* A loop held up elsewhere: the answer is read before it is judged late.
       \/ conn[p] = "busy" /\ Overdue(p) /\ wire[p] = "here" /\ Handle(p)
       \/ conn[p] \in {"connecting", "busy"} /\ Overdue(p) /\ wire[p] # "here" /\ Drop(p)
       \/ conn[p] = "ready" /\ Send(p) /\ UNCHANGED <<session, idle, holder>>
    /\ UNCHANGED <<stopping, world, faults>>

\* The handshake is done; the first question goes with it.
Connected(p) ==
    /\ Runs(p) /\ conn[p] = "connecting" /\ ~cut[p]
    /\ Send(p)
    /\ session' = [session EXCEPT ![p] = "open"]
    /\ idle' = [idle EXCEPT ![p] = 0]
    /\ UNCHANGED <<holder, stopping, tick, world, faults>>

\* on_io(), the answer to be read.
Answered(p) ==
    /\ Runs(p) /\ wire[p] = "here"
    /\ Handle(p)
    /\ UNCHANGED <<stopping, tick, world, faults>>

\* on_io() or fresh() find that the server has closed its side.
SeesEof(p) ==
    /\ Runs(p) /\ session[p] = "eof"
    /\ Drop(p)
    /\ UNCHANGED <<stopping, tick, world, faults>>

\* The kernel gives up on a socket that nobody acknowledges.
SocketFails(p) ==
    /\ Runs(p) /\ conn[p] # "none" /\ cut[p]
    /\ Drop(p)
    /\ UNCHANGED <<stopping, tick, world, faults>>

\* Told to stop: a leader finishes its work, with the lock kept.
Stop(p) ==
    /\ ~stalled[p] /\ role[p] = "leader" /\ ~stopping[p]
    /\ faults < MaxFaults /\ faults' = faults + 1
    /\ stopping' = [stopping EXCEPT ![p] = TRUE]
    /\ UNCHANGED <<lock, tick, server, world>>

\* The process is gone, and a new one of the same configuration starts.
Anew(p) ==
    /\ Close(p, "connecting")
    /\ role' = [role EXCEPT ![p] = "standby"]
    /\ stopping' = [stopping EXCEPT ![p] = FALSE]
    /\ tick' = [tick EXCEPT ![p] = 0]
    /\ met' = [met EXCEPT ![p] = IF cut[p] THEN {"cut"} ELSE {}]
    /\ UNCHANGED <<stalled, cut>>

\* The work is finished after a loss or a stop.
Exits(p) ==
    /\ ~stalled[p] /\ (role[p] = "lost" \/ stopping[p])
    /\ Anew(p) /\ UNCHANGED faults

Crashes(p) ==
    /\ ~stalled[p]
    /\ faults < MaxFaults /\ faults' = faults + 1
    /\ Anew(p)

-----------------------------------------------------------------------------
(* The server.                                                             *)

\* A question is answered: the lock is taken if it is free, or looked for.
Serves(p) ==
    /\ wire[p] = "there" /\ session[p] = "open" /\ ~cut[p]
    /\ wire' = [wire EXCEPT ![p] = "back"]
    /\ holder' = IF asked[p] = "try" /\ holder = Nobody THEN p ELSE holder
    /\ reply' = [reply EXCEPT ![p] = IF holder' = p THEN "yes" ELSE "no"]
    /\ idle' = [idle EXCEPT ![p] = 0]
    /\ UNCHANGED <<lock, stopping, tick, session, world, faults>>

Arrives(p) ==
    /\ wire[p] = "back" /\ ~cut[p]
    /\ wire' = [wire EXCEPT ![p] = "here"]
    /\ UNCHANGED <<lock, stopping, tick, reply, session, idle, holder, world, faults>>

\* A session ends at the server; what was sent before arrives before.
EndSession(p) ==
    /\ holder' = Released(p)
    /\ idle' = [idle EXCEPT ![p] = 0]
    /\ session' = [session EXCEPT ![p] = IF cut[p] THEN "ended" ELSE "eof"]
    /\ wire' = [wire EXCEPT ![p] = IF @ = "back" /\ ~cut[p] THEN "here" ELSE @]
    /\ UNCHANGED <<lock, stopping, tick, reply, world>>

\* idle_session_timeout.
IdleTimeout(p) ==
    /\ session[p] = "open" /\ idle[p] = ServerTimeout /\ wire[p] # "there"
    /\ EndSession(p) /\ UNCHANGED faults

\* pg_terminate_backend(), a restart of the server.
Kill(p) ==
    /\ session[p] = "open" /\ ~cut[p]
    /\ faults < MaxFaults /\ faults' = faults + 1
    /\ EndSession(p)

\* TCP or the idle timeout end a session nobody is behind.
GhostEnds ==
    /\ holder = Ghost /\ holder' = Nobody
    /\ UNCHANGED <<lock, stopping, tick, wire, reply, session, idle, world, faults>>

-----------------------------------------------------------------------------
(* The network, the machine, and time.                                     *)

Cut(p) ==
    /\ ~cut[p] /\ ("stall" \in met[p] => Together)
    /\ met' = [met EXCEPT ![p] = @ \cup {"cut"}]
    /\ faults < MaxFaults /\ faults' = faults + 1
    /\ cut' = [cut EXCEPT ![p] = TRUE]
    /\ UNCHANGED <<lock, stopping, tick, stalled, server>>

Heals(p) ==
    /\ cut[p]
    /\ cut' = [cut EXCEPT ![p] = FALSE]
    /\ session' = [session EXCEPT ![p] = IF @ = "ended" THEN "eof" ELSE @]
    /\ wire' = [wire EXCEPT ![p] = CASE @ = "back" -> "here"
                                      [] @ = "held" -> "there"
                                      [] OTHER      -> @]
    /\ UNCHANGED <<lock, stopping, tick, stalled, met, reply, idle, holder, faults>>

Stall(p) ==
    /\ ~stalled[p] /\ ("cut" \in met[p] => Together)
    /\ met' = [met EXCEPT ![p] = @ \cup {"stall"}]
    /\ faults < MaxFaults /\ faults' = faults + 1
    /\ stalled' = [stalled EXCEPT ![p] = TRUE]
    /\ UNCHANGED <<lock, stopping, tick, server, cut>>

GoesOn(p) ==
    /\ stalled[p]
    /\ stalled' = [stalled EXCEPT ![p] = FALSE]
    /\ UNCHANGED <<lock, stopping, tick, server, cut, met, faults>>

Older(age, limit) == IF age < limit THEN age + 1 ELSE age

\* Something is to be done before time passes.
Due(p) ==
    \/ Runs(p) /\ (tick[p] = Interval \/ wire[p] = "here" \/ session[p] = "eof")
    \/ session[p] = "open" /\ idle[p] = ServerTimeout /\ wire[p] # "there"
    \/ /\ Prompt /\ ~cut[p]
       /\ \/ Runs(p) /\ conn[p] = "connecting"
          \/ session[p] = "open" /\ wire[p] \in {"there", "back"}

Advance ==
    /\ \A p \in Proc : ~Due(p)
    /\ since' = [p \in Proc |->
           IF conn[p] \in {"connecting", "busy"} /\ role[p] # "lost"
           THEN Older(since[p], AnswerTimeout + 1) ELSE 0]
    /\ confirmed' = [p \in Proc |->
           IF role[p] = "leader" THEN Older(confirmed[p], AnswerTimeout + 1) ELSE 0]
    /\ tick' = [p \in Proc |-> IF role[p] = "lost" THEN 0 ELSE Older(tick[p], Interval)]
    /\ idle' = [p \in Proc |-> IF session[p] = "open" THEN Older(idle[p], ServerTimeout) ELSE 0]
    /\ UNCHANGED <<role, conn, asked, stopping, wire, reply, session, holder, world, faults>>

Next ==
    \/ \E p \in Proc :
        \/ Tick(p) \/ Connected(p) \/ Answered(p) \/ SeesEof(p) \/ SocketFails(p)
        \/ Stop(p) \/ Exits(p) \/ Crashes(p)
        \/ Serves(p) \/ Arrives(p) \/ IdleTimeout(p) \/ Kill(p)
        \/ Cut(p) \/ Heals(p) \/ Stall(p) \/ GoesOn(p)
    \/ GhostEnds \/ Advance

Spec == Init /\ [][Next]_vars

\* Time passes, the processes and the server do what is due, cuts heal, what
\* stands still goes on, and work that is finished ends the process.
Fairness ==
    /\ WF_vars(Advance) /\ WF_vars(GhostEnds)
    /\ \A p \in Proc :
        /\ WF_vars(Tick(p) \/ Connected(p) \/ Answered(p) \/ SeesEof(p) \/ Exits(p))
        /\ WF_vars(Serves(p) \/ Arrives(p) \/ IdleTimeout(p))
        /\ WF_vars(Heals(p)) /\ WF_vars(GoesOn(p))

FairSpec == Spec /\ Fairness

-----------------------------------------------------------------------------
(* Properties.                                                             *)

TypeOK ==
    /\ role \in [Proc -> {"standby", "leader", "lost"}]
    /\ stopping \in [Proc -> BOOLEAN] /\ stalled \in [Proc -> BOOLEAN] /\ cut \in [Proc -> BOOLEAN]
    /\ conn \in [Proc -> {"none", "connecting", "busy", "ready"}]
    /\ asked \in [Proc -> {"none", "try", "probe"}]
    /\ since \in [Proc -> 0..(AnswerTimeout + 1)]
    /\ confirmed \in [Proc -> 0..(AnswerTimeout + 1)]
    /\ tick \in [Proc -> 0..Interval]
    /\ wire \in [Proc -> {"none", "held", "there", "back", "here"}]
    /\ reply \in [Proc -> {"yes", "no"}]
    /\ session \in [Proc -> {"none", "open", "ended", "eof"}]
    /\ idle \in [Proc -> 0..ServerTimeout]
    /\ \A p \in Proc : conn[p] \in {"none", "connecting"} => session[p] = "none" /\ wire[p] = "none"
    /\ holder \in Proc \cup {Nobody, Ghost}
    /\ met \in [Proc -> SUBSET {"cut", "stall"}]
    /\ faults \in 0..MaxFaults

\* fresh() means what it says: the session of a process that may begin work by
\* its timer holds the lock at the server, at that moment.
FreshHolds == \A p \in Proc : Fresh(p) => holder = p

\* "The old leader steps down on its own clock BEFORE the server frees the lock"
\* (pg_leader.hpp): when its idle timeout ends the session of a process that does
\* not learn of it, the process has stepped down.
StepsDownFirst == [][\A p \in Proc : session[p] = "open" /\ session'[p] = "ended" => role[p] # "leader"]_vars

\* A role changes hands over a process that still works only when the server
\* ended its session: neither a loss nor a stop of its own gives up the lock of a
\* process before its work is finished.
WorkKeepsLock ==
    \A p \in Proc : role[p] \in {"leader", "lost"} /\ session[p] \notin {"ended", "eof"} => holder = p

\* The role does not stay without a process that leads and may work, whatever
\* was cut, killed, stopped or stood still.
RoleTaken == []<>(\E p \in Proc : Fresh(p))
=============================================================================

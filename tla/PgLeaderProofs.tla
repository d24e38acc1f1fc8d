--------------------------- MODULE PgLeaderProofs ---------------------------
(***************************************************************************)
(* Proofs about PgLeader, for any number of processes and faults and any   *)
(* interval and least answer timeout.                                      *)
(***************************************************************************)
EXTENDS PgLeader, TLAPS

-----------------------------------------------------------------------------
(* The inductive invariant.                                                *)

\* What the module of a connection, a role and a question may be together.
Linked(p) ==
    /\ conn[p] \in {"busy", "ready"} => session[p] # "none"
    /\ role[p] \in {"leader", "lost"} => conn[p] \in {"busy", "ready"}
    /\ conn[p] = "ready" => asked[p] = "none" /\ wire[p] = "none"
    /\ conn[p] = "busy" => asked[p] # "none" /\ wire[p] # "none"
    /\ conn[p] \in {"none", "connecting"} => asked[p] = "none" /\ session[p] = "none" /\ wire[p] = "none"
    /\ asked[p] = "try" => role[p] = "standby"
    /\ asked[p] = "probe" => role[p] # "standby"
    /\ reply[p] = "yes" => wire[p] \in {"back", "here"}

\* What a process met, and what it is in.
Met(p) ==
    /\ stalled[p] => "stall" \in met[p]
    /\ cut[p] => "cut" \in met[p]
    /\ "stall" \in met[p] /\ "cut" \in met[p] => Together

\* Who leads, or has a yes on its way to it, holds the lock while its session is open.
Holds(p) ==
    /\ session[p] = "open" /\ (role[p] # "standby" \/ reply[p] = "yes") => holder = p
    /\ asked[p] = "probe" /\ wire[p] \in {"back", "here"} => reply[p] = "yes"

\* The age of the server's last answer, in a life without a stall, against the
\* clocks of the process: an answer is no older than its question, a question is
\* sent at the first tick after an answer, and given up at the first tick after
\* the answer timeout.
Ages(p) ==
    session[p] = "open" /\ role[p] # "lost" /\ "stall" \notin met[p] =>
        /\ conn[p] = "ready" => idle[p] <= AnswerTimeout + 1 + Interval + tick[p]
        /\ wire[p] \in {"back", "here"} =>
               /\ since[p] <= AnswerTimeout => idle[p] <= since[p]
               /\ idle[p] <= AnswerTimeout + 1 + tick[p]
        /\ wire[p] = "held" =>
               /\ since[p] <= AnswerTimeout => idle[p] <= AnswerTimeout + 1 + 2 * Interval + since[p]
               /\ idle[p] <= 2 * AnswerTimeout + 2 + 2 * Interval + tick[p]

\* A session that ended unheard is that of a process that stepped down before.
EndsUnheard(p) == session[p] = "ended" => cut[p] /\ (Together \/ role[p] = "lost")

Good(p) == Linked(p) /\ Met(p) /\ Holds(p) /\ Ages(p) /\ EndsUnheard(p)

Inv == TypeOK /\ \A p \in Proc : Good(p)

-----------------------------------------------------------------------------
(* The bounds on time.                                                     *)

LEMMA Timeouts ==
  /\ AnswerTimeout \in Nat /\ ServerTimeout \in Nat /\ Interval \in Nat
  /\ Interval >= 1 /\ AnswerTimeout >= 3 * Interval /\ ServerTimeout = 4 * AnswerTimeout
  BY ConstantsAssumption DEF AnswerTimeout, ServerTimeout

-----------------------------------------------------------------------------
(* Types.                                                                  *)

LEMMA InitType == Init => TypeOK
  BY Timeouts, ConstantsAssumption DEF Init, TypeOK

\* What a handler of the lock does to its members, the question and the session.
LockType ==
    /\ role' \in [Proc -> {"standby", "leader", "lost"}]
    /\ conn' \in [Proc -> {"none", "connecting", "busy", "ready"}]
    /\ asked' \in [Proc -> {"none", "try", "probe"}]
    /\ since' \in [Proc -> 0..(AnswerTimeout + 1)]
    /\ confirmed' \in [Proc -> 0..(AnswerTimeout + 1)]
    /\ wire' \in [Proc -> {"none", "held", "there", "back", "here"}]
    /\ reply' \in [Proc -> {"yes", "no"}]
    /\ session' \in [Proc -> {"none", "open", "ended", "eof"}]
    /\ idle' \in [Proc -> 0..ServerTimeout]
    /\ \A p \in Proc : conn'[p] \in {"none", "connecting"} => session'[p] = "none" /\ wire'[p] = "none"
    /\ holder' \in Proc \cup {Nobody, Ghost}

LEMMA CloseType ==
  ASSUME TypeOK, NEW p \in Proc, NEW next \in {"none", "connecting"}, Close(p, next),
         role' \in [Proc -> {"standby", "leader", "lost"}]
  PROVE  LockType
  <1>1. since' \in [Proc -> 0..(AnswerTimeout + 1)] /\ confirmed' \in [Proc -> 0..(AnswerTimeout + 1)]
        /\ idle' \in [Proc -> 0..ServerTimeout]
    BY Timeouts DEF Close, TypeOK
  <1>2. holder' \in Proc \cup {Nobody, Ghost} BY DEF Close, Released, TypeOK
  <1> QED BY <1>1, <1>2 DEF Close, TypeOK, LockType

LEMMA DropType ==
  ASSUME TypeOK, NEW p \in Proc, Drop(p) PROVE LockType
  <1>1. CASE Lose(p)
    <2>1. since' \in [Proc -> 0..(AnswerTimeout + 1)] /\ confirmed' \in [Proc -> 0..(AnswerTimeout + 1)]
      BY <1>1, Timeouts DEF Lose, TypeOK
    <2> QED BY <1>1, <2>1 DEF Lose, TypeOK, LockType, server
  <1>2. CASE Close(p, "none") /\ UNCHANGED role
    BY <1>2, CloseType DEF TypeOK
  <1> QED BY <1>1, <1>2 DEF Drop

LEMMA SendType ==
  ASSUME TypeOK, NEW p \in Proc, Send(p),
         session' \in [Proc -> {"none", "open", "ended", "eof"}], idle' \in [Proc -> 0..ServerTimeout],
         \A q \in Proc \ {p} : session'[q] = session[q], UNCHANGED holder
  PROVE  LockType
  <1>1. since' \in [Proc -> 0..(AnswerTimeout + 1)]
    BY Timeouts DEF Send, TypeOK
  <1> QED BY <1>1 DEF Send, TypeOK, LockType

\* The role an answer leads to.
LEMMA HandleRole ==
  ASSUME TypeOK, NEW p \in Proc, Handle(p)
  PROVE  /\ role' \in [Proc -> {"standby", "leader", "lost"}]
         /\ \A q \in Proc \ {p} : role'[q] = role[q]
         /\ role'[p] = IF reply[p] = "yes" THEN "leader"
                        ELSE IF asked[p] = "probe" THEN "lost" ELSE "standby"
  <1> DEFINE r == CASE reply[p] = "yes" -> "leader"
                    [] reply[p] = "no" /\ asked[p] = "probe" -> "lost"
                    [] OTHER -> "standby"
  <1>1. reply[p] \in {"yes", "no"} BY DEF TypeOK
  <1>2. r = IF reply[p] = "yes" THEN "leader" ELSE IF asked[p] = "probe" THEN "lost" ELSE "standby"
    BY <1>1, Zenon
  <1>3. role' = [role EXCEPT ![p] = r] BY DEF Handle
  <1> HIDE DEF r
  <1> QED BY <1>2, <1>3 DEF TypeOK

LEMMA HandleEffect ==
  ASSUME NEW p \in Proc, Handle(p)
  PROVE  /\ conn' = [conn EXCEPT ![p] = "ready"] /\ asked' = [asked EXCEPT ![p] = "none"]
         /\ since' = [since EXCEPT ![p] = 0] /\ confirmed' = [confirmed EXCEPT ![p] = 0]
         /\ wire' = [wire EXCEPT ![p] = "none"] /\ reply' = [reply EXCEPT ![p] = "no"]
         /\ UNCHANGED <<session, idle, holder>>
  BY Zenon DEF Handle

LEMMA HandleType ==
  ASSUME TypeOK, NEW p \in Proc, Handle(p) PROVE LockType
  <1>1. since' \in [Proc -> 0..(AnswerTimeout + 1)] /\ confirmed' \in [Proc -> 0..(AnswerTimeout + 1)]
    BY Timeouts, HandleEffect DEF TypeOK
  <1>2. role' \in [Proc -> {"standby", "leader", "lost"}] BY HandleRole
  <1> QED BY SMTT(60), <1>1, <1>2, HandleEffect DEF TypeOK, LockType

LEMMA TickType == ASSUME TypeOK, NEW p \in Proc, Tick(p) PROVE TypeOK'
  <1>1. LockType
    <2>1. CASE Connect(p) /\ UNCHANGED <<role, asked, since, confirmed, server>> /\ conn[p] = "none"
      BY <2>1 DEF Connect, server, TypeOK, LockType
    <2>2. CASE UNCHANGED <<lock, server>>
      BY <2>2 DEF lock, server, TypeOK, LockType
    <2>3. CASE Handle(p) BY <2>3, HandleType
    <2>4. CASE Drop(p) BY <2>4, DropType
    <2>5. CASE Send(p) /\ UNCHANGED <<session, idle, holder>> BY <2>5, SendType DEF TypeOK
    <2> QED BY <2>1, <2>2, <2>3, <2>4, <2>5 DEF Tick
  <1>2. tick' \in [Proc -> 0..Interval] BY Timeouts DEF Tick, TypeOK
  <1> QED BY <1>1, <1>2 DEF Tick, world, TypeOK, LockType

LEMMA AnewType ==
  ASSUME TypeOK, NEW p \in Proc, Anew(p), faults' \in 0..MaxFaults PROVE TypeOK'
  <1>1. LockType BY CloseType DEF Anew, TypeOK
  <1>2. tick' \in [Proc -> 0..Interval] BY Timeouts DEF Anew, TypeOK
  <1> QED BY <1>1, <1>2 DEF Anew, TypeOK, LockType

LEMMA EndSessionType ==
  ASSUME TypeOK, NEW p \in Proc, session[p] = "open", EndSession(p), faults' \in 0..MaxFaults
  PROVE  TypeOK'
  <1>1. holder' \in Proc \cup {Nobody, Ghost} BY DEF EndSession, Released, TypeOK
  <1>2. idle' \in [Proc -> 0..ServerTimeout] BY Timeouts DEF EndSession, TypeOK
  <1> QED BY <1>1, <1>2 DEF EndSession, TypeOK, lock, world

LEMMA AdvanceType == ASSUME TypeOK, Advance PROVE TypeOK'
  <1> USE Timeouts DEF Advance, TypeOK, Older
  <1>1. since' \in [Proc -> 0..(AnswerTimeout + 1)] OBVIOUS
  <1>2. confirmed' \in [Proc -> 0..(AnswerTimeout + 1)] OBVIOUS
  <1>3. tick' \in [Proc -> 0..Interval] OBVIOUS
  <1>4. idle' \in [Proc -> 0..ServerTimeout] OBVIOUS
  <1> QED BY <1>1, <1>2, <1>3, <1>4 DEF world

LEMMA TypeStep == ASSUME TypeOK, [Next]_vars PROVE TypeOK'
  <1> USE DEF lock, server, world
  <1>1. faults < MaxFaults /\ faults' = faults + 1 => faults' \in 0..MaxFaults
    BY ConstantsAssumption DEF TypeOK
  <1>2. ASSUME NEW p \in Proc, Tick(p) PROVE TypeOK' BY <1>2, TickType
  <1>3. ASSUME NEW p \in Proc, Connected(p) PROVE TypeOK'
    <2>1. /\ session' \in [Proc -> {"none", "open", "ended", "eof"}]
          /\ idle' \in [Proc -> 0..ServerTimeout]
          /\ \A q \in Proc \ {p} : session'[q] = session[q]
      BY <1>3, Timeouts DEF Connected, TypeOK
    <2>2. LockType BY <1>3, <2>1, SendType DEF Connected
    <2> QED BY <1>3, <2>2 DEF Connected, TypeOK, LockType
  <1>4. ASSUME NEW p \in Proc, Answered(p) PROVE TypeOK'
    BY <1>4, HandleType DEF Answered, TypeOK, LockType
  <1>5. ASSUME NEW p \in Proc, SeesEof(p) \/ SocketFails(p) PROVE TypeOK'
    BY <1>5, DropType DEF SeesEof, SocketFails, TypeOK, LockType
  <1>6. ASSUME NEW p \in Proc, Stop(p) PROVE TypeOK'
    BY <1>1, <1>6 DEF Stop, TypeOK
  <1>7. ASSUME NEW p \in Proc, Exits(p) PROVE TypeOK'
    BY <1>7, AnewType DEF Exits, TypeOK
  <1>8. ASSUME NEW p \in Proc, Crashes(p) PROVE TypeOK'
    BY <1>1, <1>8, AnewType DEF Crashes
  <1>9. ASSUME NEW p \in Proc, Serves(p) PROVE TypeOK'
    <2>1. idle' \in [Proc -> 0..ServerTimeout] BY <1>9, Timeouts DEF Serves, TypeOK
    <2> QED BY <1>9, <2>1 DEF Serves, TypeOK
  <1>10. ASSUME NEW p \in Proc, Arrives(p) PROVE TypeOK'
    BY <1>10 DEF Arrives, TypeOK
  <1>11. ASSUME NEW p \in Proc, IdleTimeout(p) PROVE TypeOK'
    BY <1>11, EndSessionType DEF IdleTimeout, TypeOK
  <1>12. ASSUME NEW p \in Proc, Kill(p) PROVE TypeOK'
    BY <1>1, <1>12, EndSessionType DEF Kill
  <1>13. ASSUME NEW p \in Proc, Cut(p) PROVE TypeOK'
    BY <1>1, <1>13 DEF Cut, TypeOK
  <1>14. ASSUME NEW p \in Proc, Heals(p) PROVE TypeOK'
    BY <1>14 DEF Heals, TypeOK
  <1>15. ASSUME NEW p \in Proc, Stall(p) PROVE TypeOK'
    BY <1>1, <1>15 DEF Stall, TypeOK
  <1>16. ASSUME NEW p \in Proc, GoesOn(p) PROVE TypeOK'
    BY <1>16 DEF GoesOn, TypeOK
  <1>17. CASE GhostEnds BY <1>17 DEF GhostEnds, TypeOK
  <1>18. CASE Advance BY <1>18, AdvanceType
  <1>19. CASE UNCHANGED vars BY <1>19 DEF vars, TypeOK
  <1> QED
    BY <1>2, <1>3, <1>4, <1>5, <1>6, <1>7, <1>8, <1>9, <1>10, <1>11, <1>12, <1>13, <1>14,
       <1>15, <1>16, <1>17, <1>18, <1>19
    DEF Next

-----------------------------------------------------------------------------
(* What a step of one process is to the others.                            *)

\* What a process, its server and its link do.
StepOf(p) ==
    \/ Tick(p) \/ Connected(p) \/ Answered(p) \/ SeesEof(p) \/ SocketFails(p)
    \/ Stop(p) \/ Exits(p) \/ Crashes(p)
    \/ Serves(p) \/ Arrives(p) \/ IdleTimeout(p) \/ Kill(p)
    \/ Cut(p) \/ Heals(p) \/ Stall(p) \/ GoesOn(p)

Untouched(q) ==
    /\ role'[q] = role[q] /\ conn'[q] = conn[q] /\ asked'[q] = asked[q] /\ since'[q] = since[q]
    /\ tick'[q] = tick[q] /\ stalled'[q] = stalled[q] /\ cut'[q] = cut[q] /\ met'[q] = met[q]
    /\ wire'[q] = wire[q] /\ reply'[q] = reply[q] /\ session'[q] = session[q] /\ idle'[q] = idle[q]

\* Nobody takes the lock from its holder.
KeepsLock(q) == holder = q => holder' = q

LEMMA CloseOthers ==
  ASSUME TypeOK, NEW p \in Proc, NEW q \in Proc \ {p}, NEW next, Close(p, next)
  PROVE  /\ conn'[q] = conn[q] /\ asked'[q] = asked[q] /\ since'[q] = since[q] /\ wire'[q] = wire[q]
         /\ reply'[q] = reply[q] /\ session'[q] = session[q] /\ idle'[q] = idle[q] /\ KeepsLock(q)
  BY DEF Close, Released, TypeOK, KeepsLock

LEMMA DropOthers ==
  ASSUME TypeOK, NEW p \in Proc, NEW q \in Proc \ {p}, Drop(p)
  PROVE  /\ role'[q] = role[q] /\ conn'[q] = conn[q] /\ asked'[q] = asked[q] /\ since'[q] = since[q]
         /\ wire'[q] = wire[q] /\ reply'[q] = reply[q] /\ session'[q] = session[q]
         /\ idle'[q] = idle[q] /\ KeepsLock(q)
  <1>1. CASE Lose(p) BY <1>1 DEF Lose, server, TypeOK, KeepsLock
  <1>2. CASE Close(p, "none") /\ UNCHANGED role BY <1>2, CloseOthers
  <1> QED BY <1>1, <1>2 DEF Drop

LEMMA HandleOthers ==
  ASSUME TypeOK, NEW p \in Proc, NEW q \in Proc \ {p}, Handle(p)
  PROVE  /\ role'[q] = role[q] /\ conn'[q] = conn[q] /\ asked'[q] = asked[q] /\ since'[q] = since[q]
         /\ wire'[q] = wire[q] /\ reply'[q] = reply[q] /\ session'[q] = session[q]
         /\ idle'[q] = idle[q] /\ KeepsLock(q)
  BY HandleEffect, HandleRole DEF TypeOK, KeepsLock

LEMMA Others ==
  ASSUME TypeOK, NEW p \in Proc, NEW q \in Proc \ {p}, StepOf(p)
  PROVE  Untouched(q) /\ KeepsLock(q)
  <1> USE DEF lock, server, world, Untouched
  <1>1. CASE Tick(p)
    <2>1. tick'[q] = tick[q] /\ UNCHANGED world BY <1>1 DEF Tick, TypeOK
    <2>2. CASE Connect(p) /\ UNCHANGED <<role, asked, since, confirmed, server>>
      BY <2>1, <2>2 DEF Connect, TypeOK, KeepsLock
    <2>3. CASE UNCHANGED <<lock, server>> BY <2>1, <2>3 DEF KeepsLock
    <2>4. CASE Handle(p) BY <2>1, <2>4, HandleOthers
    <2>5. CASE Drop(p) BY <2>1, <2>5, DropOthers
    <2>6. CASE Send(p) /\ UNCHANGED <<session, idle, holder>>
      BY <2>1, <2>6 DEF Send, TypeOK, KeepsLock
    <2> QED BY <1>1, <2>2, <2>3, <2>4, <2>5, <2>6 DEF Tick
  <1>2. CASE Connected(p) BY <1>2 DEF Connected, Send, TypeOK, KeepsLock
  <1>3. CASE Answered(p) BY <1>3, HandleOthers DEF Answered
  <1>4. CASE SeesEof(p) \/ SocketFails(p)
    BY <1>4, DropOthers DEF SeesEof, SocketFails
  <1>5. CASE Stop(p) BY <1>5 DEF Stop, KeepsLock
  <1>6. CASE Exits(p) \/ Crashes(p)
    <2>1. Anew(p) BY <1>6 DEF Exits, Crashes
    <2> QED BY <2>1, CloseOthers DEF Anew, TypeOK
  <1>7. CASE Serves(p)
    BY <1>7, ConstantsAssumption DEF Serves, TypeOK, KeepsLock
  <1>8. CASE Arrives(p) BY <1>8 DEF Arrives, TypeOK, KeepsLock
  <1>9. CASE IdleTimeout(p) \/ Kill(p)
    BY <1>9 DEF IdleTimeout, Kill, EndSession, Released, TypeOK, KeepsLock
  <1>10. CASE Cut(p) BY <1>10 DEF Cut, TypeOK, KeepsLock
  <1>11. CASE Heals(p) BY <1>11 DEF Heals, TypeOK, KeepsLock
  <1>12. CASE Stall(p) \/ GoesOn(p) BY <1>12 DEF Stall, GoesOn, TypeOK, KeepsLock
  <1> QED
    BY <1>1, <1>2, <1>3, <1>4, <1>5, <1>6, <1>7, <1>8, <1>9, <1>10, <1>11, <1>12 DEF StepOf

LEMMA UntouchedIsGood ==
  ASSUME NEW q \in Proc, Untouched(q), KeepsLock(q), Good(q)
  PROVE  Good(q)'
  <1> USE DEF Untouched, KeepsLock
  <1>1. Linked(q)' BY DEF Good, Linked
  <1>2. Met(q)' BY DEF Good, Met
  <1>3. Holds(q)' BY DEF Good, Holds
  <1>4. Ages(q)' BY DEF Good, Ages
  <1>5. EndsUnheard(q)' BY DEF Good, EndsUnheard
  <1> QED BY <1>1, <1>2, <1>3, <1>4, <1>5 DEF Good

-----------------------------------------------------------------------------
(* What a step of a process is to itself.                                  *)

\* A connection closed, in any role: nothing is left that could be owed or late.
LEMMA ClosedIsGood ==
  ASSUME TypeOK, NEW p \in Proc, Good(p), NEW next \in {"none", "connecting"}, Close(p, next),
         role'[p] = "standby", cut' = cut, stalled' = stalled,
         Met(p)'
  PROVE  Good(p)'
  <1>1. /\ conn'[p] = next /\ asked'[p] = "none" /\ wire'[p] = "none" /\ reply'[p] = "no"
        /\ session'[p] = "none"
    BY DEF Close, TypeOK
  <1>2. Linked(p)' BY <1>1 DEF Linked
  <1>3. Holds(p)' BY <1>1 DEF Holds
  <1>4. Ages(p)' BY <1>1 DEF Ages
  <1>5. EndsUnheard(p)' BY <1>1 DEF EndsUnheard
  <1> QED BY <1>2, <1>3, <1>4, <1>5 DEF Good

LEMMA DropIsGood ==
  ASSUME TypeOK, NEW p \in Proc, Good(p), Drop(p), UNCHANGED world
  PROVE  Good(p)'
  <1>1. Met(p)' BY DEF Good, Met, world
  <1>2. CASE role[p] = "leader" /\ Lose(p)
    <2>1. /\ role'[p] = "lost" /\ conn'[p] = conn[p] /\ asked'[p] = asked[p] /\ wire'[p] = wire[p]
          /\ reply'[p] = reply[p] /\ session'[p] = session[p] /\ holder' = holder /\ cut'[p] = cut[p]
      BY <1>2 DEF Lose, server, world, TypeOK
    <2>2. Linked(p)' BY <1>2, <2>1 DEF Good, Linked
    <2>3. Holds(p)' BY <1>2, <2>1 DEF Good, Holds
    <2>4. Ages(p)' BY <2>1 DEF Ages
    <2>5. EndsUnheard(p)' BY <1>2, <2>1 DEF Good, EndsUnheard
    <2> QED BY <1>1, <2>2, <2>3, <2>4, <2>5 DEF Good
  <1>3. CASE role[p] = "standby" /\ Close(p, "none") /\ UNCHANGED role
    BY <1>1, <1>3, ClosedIsGood DEF world
  <1> QED BY <1>2, <1>3 DEF Drop

\* The first tick after an answer, or the handshake: the question's age counts
\* from here, on top of that of the answer.
LEMMA SendIsGood ==
  ASSUME TypeOK, NEW p \in Proc, Good(p), Send(p), role[p] # "lost",
         conn[p] \in {"connecting", "ready"}, UNCHANGED <<world, holder>>, tick'[p] \in Nat,
         idle'[p] \in Nat, session'[p] # "none", session[p] # "none" => session'[p] = session[p],
         session[p] = "none" => session'[p] = "open" /\ ~cut[p],
         session'[p] = "open" /\ "stall" \notin met[p] =>
             idle'[p] <= AnswerTimeout + 1 + 2 * Interval
  PROVE  Good(p)'
  <1>1. /\ conn'[p] = "busy" /\ asked'[p] = IF role[p] = "leader" THEN "probe" ELSE "try"
        /\ since'[p] = 0 /\ wire'[p] \in {"held", "there"}
        /\ role'[p] = role[p] /\ reply'[p] = reply[p] /\ cut'[p] = cut[p] /\ met'[p] = met[p]
        /\ stalled'[p] = stalled[p] /\ holder' = holder
    BY DEF Send, world, TypeOK
  <1>2. reply[p] = "no" BY DEF Good, Linked, TypeOK
  <1>3. Linked(p)' BY <1>1, <1>2 DEF Good, Linked, TypeOK
  <1>4. Met(p)' BY <1>1 DEF Good, Met
  <1>5. Holds(p)' BY <1>1, <1>2 DEF Good, Linked, Holds, TypeOK
  <1>6. Ages(p)'
    <2>1. wire'[p] \notin {"back", "here"} /\ conn'[p] # "ready" BY <1>1
    <2>2. ASSUME session'[p] = "open", "stall" \notin met'[p]
          PROVE  /\ idle'[p] <= AnswerTimeout + 1 + 2 * Interval + since'[p]
                 /\ idle'[p] <= 2 * AnswerTimeout + 2 + 2 * Interval + tick'[p]
      BY <1>1, <2>2, Timeouts
    <2> QED BY <2>1, <2>2 DEF Ages
  <1>7. EndsUnheard(p)' BY <1>1 DEF Good, EndsUnheard
  <1> QED BY <1>3, <1>4, <1>5, <1>6, <1>7 DEF Good

\* An answer is no older than the answer timeout and the next tick.
LEMMA HandleIsGood ==
  ASSUME TypeOK, NEW p \in Proc, Good(p), Handle(p), role[p] # "lost", wire[p] = "here",
         UNCHANGED world, tick'[p] \in Nat,
         tick'[p] = tick[p] \/ tick[p] = Interval
  PROVE  Good(p)'
  <1>1. /\ conn'[p] = "ready" /\ asked'[p] = "none" /\ wire'[p] = "none" /\ reply'[p] = "no"
        /\ session'[p] = session[p] /\ idle'[p] = idle[p] /\ holder' = holder
        /\ cut'[p] = cut[p] /\ met'[p] = met[p] /\ stalled'[p] = stalled[p]
    BY HandleEffect DEF world, TypeOK
  <1>2. conn[p] = "busy" BY DEF Good, Linked, TypeOK
  <1>3. Linked(p)' BY <1>1, <1>2 DEF Good, Linked
  <1>4. Met(p)' BY <1>1 DEF Good, Met
  <1>5. Holds(p)'
    <2>1. CASE reply[p] = "yes" BY <1>1, <2>1 DEF Good, Holds
    <2>2. CASE reply[p] = "no"
      <3>1. asked[p] = "try" BY <1>2, <2>2 DEF Good, Linked, Holds, TypeOK
      <3>2. role'[p] = "standby" BY <2>2, <3>1, HandleRole
      <3> QED BY <1>1, <3>2 DEF Holds
    <2> QED BY <2>1, <2>2 DEF TypeOK
  <1>6. Ages(p)' BY <1>1, Timeouts DEF Good, Ages, TypeOK
  <1>7. EndsUnheard(p)'
    <2>1. session[p] = "ended" => Together BY DEF Good, EndsUnheard
    <2> QED BY <1>1, <2>1 DEF Good, EndsUnheard
  <1> QED BY <1>3, <1>4, <1>5, <1>6, <1>7 DEF Good

LEMMA TickIsGood ==
  ASSUME TypeOK, NEW p \in Proc, Good(p), Tick(p), TypeOK' PROVE Good(p)'
  <1> USE DEF world
  <1>1. /\ role[p] # "lost" /\ ~stalled[p] /\ tick[p] = Interval /\ tick'[p] = 0
        /\ UNCHANGED world
    BY DEF Tick, Runs, TypeOK
  <1>2. CASE conn[p] = "none" /\ Connect(p) /\ UNCHANGED <<role, asked, since, confirmed, server>>
    <2>1. /\ conn'[p] = "connecting" /\ asked'[p] = asked[p] /\ wire'[p] = wire[p]
          /\ session'[p] = session[p] /\ reply'[p] = reply[p] /\ role'[p] = role[p]
          /\ holder' = holder
      BY <1>2 DEF Connect, server, TypeOK
    <2>2. asked[p] = "none" /\ session[p] = "none" /\ wire[p] = "none" /\ role[p] = "standby"
      BY <1>1, <1>2 DEF Good, Linked, TypeOK
    <2>3. Linked(p)' /\ Holds(p)' BY <2>1, <2>2 DEF Good, Linked, Holds
    <2>4. Met(p)' BY <1>1 DEF Good, Met
    <2>5. Ages(p)' /\ EndsUnheard(p)' BY <2>1, <2>2 DEF Ages, EndsUnheard
    <2> QED BY <2>3, <2>4, <2>5 DEF Good
  <1>3. CASE conn[p] \in {"connecting", "busy"} /\ ~Overdue(p) /\ UNCHANGED <<lock, server>>
    <2> USE DEF lock, server
    <2>1. Linked(p)' BY <1>3 DEF Good, Linked
    <2>2. Met(p)' BY <1>1 DEF Good, Met
    <2>3. Holds(p)' BY <1>3 DEF Good, Holds
    <2>4. Ages(p)'
      <3>1. since[p] <= AnswerTimeout /\ since[p] \in Nat /\ idle[p] \in Nat
        BY <1>3, Timeouts DEF Overdue, TypeOK
      <3> QED BY <1>1, <1>3, <3>1, Timeouts DEF Good, Ages
    <2>5. EndsUnheard(p)' BY <1>1, <1>3 DEF Good, EndsUnheard
    <2> QED BY <2>1, <2>2, <2>3, <2>4, <2>5 DEF Good
  <1>4. CASE wire[p] = "here" /\ Handle(p)
    BY <1>1, <1>4, HandleIsGood
  <1>5. CASE Drop(p) BY <1>1, <1>5, DropIsGood
  <1>6. CASE conn[p] = "ready" /\ Send(p) /\ UNCHANGED <<session, idle, holder>>
    <2>1. session[p] # "none" /\ idle[p] \in Nat BY <1>6, Timeouts DEF Good, Linked, TypeOK
    <2>2. session[p] = "open" /\ "stall" \notin met[p] => idle[p] <= AnswerTimeout + 1 + 2 * Interval
      BY <1>1, <1>6, <2>1, Timeouts DEF Good, Ages
    <2>3. idle'[p] = idle[p] /\ session'[p] = session[p] BY <1>6
    <2> QED BY <1>1, <1>6, <2>1, <2>2, <2>3, SendIsGood
  <1> QED BY <1>2, <1>3, <1>4, <1>5, <1>6 DEF Tick

LEMMA ConnectedIsGood ==
  ASSUME TypeOK, NEW p \in Proc, Good(p), Connected(p), TypeOK' PROVE Good(p)'
  <1>1. /\ role[p] # "lost" /\ conn[p] = "connecting" /\ ~cut[p] /\ Send(p)
        /\ session'[p] = "open" /\ idle'[p] = 0 /\ UNCHANGED <<world, holder>>
    BY DEF Connected, Runs, TypeOK
  <1>2. session[p] = "none" BY <1>1 DEF Good, Linked
  <1>3. tick'[p] \in Nat BY Timeouts DEF TypeOK
  <1>4. idle'[p] <= AnswerTimeout + 1 + 2 * Interval BY <1>1, Timeouts
  <1> QED BY <1>1, <1>2, <1>3, <1>4, SendIsGood

\* A new life begins with nothing met but a cut that lasts.
LEMMA AnewIsGood ==
  ASSUME TypeOK, NEW p \in Proc, Good(p), Anew(p), ~stalled[p] PROVE Good(p)'
  <1>1. /\ Close(p, "connecting") /\ role'[p] = "standby" /\ cut' = cut /\ stalled' = stalled
        /\ met'[p] = IF cut[p] THEN {"cut"} ELSE {}
    BY DEF Anew, TypeOK
  <1>2. Met(p)' BY <1>1 DEF Met
  <1> QED BY <1>1, <1>2, ClosedIsGood

\* A question of a leader is answered yes: its session is open, so it holds the lock.
LEMMA ServesIsGood ==
  ASSUME TypeOK, NEW p \in Proc, Good(p), Serves(p) PROVE Good(p)'
  <1>1. /\ wire[p] = "there" /\ session[p] = "open" /\ ~cut[p]
        /\ wire'[p] = "back" /\ idle'[p] = 0
        /\ holder' = IF asked[p] = "try" /\ holder = Nobody THEN p ELSE holder
        /\ reply'[p] = IF holder' = p THEN "yes" ELSE "no"
        /\ UNCHANGED <<lock, tick, session, world>>
    BY DEF Serves, TypeOK
  <1> USE DEF lock, world
  <1>2. conn[p] = "busy" /\ asked[p] \in {"try", "probe"}
    BY <1>1 DEF Good, Linked, TypeOK
  <1>3. role[p] # "standby" => holder = p /\ holder' = p
    BY <1>1, ConstantsAssumption DEF Good, Holds
  <1>4. Linked(p)' BY <1>1, <1>2 DEF Good, Linked
  <1>5. Met(p)' BY <1>1 DEF Good, Met
  <1>6. Holds(p)' BY <1>1, <1>2, <1>3 DEF Good, Linked, Holds
  <1>7. Ages(p)'
    <2>1. since'[p] \in Nat /\ tick'[p] \in Nat BY <1>1, Timeouts DEF TypeOK
    <2>2. conn'[p] = "busy" BY <1>1, <1>2
    <2> QED BY <1>1, <2>1, <2>2, Timeouts DEF Ages
  <1>8. EndsUnheard(p)' BY <1>1 DEF Good, EndsUnheard
  <1> QED BY <1>4, <1>5, <1>6, <1>7, <1>8 DEF Good

\* When a session ends by its idle timeout behind a cut, the last answer is older
\* than any process that did not stand still waits.
LEMMA IdleIsLost ==
  ASSUME TypeOK, NEW p \in Proc, Good(p), IdleTimeout(p), cut[p]
  PROVE  Together \/ role[p] = "lost"
  <1> SUFFICES ASSUME ~Together, role[p] # "lost" PROVE FALSE
    OBVIOUS
  <1>1. "stall" \notin met[p] BY DEF Good, Met
  <1>2. session[p] = "open" /\ idle[p] = 4 * AnswerTimeout /\ wire[p] # "there"
    BY Timeouts DEF IdleTimeout
  <1>3. tick[p] <= Interval /\ tick[p] \in Nat BY Timeouts DEF TypeOK
  <1>4. conn[p] = "ready" \/ wire[p] \in {"back", "here", "held"}
    BY <1>2 DEF Good, Linked, TypeOK
  <1>5. \/ idle[p] <= AnswerTimeout + 1 + Interval + tick[p]
        \/ idle[p] <= AnswerTimeout + 1 + tick[p]
        \/ idle[p] <= 2 * AnswerTimeout + 2 + 2 * Interval + tick[p]
    BY <1>1, <1>2, <1>4 DEF Good, Ages
  <1> QED BY <1>2, <1>3, <1>5, Timeouts

LEMMA EndSessionIsGood ==
  ASSUME TypeOK, NEW p \in Proc, Good(p), EndSession(p), session[p] = "open",
         cut[p] => Together \/ role[p] = "lost"
  PROVE  Good(p)'
  <1>1. /\ session'[p] = IF cut[p] THEN "ended" ELSE "eof"
        /\ wire'[p] = IF wire[p] = "back" /\ ~cut[p] THEN "here" ELSE wire[p]
        /\ UNCHANGED <<lock, reply, world>>
    BY DEF EndSession, TypeOK
  <1> USE DEF lock, world
  <1>2. Linked(p)' BY <1>1 DEF Good, Linked
  <1>3. Met(p)' BY <1>1 DEF Good, Met
  <1>4. Holds(p)' BY <1>1 DEF Good, Holds
  <1>5. Ages(p)' BY <1>1 DEF Ages
  <1>6. EndsUnheard(p)' BY <1>1 DEF EndsUnheard
  <1> QED BY <1>2, <1>3, <1>4, <1>5, <1>6 DEF Good

LEMMA ArrivesIsGood ==
  ASSUME TypeOK, NEW p \in Proc, Good(p), Arrives(p) PROVE Good(p)'
  <1>1. /\ wire[p] = "back" /\ wire'[p] = "here"
        /\ UNCHANGED <<lock, tick, reply, session, idle, holder, world>>
    BY DEF Arrives, TypeOK
  <1> USE DEF lock, world
  <1>2. Linked(p)' BY <1>1 DEF Good, Linked
  <1>3. Met(p)' BY <1>1 DEF Good, Met
  <1>4. Holds(p)' BY <1>1 DEF Good, Holds
  <1>5. Ages(p)' BY <1>1 DEF Good, Ages
  <1>6. EndsUnheard(p)' BY <1>1 DEF Good, EndsUnheard
  <1> QED BY <1>2, <1>3, <1>4, <1>5, <1>6 DEF Good

LEMMA CutIsGood ==
  ASSUME TypeOK, NEW p \in Proc, Good(p), Cut(p) PROVE Good(p)'
  <1>1. /\ ~cut[p] /\ cut'[p] = TRUE /\ met'[p] = met[p] \cup {"cut"}
        /\ "stall" \in met[p] => Together
        /\ UNCHANGED <<lock, tick, stalled, server>>
    BY DEF Cut, TypeOK
  <1> USE DEF lock, server
  <1>2. Linked(p)' BY <1>1 DEF Good, Linked
  <1>3. Met(p)' BY <1>1 DEF Good, Met
  <1>4. Holds(p)' BY <1>1 DEF Good, Holds
  <1>5. Ages(p)' BY <1>1 DEF Good, Ages
  <1>6. EndsUnheard(p)' BY <1>1 DEF Good, EndsUnheard
  <1> QED BY <1>2, <1>3, <1>4, <1>5, <1>6 DEF Good

LEMMA HealsIsGood ==
  ASSUME TypeOK, NEW p \in Proc, Good(p), Heals(p) PROVE Good(p)'
  <1> DEFINE w == CASE wire[p] = "back" -> "here"
                    [] wire[p] = "held" -> "there"
                    [] OTHER            -> wire[p]
  <1>1. w = IF wire[p] = "back" THEN "here" ELSE IF wire[p] = "held" THEN "there" ELSE wire[p]
    BY Zenon
  <1>2. wire' = [wire EXCEPT ![p] = w] BY DEF Heals
  <1> HIDE DEF w
  <1>3. /\ session'[p] = IF session[p] = "ended" THEN "eof" ELSE session[p]
        /\ wire'[p] = w /\ cut'[p] = FALSE
        /\ UNCHANGED <<lock, tick, stalled, met, reply, idle, holder>>
    BY <1>2 DEF Heals, TypeOK
  <1> USE DEF lock
  <1>4. Linked(p)' BY <1>1, <1>3 DEF Good, Linked
  <1>5. Met(p)' BY <1>3 DEF Good, Met
  <1>6. Holds(p)' BY <1>1, <1>3 DEF Good, Holds
  <1>7. Ages(p)' BY <1>1, <1>3 DEF Good, Ages
  <1>8. EndsUnheard(p)' BY <1>3 DEF Good, EndsUnheard
  <1> QED BY <1>4, <1>5, <1>6, <1>7, <1>8 DEF Good

LEMMA StallIsGood ==
  ASSUME TypeOK, NEW p \in Proc, Good(p), Stall(p) \/ GoesOn(p) PROVE Good(p)'
  <1>1. /\ stalled'[p] => "stall" \in met'[p]
        /\ \/ met'[p] = met[p]
           \/ met'[p] = met[p] \cup {"stall"} /\ ("cut" \in met[p] => Together)
        /\ UNCHANGED <<lock, tick, server, cut>>
    BY DEF Good, Met, Stall, GoesOn, TypeOK
  <1> USE DEF lock, server
  <1>2. Linked(p)' BY <1>1 DEF Good, Linked
  <1>3. Met(p)' BY <1>1 DEF Good, Met
  <1>4. Holds(p)' BY <1>1 DEF Good, Holds
  <1>5. Ages(p)' BY <1>1 DEF Good, Ages
  <1>6. EndsUnheard(p)' BY <1>1 DEF Good, EndsUnheard
  <1> QED BY <1>2, <1>3, <1>4, <1>5, <1>6 DEF Good

\* Time passes only over a process with nothing due: its next tick is ahead, and
\* so is the answer it would read.
LEMMA AdvanceIsGood ==
  ASSUME TypeOK, NEW p \in Proc, Good(p), Advance, TypeOK' PROVE Good(p)'
  <1>1. /\ since'[p] = IF conn[p] \in {"connecting", "busy"} /\ role[p] # "lost"
                       THEN Older(since[p], AnswerTimeout + 1) ELSE 0
        /\ tick'[p] = IF role[p] = "lost" THEN 0 ELSE Older(tick[p], Interval)
        /\ idle'[p] = IF session[p] = "open" THEN Older(idle[p], ServerTimeout) ELSE 0
        /\ UNCHANGED <<role, conn, asked, wire, reply, session, holder, world>>
    BY DEF Advance
  <1> USE DEF world
  <1>2. Linked(p)' BY <1>1 DEF Good, Linked
  <1>3. Met(p)' BY <1>1 DEF Good, Met
  <1>4. Holds(p)' BY <1>1 DEF Good, Holds
  <1>5. Ages(p)'
    <2> SUFFICES ASSUME session[p] = "open", role[p] # "lost", "stall" \notin met[p]
                 PROVE  Ages(p)'
      BY <1>1 DEF Ages
    <2>1. tick[p] # Interval /\ wire[p] # "here"
      BY DEF Good, Met, Advance, Due, Runs
    <2>2. /\ tick[p] \in Nat /\ tick[p] <= Interval /\ since[p] \in Nat /\ idle[p] \in Nat
          /\ since[p] <= AnswerTimeout + 1
      BY Timeouts DEF TypeOK
    <2>3. tick'[p] = tick[p] + 1 BY <1>1, <2>1, <2>2, Timeouts DEF Older
    <2>4. idle'[p] \in Nat /\ idle'[p] <= idle[p] + 1 BY <1>1, <2>2, Timeouts DEF Older
    <2>5. conn[p] = "busy" => since'[p] \in Nat /\ (since'[p] <= AnswerTimeout => since'[p] = since[p] + 1)
      BY <1>1, <2>2, Timeouts DEF Older
    <2>6. wire[p] \in {"back", "held"} => conn[p] = "busy"
      BY DEF Good, Linked, TypeOK
    <2>7. CASE conn[p] = "ready"
      <3>1. idle[p] <= AnswerTimeout + 1 + Interval + tick[p] BY <2>7 DEF Good, Ages
      <3>2. wire[p] = "none" BY <2>7 DEF Good, Linked
      <3> QED BY <1>1, <2>2, <2>3, <2>4, <3>1, <3>2, Timeouts DEF Ages
    <2>8. CASE wire[p] = "back"
      <3>1. /\ since[p] <= AnswerTimeout => idle[p] <= since[p]
            /\ idle[p] <= AnswerTimeout + 1 + tick[p]
        BY <2>8 DEF Good, Ages
      <3>2. idle'[p] <= AnswerTimeout + 1 + tick'[p] BY <2>2, <2>3, <2>4, <3>1, Timeouts
      <3>3. since'[p] <= AnswerTimeout => idle'[p] <= since'[p]
        BY <2>2, <2>4, <2>5, <2>6, <2>8, <3>1, Timeouts
      <3>4. wire'[p] = "back" /\ conn'[p] = "busy" BY <1>1, <2>6, <2>8
      <3> QED BY <3>2, <3>3, <3>4 DEF Ages
    <2>9. CASE wire[p] = "held"
      <3>1. /\ since[p] <= AnswerTimeout => idle[p] <= AnswerTimeout + 1 + 2 * Interval + since[p]
            /\ idle[p] <= 2 * AnswerTimeout + 2 + 2 * Interval + tick[p]
        BY <2>9 DEF Good, Ages
      <3>2. idle'[p] <= 2 * AnswerTimeout + 2 + 2 * Interval + tick'[p]
        BY <2>2, <2>3, <2>4, <3>1, Timeouts
      <3>3. since'[p] <= AnswerTimeout => idle'[p] <= AnswerTimeout + 1 + 2 * Interval + since'[p]
        BY <2>2, <2>4, <2>5, <2>6, <2>9, <3>1, Timeouts
      <3>4. wire'[p] = "held" /\ conn'[p] = "busy" BY <1>1, <2>6, <2>9
      <3> QED BY <3>2, <3>3, <3>4 DEF Ages
    <2>10. CASE conn[p] # "ready" /\ wire[p] \notin {"back", "held"}
      BY <1>1, <2>1, <2>10 DEF Ages
    <2> QED BY <2>7, <2>8, <2>9, <2>10
  <1>6. EndsUnheard(p)' BY <1>1 DEF Good, EndsUnheard
  <1> QED BY <1>2, <1>3, <1>4, <1>5, <1>6 DEF Good

LEMMA OwnStepIsGood ==
  ASSUME TypeOK, NEW p \in Proc, Good(p), StepOf(p), TypeOK' PROVE Good(p)'
  <1>1. CASE Tick(p) BY <1>1, TickIsGood
  <1>2. CASE Connected(p) BY <1>2, ConnectedIsGood
  <1>3. CASE Answered(p)
    <2>1. tick'[p] \in Nat /\ tick'[p] = tick[p] BY <1>3, Timeouts DEF Answered, TypeOK
    <2> QED BY <1>3, <2>1, HandleIsGood DEF Answered, Runs
  <1>4. CASE SeesEof(p) \/ SocketFails(p)
    BY <1>4, DropIsGood DEF SeesEof, SocketFails
  <1>5. CASE Stop(p)
    <2>1. Untouched(p) /\ KeepsLock(p) BY <1>5 DEF Stop, Untouched, KeepsLock, lock, server, world
    <2> QED BY <2>1, UntouchedIsGood
  <1>6. CASE Exits(p) \/ Crashes(p) BY <1>6, AnewIsGood DEF Exits, Crashes
  <1>7. CASE Serves(p) BY <1>7, ServesIsGood
  <1>8. CASE Arrives(p) BY <1>8, ArrivesIsGood
  <1>9. CASE IdleTimeout(p)
    BY <1>9, IdleIsLost, EndSessionIsGood DEF IdleTimeout
  <1>10. CASE Kill(p) BY <1>10, EndSessionIsGood DEF Kill
  <1>11. CASE Cut(p) BY <1>11, CutIsGood
  <1>12. CASE Heals(p) BY <1>12, HealsIsGood
  <1>13. CASE Stall(p) \/ GoesOn(p) BY <1>13, StallIsGood
  <1> QED
    BY <1>1, <1>2, <1>3, <1>4, <1>5, <1>6, <1>7, <1>8, <1>9, <1>10, <1>11, <1>12, <1>13
    DEF StepOf

-----------------------------------------------------------------------------
(* The invariant.                                                          *)

LEMMA NextSteps ==
  ASSUME [Next]_vars
  PROVE  (\E p \in Proc : StepOf(p)) \/ GhostEnds \/ Advance \/ UNCHANGED vars
  BY DEF Next, StepOf

LEMMA InitInv == Init => Inv
  <1> SUFFICES ASSUME Init PROVE Inv
    OBVIOUS
  <1>1. TypeOK BY InitType
  <1>2. ASSUME NEW p \in Proc PROVE Good(p)
    BY <1>2, Timeouts DEF Init, Good, Linked, Met, Holds, Ages, EndsUnheard
  <1> QED BY <1>1, <1>2 DEF Inv

LEMMA InvStep == Inv /\ [Next]_vars => Inv'
  <1> SUFFICES ASSUME Inv, [Next]_vars PROVE Inv'
    OBVIOUS
  <1>1. TypeOK /\ TypeOK' BY TypeStep DEF Inv
  <1>2. ASSUME NEW q \in Proc PROVE Good(q)'
    <2>1. Good(q) BY <1>2 DEF Inv
    <2>2. ASSUME NEW p \in Proc, StepOf(p) PROVE Good(q)'
      <3>1. CASE p = q BY <1>1, <2>1, <2>2, <3>1, OwnStepIsGood
      <3>2. CASE p # q
        <4>1. Untouched(q) /\ KeepsLock(q) BY <1>1, <2>2, <3>2, Others
        <4> QED BY <2>1, <4>1, UntouchedIsGood
      <3> QED BY <3>1, <3>2
    <2>3. CASE GhostEnds \/ UNCHANGED vars
      <3>1. Untouched(q) /\ KeepsLock(q)
        BY <2>3, ConstantsAssumption DEF GhostEnds, vars, lock, server, world, Untouched, KeepsLock
      <3> QED BY <2>1, <3>1, UntouchedIsGood
    <2>4. CASE Advance BY <1>1, <2>1, <2>4, AdvanceIsGood
    <2> QED BY <2>2, <2>3, <2>4, NextSteps
  <1> QED BY <1>1, <1>2 DEF Inv

\* The inductive invariant of the competition for the lock.
THEOREM Invariant == Spec => []Inv
  <1> QED BY InitInv, InvStep, PTL DEF Spec

-----------------------------------------------------------------------------
(* What follows from it.                                                   *)

\* The members of every lock, its timers and the server's sessions keep their types.
THEOREM TypeCorrect == Spec => []TypeOK
  <1>1. Inv => TypeOK BY DEF Inv
  <1> QED BY Invariant, <1>1, PTL

\* Neither drop() nor a stop gives up the advisory lock of a process that still
\* works, whatever is cut and whoever stands still, alone or together.
THEOREM WorkKeepsLockHolds == Spec => []WorkKeepsLock
  <1>1. ASSUME Inv PROVE WorkKeepsLock
    <2>1. ASSUME NEW p \in Proc, role[p] \in {"leader", "lost"}, session[p] \notin {"ended", "eof"}
          PROVE  holder = p
      <3>1. Good(p) /\ session[p] \in {"none", "open"} BY <1>1, <2>1 DEF Inv, TypeOK
      <3>2. session[p] = "open" BY <2>1, <3>1 DEF Good, Linked
      <3> QED BY <2>1, <3>1, <3>2 DEF Good, Holds
    <2> QED BY <2>1 DEF WorkKeepsLock
  <1> QED BY Invariant, <1>1, PTL

\* fresh() means what it says as long as no life of a process meets both a cut and
\* a stall: its session holds the lock at that moment.
THEOREM FreshHoldsAlways == ~Together => (Spec => []FreshHolds)
  <1> SUFFICES ASSUME ~Together PROVE Spec => []FreshHolds
    OBVIOUS
  <1>1. ASSUME Inv PROVE FreshHolds
    <2>1. ASSUME NEW p \in Proc, Fresh(p) PROVE holder = p
      <3>1. Good(p) /\ role[p] = "leader" /\ session[p] # "eof" BY <1>1, <2>1 DEF Inv, Fresh
      <3>2. session[p] # "ended" BY <3>1 DEF Good, EndsUnheard
      <3>3. session[p] = "open" BY <1>1, <3>1, <3>2 DEF Inv, TypeOK, Good, Linked
      <3> QED BY <3>1, <3>3 DEF Good, Holds
    <2> QED BY <2>1 DEF FreshHolds
  <1> QED BY Invariant, <1>1, PTL

\* Only the server ends a session, in a step that leaves the role alone.
LEMMA EndsBy ==
  ASSUME TypeOK, NEW p \in Proc, StepOf(p), session[p] = "open", session'[p] = "ended"
  PROVE  role' = role
  <1> USE DEF lock, server
  <1>1. ASSUME NEW next, Close(p, next) PROVE FALSE BY <1>1 DEF Close, TypeOK
  <1>2. ASSUME Drop(p) PROVE FALSE BY <1>1, <1>2 DEF Drop, Lose
  <1>3. ASSUME Handle(p) PROVE FALSE BY <1>3, HandleEffect
  <1>4. ~Tick(p) BY <1>2, <1>3 DEF Tick
  <1>5. ~(Connected(p) \/ Answered(p) \/ SeesEof(p) \/ SocketFails(p) \/ Exits(p) \/ Crashes(p))
    BY <1>1, <1>2, <1>3 DEF Connected, Answered, SeesEof, SocketFails, Exits, Crashes, Anew, TypeOK
  <1> QED
    BY <1>4, <1>5 DEF StepOf, Stop, Serves, Arrives, IdleTimeout, Kill, EndSession, Cut, Heals, Stall, GoesOn

\* The old leader steps down on its own clock before the server frees the lock,
\* with the timeouts the class derives from its interval.
THEOREM StepsDownFirstHolds == ~Together => (Spec => StepsDownFirst)
  <1> DEFINE Unheard(p) == session[p] = "open" /\ session'[p] = "ended"
             First == \A p \in Proc : Unheard(p) => role[p] # "leader"
  <1> SUFFICES ASSUME ~Together PROVE Spec => [][First]_vars
    BY DEF StepsDownFirst
  <1>1. ASSUME Inv, [Next]_vars PROVE [First]_vars
    <2>1. TypeOK' /\ TypeOK BY <1>1, TypeStep DEF Inv
    <2>2. ASSUME NEW p \in Proc, Unheard(p) PROVE role[p] # "leader"
      <3>1. Good(p) BY <1>1 DEF Inv
      <3>2. Good(p)'
        BY <1>1, InvStep DEF Inv
      <3>3. role'[p] = "lost" BY <2>2, <3>2 DEF Good, EndsUnheard
      <3>4. PICK q \in Proc : StepOf(q)
        BY <1>1, <2>2, NextSteps DEF GhostEnds, Advance, vars, server
      <3>5. q = p BY <2>1, <2>2, <3>4, Others DEF Untouched
      <3>6. role' = role BY <2>1, <2>2, <3>4, <3>5, EndsBy
      <3> QED BY <3>3, <3>6
    <2> QED BY <2>2
  <1> QED BY Invariant, <1>1, PTL DEF Spec
=============================================================================

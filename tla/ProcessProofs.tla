---------------------------- MODULE ProcessProofs ----------------------------
(***************************************************************************)
(* Proofs about what happens in and between the processes: ChildStop, for  *)
(* any number of modules, connections and queries, and any number of       *)
(* rounds from three; and LogRotation, for any number of processes, lines, *)
(* backups and faults, and files of any size, where no failure is passed   *)
(* over.                                                                   *)
(***************************************************************************)
EXTENDS ChildStop, LogRotation, TLAPS, FiniteSetTheorems

-----------------------------------------------------------------------------
(* The stop: the inductive invariant.                                      *)

Modules == Mod \cup {Proc}

Query == [id : Nat, mod : Modules, conn : Conn \cup {NoConn}, bound : BOOLEAN, ofStop : BOOLEAN]

State ==
    [ role : {"worker", "single", "helper", "custom"},
      lock : {"none", "wanted", "held", "stale", "lost"},
      phase : {"starting", "standby", "serving", "finishing", "draining", "gone"},
      signalled : BOOLEAN, cut : BOOLEAN, stopping : BOOLEAN, muted : BOOLEAN, quiet : BOOLEAN,
      conn : [Conn -> {"none", "idle", "reading", "owed", "closed"}],
      queries : SUBSET Query, sent : 0 .. MaxQueries,
      busy : SUBSET Modules, released : SUBSET Modules, late : SUBSET Modules,
      round : 0 .. Rounds, drained : BOOLEAN, db : {"up", "down", "mute"},
      stranded : SUBSET Conn ]

Over(x) == x.phase \in {"draining", "gone"}

\* Once the modules are released nothing feeds them any more.
Still(x) ==
    /\ x.phase \in {"finishing", "draining"} => x.stopping
    /\ x.released # {} => Over(x) /\ x.stopping /\ x.muted /\ x.quiet /\ x.busy = {}

\* A query that still has its handler was sent by on_stop(), or its module has
\* not been released.
Bound(x) == \A q \in x.queries : q.bound => q.ofStop \/ q.mod \notin x.released

\* Up to the detach every query has its handler, and every client that is owed an
\* answer is so by a query.
OwedByQuery(x) ==
    ~Over(x) =>
        /\ \A q \in x.queries : q.bound /\ ~q.ofStop
        /\ \A c \in Conn : x.conn[c] = "owed" => \E q \in x.queries : q.conn = c

\* A client that was stranded as the stop began is owed its answer until the third
\* round, and gone with it after that.
StrandedEnd(x) ==
    /\ x.phase \in {"starting", "standby", "serving"} => x.round = 0
    /\ x.phase = "finishing" =>
        /\ x.stranded # {} => x.db = "down"
        /\ \A c \in x.stranded : x.conn[c] = "closed" \/ (x.conn[c] = "owed" /\ x.round < 3)

Good(x) == x.late = {} /\ Still(x) /\ Bound(x) /\ OwedByQuery(x) /\ StrandedEnd(x)

Inv == cs \in State /\ Good(cs)

-----------------------------------------------------------------------------
(* The operators the actions are made of.                                  *)

LEMMA ModsAre == cs \in State => Mods \in SUBSET Modules /\ \E m \in Mods : TRUE
  BY StopConstants DEF Mods, Modules

\* Two states that differ in their connections and queries only.
SameLife(x, y) ==
    /\ y.phase = x.phase /\ y.role = x.role /\ y.late = x.late
    /\ y.stopping = x.stopping /\ y.muted = x.muted /\ y.quiet = x.quiet /\ y.busy = x.busy
    /\ y.released = x.released /\ y.round = x.round /\ y.db = x.db /\ y.stranded = x.stranded

\* The query pool.execute() makes.
Asked(x, m, c) == [id |-> x.sent, mod |-> m, conn |-> c, bound |-> TRUE, ofStop |-> m \in x.released]

LEMMA AskedIs ==
  ASSUME NEW x \in State, NEW m \in Modules, NEW c \in Conn \cup {NoConn}
  PROVE  /\ Asked(x, m, c) \in Query
         /\ Asked(x, m, c).mod = m /\ Asked(x, m, c).conn = c /\ Asked(x, m, c).bound
         /\ Asked(x, m, c).ofStop <=> m \in x.released
  <1>1. x.sent \in Nat BY StopConstants DEF State
  <1>2. Asked(x, m, c) \in Query BY <1>1 DEF Asked, Query
  <1> QED BY <1>2 DEF Asked

\* A query more, with its handler.
LEMMA SendsQuery ==
  ASSUME NEW x \in State, NEW m \in Modules, NEW c \in Conn \cup {NoConn},
         x.sent < MaxQueries
  PROVE  /\ Sends(x, m, c) \in State /\ SameLife(x, Sends(x, m, c))
         /\ Sends(x, m, c).queries = x.queries \cup {Asked(x, m, c)}
         /\ Sends(x, m, c).conn = x.conn
  <1> DEFINE q == Asked(x, m, c)
  <1>1. x.sent \in Nat /\ x.sent + 1 \in 0 .. MaxQueries /\ x.sent # MaxQueries
    BY StopConstants DEF State
  <1>2. Sends(x, m, c) = [x EXCEPT !.sent = x.sent + 1, !.queries = x.queries \cup {q}]
    BY <1>1 DEF Sends, Asked
  <1>3. x.queries \cup {q} \in SUBSET Query BY AskedIs DEF State
  <1> HIDE DEF q
  <1>4. Sends(x, m, c) \in State /\ SameLife(x, Sends(x, m, c))
    BY ZenonT(60), <1>1, <1>2, <1>3 DEF State, SameLife
  <1>5. Sends(x, m, c).queries = x.queries \cup {q} /\ Sends(x, m, c).conn = x.conn
    BY <1>2 DEF State
  <1> QED BY <1>4, <1>5 DEF q

LEMMA SendsIsGood ==
  ASSUME NEW x \in State, Good(x), NEW m \in Modules, NEW c \in Conn \cup {NoConn}
  PROVE  /\ Sends(x, m, c) \in State /\ Good(Sends(x, m, c)) /\ SameLife(x, Sends(x, m, c))
         /\ Sends(x, m, c).conn = x.conn
  <1>1. CASE x.sent = MaxQueries BY <1>1 DEF Sends, SameLife
  <1>2. CASE x.sent < MaxQueries
    <2> DEFINE q == Asked(x, m, c)
               y == Sends(x, m, c)
    <2>1. q.mod = m /\ q.bound /\ (q.ofStop <=> m \in x.released) BY AskedIs
    <2>2. y \in State /\ SameLife(x, y) /\ y.queries = x.queries \cup {q} /\ y.conn = x.conn
      BY <1>2, SendsQuery
    <2> HIDE DEF q, y
    <2>3. Still(y) BY <2>2 DEF Good, Still, Over, SameLife
    <2>4. Bound(y) BY <2>1, <2>2 DEF Good, Bound, SameLife
    <2>5. OwedByQuery(y) BY <2>1, <2>2 DEF Good, Still, OwedByQuery, Over, SameLife
    <2>6. StrandedEnd(y) BY <2>2 DEF Good, StrandedEnd, SameLife
    <2>7. y.late = {} BY <2>2 DEF Good, SameLife
    <2> QED BY <2>2, <2>3, <2>4, <2>5, <2>6, <2>7 DEF Good, y
  <1> QED BY <1>1, <1>2, StopConstants DEF State

\* To enter a module that is not released shows nowhere.
LEMMA EntersSame ==
  ASSUME NEW x \in State, NEW m, m \notin x.released
  PROVE  Enters(x, m) = x
  BY DEF Enters, State

ConnStates == {"none", "idle", "reading", "owed", "closed"}

\* A state with another connection, and one with fewer queries.
WithConn(x, c, to) == [x EXCEPT !.conn[c] = to]
WithQueries(x, qs) == [x EXCEPT !.queries = qs]

LEMMA WithConnIs ==
  ASSUME NEW x \in State, NEW c \in Conn, NEW to \in ConnStates
  PROVE  /\ WithConn(x, c, to) \in State /\ SameLife(x, WithConn(x, c, to))
         /\ WithConn(x, c, to).queries = x.queries
         /\ WithConn(x, c, to).conn = [x.conn EXCEPT ![c] = to]
  BY DEF State, SameLife, WithConn, ConnStates

LEMMA WithQueriesIs ==
  ASSUME NEW x \in State, NEW qs \in SUBSET Query
  PROVE  /\ WithQueries(x, qs) \in State /\ SameLife(x, WithQueries(x, qs))
         /\ WithQueries(x, qs).queries = qs /\ WithQueries(x, qs).conn = x.conn
         /\ WithQueries(x, qs).sent = x.sent
  BY DEF State, SameLife, WithQueries

\* What an answer does: its client is told, or gone.
LEMMA AnswerOnIs ==
  ASSUME NEW x \in State, NEW c \in Conn \cup {NoConn}
  PROVE  /\ AnswerOn(x, c) \in State /\ SameLife(x, AnswerOn(x, c))
         /\ AnswerOn(x, c).queries = x.queries
         /\ \A d \in Conn : AnswerOn(x, c).conn[d] =
                IF d # c \/ x.conn[d] = "closed" THEN x.conn[d]
                ELSE IF x.stopping THEN "closed" ELSE "idle"
  <1>1. CASE c = NoConn \/ x.conn[c] = "closed"
    BY <1>1, StopConstants DEF AnswerOn, State, SameLife
  <1>2. CASE ~(c = NoConn \/ x.conn[c] = "closed")
    <2> DEFINE to == IF x.stopping THEN "closed" ELSE "idle"
    <2>1. c \in Conn /\ to \in ConnStates BY <1>2 DEF ConnStates
    <2>2. AnswerOn(x, c) = WithConn(x, c, to) BY <1>2 DEF AnswerOn, WithConn
    <2>3. x.conn \in [Conn -> ConnStates] BY DEF State, ConnStates
    <2> HIDE DEF to
    <2>4. /\ AnswerOn(x, c) \in State /\ SameLife(x, AnswerOn(x, c))
          /\ AnswerOn(x, c).queries = x.queries
          /\ AnswerOn(x, c).conn = [x.conn EXCEPT ![c] = to]
      BY <2>1, <2>2, WithConnIs
    <2> QED BY <1>2, <2>1, <2>3, <2>4 DEF to
  <1> QED BY <1>1, <1>2

-----------------------------------------------------------------------------
(* The initial states.                                                     *)

LEMMA NewProcessIsGood ==
  ASSUME NEW r \in {"worker", "single", "helper", "custom"}, NEW l \in {"none", "wanted"}
  PROVE  NewProcess(r, l) \in State /\ Good(NewProcess(r, l))
  <1> DEFINE x == NewProcess(r, l)
  <1>1. x \in State BY StopConstants DEF NewProcess, State
  <1>2. Good(x)
    BY DEF NewProcess, Good, Still, Bound, OwedByQuery, StrandedEnd, Over
  <1> QED BY <1>1, <1>2

LEMMA InitInv == StopInit => Inv
  BY NewProcessIsGood DEF StopInit, Inv

-----------------------------------------------------------------------------
(* The events of the loop.                                                 *)

\* A state that differs from a good one in a connection, and in queries that are
\* owed to nobody else.
LEMMA StepIsGood ==
  ASSUME NEW x \in State, Good(x), NEW y \in State, SameLife(x, y),
         \A q \in y.queries : q \in x.queries \/ (q.bound /\ ~q.ofStop /\ q.mod \notin x.released),
         \A d \in Conn : /\ y.conn[d] = "owed" /\ ~Over(x) => \E q \in y.queries : q.conn = d
                         /\ x.phase = "finishing" /\ d \in x.stranded =>
                                y.conn[d] \in {x.conn[d], "closed"}
  PROVE  Good(y)
  <1> USE DEF SameLife
  <1>1. Still(y) BY DEF Good, Still, Over
  <1>2. Bound(y) BY DEF Good, Bound
  <1>3. OwedByQuery(y) BY DEF Good, OwedByQuery, Over
  <1>4. StrandedEnd(y)
    <2>1. x.stranded \in SUBSET Conn BY DEF State
    <2> QED BY <2>1 DEF Good, StrandedEnd
  <1> QED BY <1>1, <1>2, <1>3, <1>4 DEF Good

LEMMA ConnStepIsGood ==
  ASSUME NEW x \in State, Good(x), NEW c \in Conn, NEW to \in {"idle", "reading", "closed"},
         x.phase = "finishing" /\ c \in x.stranded => to = "closed"
  PROVE  Good(WithConn(x, c, to)) /\ SameLife(x, WithConn(x, c, to)) /\ WithConn(x, c, to) \in State
  <1> DEFINE y == WithConn(x, c, to)
  <1>1. /\ y \in State /\ SameLife(x, y) /\ y.queries = x.queries
        /\ y.conn = [x.conn EXCEPT ![c] = to]
    <2>1. to \in ConnStates BY DEF ConnStates
    <2> QED BY <2>1, WithConnIs
  <1>2. x.conn \in [Conn -> ConnStates] BY DEF State, ConnStates
  <1> HIDE DEF y
  <1>3. \A d \in Conn : /\ y.conn[d] = "owed" /\ ~Over(x) => \E q \in y.queries : q.conn = d
                        /\ x.phase = "finishing" /\ d \in x.stranded =>
                               y.conn[d] \in {x.conn[d], "closed"}
    <2> TAKE d \in Conn
    <2>1. CASE d = c BY <1>1, <1>2, <2>1
    <2>2. CASE d # c
      <3>1. y.conn[d] = x.conn[d] BY <1>1, <1>2, <2>2
      <3> QED BY <1>1, <3>1 DEF Good, OwedByQuery
    <2> QED BY <2>1, <2>2
  <1>4. Good(y) BY <1>1, <1>3, StepIsGood
  <1> QED BY <1>1, <1>4 DEF y

LEMMA ConnSteps ==
  ASSUME Inv, NEW c \in Conn, Accept(c) \/ RequestBegins(c) \/ Upgrade(c) \/ ClientLeaves(c)
  PROVE  Inv' /\ cs'.phase = cs.phase
  <1> USE DEF LoopRuns
  <1>1. cs \in State /\ Good(cs) BY DEF Inv
  <1>2. PICK to \in {"idle", "reading", "closed"} :
            /\ cs' = WithConn(cs, c, to)
            /\ cs.phase = "finishing" /\ c \in cs.stranded => to = "closed"
    <2>1. CASE Accept(c)
      BY <2>1 DEF Accept, WithConn, Inv, Good, Still
    <2>2. CASE RequestBegins(c)
      BY <2>2 DEF RequestBegins, WithConn, Inv, Good, StrandedEnd
    <2>3. CASE Upgrade(c) \/ ClientLeaves(c)
      BY <2>3 DEF Upgrade, ClientLeaves, WithConn
    <2> QED BY <2>1, <2>2, <2>3
  <1> QED BY <1>1, <1>2, ConnStepIsGood DEF Inv, SameLife

\* A handler asks the database for a client: the question is what it is owed by.
LEMMA AskingIsGood ==
  ASSUME NEW x \in State, Good(x), NEW c \in Conn, NEW m \in Modules,
         x.sent < MaxQueries, x.released = {}, x.conn[c] = "reading"
  PROVE  LET y == WithConn(Sends(x, m, c), c, "owed")
         IN  y \in State /\ Good(y) /\ SameLife(x, y)
  <1> DEFINE q == Asked(x, m, c)
             u == Sends(x, m, c)
             y == WithConn(u, c, "owed")
  <1>1. q.bound /\ ~q.ofStop /\ q.mod \notin x.released /\ q.conn = c BY AskedIs
  <1>2. u \in State /\ SameLife(x, u) /\ u.queries = x.queries \cup {q} /\ u.conn = x.conn
    BY SendsQuery
  <1> HIDE DEF q, u
  <1>3. /\ y \in State /\ SameLife(u, y) /\ y.queries = u.queries
        /\ y.conn = [u.conn EXCEPT ![c] = "owed"]
    BY <1>2, WithConnIs DEF ConnStates
  <1> HIDE DEF y
  <1>4. SameLife(x, y) BY <1>2, <1>3 DEF SameLife
  <1>5. x.conn \in [Conn -> ConnStates] BY DEF State, ConnStates
  <1>6. ~(x.phase = "finishing" /\ c \in x.stranded) BY DEF Good, StrandedEnd
  <1>7. \A d \in Conn : /\ y.conn[d] = "owed" /\ ~Over(x) => \E p \in y.queries : p.conn = d
                        /\ x.phase = "finishing" /\ d \in x.stranded =>
                               y.conn[d] \in {x.conn[d], "closed"}
    BY <1>1, <1>2, <1>3, <1>5, <1>6 DEF Good, OwedByQuery
  <1>8. Good(y)
    <2>1. \A p \in y.queries : p \in x.queries \/ (p.bound /\ ~p.ofStop /\ p.mod \notin x.released)
      BY <1>1, <1>2, <1>3
    <2> QED BY <1>3, <1>4, <1>7, <2>1, StepIsGood
  <1>9. y \in State /\ Good(y) /\ SameLife(x, y) BY <1>3, <1>4, <1>8
  <1> QED BY <1>9 DEF y, u

LEMMA RequestIsGood ==
  ASSUME Inv, NEW c \in Conn, NEW m \in Mod, NEW defer \in BOOLEAN, Request(c, m, defer)
  PROVE  Inv' /\ cs'.phase = cs.phase
  <1>1. cs \in State /\ Good(cs) /\ m \in Modules BY DEF Inv, Modules
  <1>2. cs.conn[c] = "reading" BY DEF Request
  <1>3. ~(cs.phase = "finishing" /\ c \in cs.stranded)
    BY <1>2 DEF Inv, Good, StrandedEnd
  <1>4. CASE cs.quiet
    <2>1. cs' = WithConn(cs, c, "closed") BY <1>4 DEF Request, WithConn
    <2> QED BY <1>1, <2>1, ConnStepIsGood DEF Inv, SameLife
  <1>5. CASE ~cs.quiet
    <2>1. cs.released = {} BY <1>5 DEF Inv, Good, Still
    <2>2. Enters(cs, m) = cs BY <1>1, <2>1, EntersSame
    <2>3. CASE cs' = WithConn(Sends(cs, m, c), c, "owed") /\ cs.sent < MaxQueries
      <3>1. cs' \in State /\ Good(cs') /\ SameLife(cs, cs')
        BY <1>1, <1>2, <2>1, <2>3, AskingIsGood
      <3> QED BY <3>1 DEF Inv, SameLife
    <2>4. CASE cs' = AnswerOn(cs, c)
      <3>1. cs' = WithConn(cs, c, IF cs.stopping THEN "closed" ELSE "idle")
        BY <1>2, <2>4, StopConstants DEF AnswerOn, WithConn
      <3>2. CASE cs.stopping
        BY <1>1, <1>3, <3>1, <3>2, ConnStepIsGood DEF Inv, SameLife
      <3>3. CASE ~cs.stopping
        BY <1>1, <1>3, <3>1, <3>3, ConnStepIsGood DEF Inv, SameLife
      <3> QED BY <3>2, <3>3
    <2> QED BY <1>5, <2>2, <2>3, <2>4 DEF Request, WithConn
  <1> QED BY <1>4, <1>5

LEMMA OutcomeCases ==
  ASSUME NEW x, NEW q, NEW next
  PROVE  LET u == WithQueries(x, x.queries \ {q})
             v == Enters(u, q.mod)
         IN  \/ ~(q.bound /\ ~q.ofStop) /\ Outcome(x, q, next) = u
             \/ /\ q.bound /\ ~q.ofStop /\ u.sent < MaxQueries
                /\ Outcome(x, q, next) = Sends(v, q.mod, q.conn)
             \/ q.bound /\ ~q.ofStop /\ Outcome(x, q, next) = AnswerOn(v, q.conn)
  BY Zenon DEF Outcome, WithQueries

\* The result of a query: only a handler of a module that is not released is called
\* for it, and it answers its client or asks again for it.
LEMMA OutcomeIsGood ==
  ASSUME NEW x \in State, Good(x), NEW q \in x.queries, NEW next, NEW y,
         y = Outcome(x, q, next)
  PROVE  y \in State /\ Good(y) /\ SameLife(x, y)
  <1> DEFINE u == WithQueries(x, x.queries \ {q})
  <1>1. q \in Query /\ q.mod \in Modules /\ q.conn \in Conn \cup {NoConn}
    BY DEF State, Query
  <1>2. /\ u \in State /\ SameLife(x, u) /\ u.queries = x.queries \ {q} /\ u.conn = x.conn
        /\ u.sent = x.sent
    BY WithQueriesIs DEF State
  <1>3. \/ ~(q.bound /\ ~q.ofStop) /\ y = u
        \/ q.bound /\ ~q.ofStop /\ u.sent < MaxQueries /\ y = Sends(Enters(u, q.mod), q.mod, q.conn)
        \/ q.bound /\ ~q.ofStop /\ y = AnswerOn(Enters(u, q.mod), q.conn)
    BY OutcomeCases
  <1> HIDE DEF u
  <1>4. q.bound /\ ~q.ofStop => Enters(u, q.mod) = u
    BY <1>2, EntersSame DEF Good, Bound, SameLife
  <1>5. CASE ~(q.bound /\ ~q.ofStop) /\ y = u
    <2>1. Over(x) BY <1>5 DEF Good, OwedByQuery
    <2>2. \A p \in y.queries : p \in x.queries BY <1>2, <1>5
    <2> QED BY <1>2, <1>5, <2>1, <2>2, StepIsGood
  <1>6. CASE q.bound /\ ~q.ofStop /\ u.sent < MaxQueries /\ y = Sends(u, q.mod, q.conn)
    <2> DEFINE r == Asked(u, q.mod, q.conn)
    <2>1. /\ r.conn = q.conn /\ r.bound /\ r.mod = q.mod /\ (r.ofStop <=> q.mod \in x.released)
      BY <1>1, <1>2, AskedIs DEF SameLife
    <2>2. /\ y \in State /\ SameLife(u, y) /\ y.queries = u.queries \cup {r} /\ y.conn = u.conn
      BY <1>1, <1>2, <1>6, SendsQuery
    <2> HIDE DEF r
    <2>3. SameLife(x, y) BY <1>2, <2>2 DEF SameLife
    <2>4. q.mod \notin x.released BY <1>6 DEF Good, Bound
    <2>5. \A p \in y.queries : p \in x.queries \/ (p.bound /\ ~p.ofStop /\ p.mod \notin x.released)
      BY <1>2, <2>1, <2>2, <2>4
    <2>6. \A d \in Conn : y.conn[d] = "owed" /\ ~Over(x) => \E p \in y.queries : p.conn = d
      <3> SUFFICES ASSUME NEW d \in Conn, x.conn[d] = "owed", ~Over(x)
                   PROVE  \E p \in y.queries : p.conn = d
        BY <1>2, <2>2
      <3>1. PICK p \in x.queries : p.conn = d BY DEF Good, OwedByQuery
      <3>2. CASE p = q BY <2>1, <2>2, <3>1, <3>2
      <3>3. CASE p # q BY <1>2, <2>2, <3>1, <3>3
      <3> QED BY <3>2, <3>3
    <2> QED BY <1>2, <2>2, <2>3, <2>5, <2>6, StepIsGood
  <1>7. CASE q.bound /\ ~q.ofStop /\ y = AnswerOn(u, q.conn)
    <2>1. /\ y \in State /\ SameLife(u, y) /\ y.queries = u.queries
          /\ \A d \in Conn : y.conn[d] = IF d # q.conn \/ u.conn[d] = "closed" THEN u.conn[d]
                                         ELSE IF u.stopping THEN "closed" ELSE "idle"
      BY <1>1, <1>2, <1>7, AnswerOnIs
    <2>2. SameLife(x, y) BY <1>2, <2>1 DEF SameLife
    <2>3. \A p \in y.queries : p \in x.queries BY <1>2, <2>1
    <2>4. \A d \in Conn : y.conn[d] = "owed" /\ ~Over(x) => \E p \in y.queries : p.conn = d
      <3> SUFFICES ASSUME NEW d \in Conn, y.conn[d] = "owed", ~Over(x)
                   PROVE  \E p \in y.queries : p.conn = d
        OBVIOUS
      <3>1. d # q.conn /\ x.conn[d] = "owed" BY <1>2, <2>1
      <3>2. PICK p \in x.queries : p.conn = d BY <3>1 DEF Good, OwedByQuery
      <3> QED BY <1>2, <2>1, <3>1, <3>2
    <2>5. x.phase = "finishing" => u.stopping BY <1>2 DEF Good, Still, SameLife
    <2>6. \A d \in Conn : x.phase = "finishing" /\ d \in x.stranded => y.conn[d] \in {x.conn[d], "closed"}
      BY <1>2, <2>1, <2>5
    <2> QED BY <2>1, <2>2, <2>3, <2>4, <2>6, StepIsGood
  <1> QED BY <1>3, <1>4, <1>5, <1>6, <1>7

\* A module is entered, and may ask the database for itself.
LEMMA BeatsIsGood ==
  ASSUME Inv, NEW m \in Modules, NEW works \in BOOLEAN, Beats(m, works), m \notin cs.released
  PROVE  Inv' /\ cs'.phase = cs.phase
  <1>1. Enters(cs, m) = cs BY EntersSame DEF Inv
  <1>2. cs' = cs \/ cs' = Sends(cs, m, NoConn) BY <1>1 DEF Beats
  <1>3. Sends(cs, m, NoConn) \in State /\ Good(Sends(cs, m, NoConn)) /\ SameLife(cs, Sends(cs, m, NoConn))
    BY SendsIsGood DEF Inv
  <1> QED BY <1>2, <1>3 DEF Inv, SameLife

LEMMA WorkSteps ==
  ASSUME Inv,
         \/ \E m \in Mod \cup {Proc} : Notify(m) \/ GetsBusy(m) \/ GetsDone(m)
         \/ \E m \in Mod, works \in BOOLEAN : Heartbeat(m, works)
         \/ \E works \in BOOLEAN : ProcessHeartbeat(works)
         \/ \E q \in cs.queries, next \in BOOLEAN : DbAnswers(q, next)
         \/ Reload
  PROVE  Inv' /\ cs'.phase = cs.phase
  <1>1. cs \in State /\ Good(cs) /\ Still(cs) BY DEF Inv, Good
  <1>2. ASSUME NEW m \in Mod \cup {Proc}, Notify(m) PROVE Inv' /\ cs'.phase = cs.phase
    <2>1. m \in Modules BY DEF Modules
    <2>2. Beats(m, TRUE) /\ m \notin cs.released BY <1>1, <1>2 DEF Notify, Beats, Still
    <2> QED BY <2>1, <2>2, BeatsIsGood
  <1>3. ASSUME NEW m \in Mod, NEW works \in BOOLEAN, Heartbeat(m, works)
        PROVE  Inv' /\ cs'.phase = cs.phase
    BY <1>1, <1>3, BeatsIsGood DEF Heartbeat, Still, Modules
  <1>4. ASSUME NEW works \in BOOLEAN, ProcessHeartbeat(works) PROVE Inv' /\ cs'.phase = cs.phase
    BY <1>1, <1>4, BeatsIsGood DEF ProcessHeartbeat, Still, Modules
  <1>5. ASSUME NEW q \in cs.queries, NEW next \in BOOLEAN, DbAnswers(q, next)
        PROVE  Inv' /\ cs'.phase = cs.phase
    BY <1>1, <1>5, OutcomeIsGood DEF DbAnswers, Inv, SameLife
  <1>6. ASSUME NEW m \in Mod \cup {Proc}, NEW b \in SUBSET Modules, cs' = [cs EXCEPT !.busy = b],
               cs.released = {} \/ b = {}
        PROVE  Inv' /\ cs'.phase = cs.phase
    <2>1. /\ cs' \in State /\ cs'.phase = cs.phase /\ cs'.late = cs.late /\ cs'.stopping = cs.stopping
          /\ cs'.muted = cs.muted /\ cs'.quiet = cs.quiet /\ cs'.busy = b
          /\ cs'.released = cs.released /\ cs'.queries = cs.queries /\ cs'.round = cs.round
          /\ cs'.db = cs.db /\ cs'.stranded = cs.stranded /\ cs'.conn = cs.conn
      BY <1>1, <1>6 DEF State
    <2>2. Still(cs') BY <1>1, <1>6, <2>1 DEF Still, Over
    <2>3. Bound(cs') /\ OwedByQuery(cs') /\ StrandedEnd(cs')
      BY <1>1, <2>1 DEF Good, Bound, OwedByQuery, StrandedEnd, Over
    <2> QED BY <1>1, <2>1, <2>2, <2>3 DEF Inv, Good
  <1>7. ASSUME NEW m \in Mod \cup {Proc}, GetsBusy(m) PROVE Inv' /\ cs'.phase = cs.phase
    <2>1. cs.released = {} BY <1>1, <1>7 DEF GetsBusy, Still, Over
    <2>2. cs.busy \cup {m} \in SUBSET Modules BY <1>1 DEF State, Modules
    <2> QED BY <1>6, <1>7, <2>1, <2>2 DEF GetsBusy
  <1>8. ASSUME NEW m \in Mod \cup {Proc}, GetsDone(m) PROVE Inv' /\ cs'.phase = cs.phase
    <2>1. cs.released = {} BY <1>1, <1>8 DEF GetsDone, Still
    <2>2. Enters(cs, m) = cs BY <1>1, <2>1, EntersSame
    <2>3. cs.busy \ {m} \in SUBSET Modules /\ cs' = [cs EXCEPT !.busy = cs.busy \ {m}]
      BY <1>1, <1>8, <2>2 DEF State, GetsDone
    <2> QED BY <1>6, <2>1, <2>3
  <1>9. CASE Reload
    <2>1. cs.released = {} BY <1>1, <1>9 DEF Reload, Still
    <2>2. cs' = cs BY <1>1, <1>9, <2>1 DEF Reload, State
    <2> QED BY <2>2 DEF Inv
  <1> QED BY <1>2, <1>3, <1>4, <1>5, <1>7, <1>8, <1>9

-----------------------------------------------------------------------------
(* Stopping.                                                               *)

\* What no change of the phase, the lock, a signal or the database touches.
SameWork(x, y) ==
    /\ y.late = x.late /\ y.stopping = x.stopping /\ y.muted = x.muted /\ y.quiet = x.quiet
    /\ y.busy = x.busy /\ y.released = x.released /\ y.round = x.round
    /\ y.stranded = x.stranded /\ y.conn = x.conn /\ y.queries = x.queries

LEMMA SameWorkIsGood ==
  ASSUME NEW x \in State, Good(x), NEW y, SameWork(x, y), x.db = "down" => y.db = "down",
         \/ y.phase = x.phase
         \/ x.phase \in {"starting", "standby"} /\ y.phase \in {"standby", "serving", "gone"}
         \/ x.phase = "draining" /\ y.phase = "gone"
  PROVE  Good(y)
  <1> USE DEF SameWork
  <1>1. Still(y) BY DEF Good, Still, Over
  <1>2. Bound(y) BY DEF Good, Bound
  <1>3. OwedByQuery(y) BY DEF Good, OwedByQuery, Over
  <1>4. StrandedEnd(y) BY DEF Good, StrandedEnd
  <1> QED BY <1>1, <1>2, <1>3, <1>4 DEF Good

LEMMA PhaseSteps ==
  ASSUME Inv,
         \/ Starts \/ StartFails \/ Candidate \/ StandbyEnds \/ Stalls \/ Confirmed \/ RoleLost
         \/ \E starts \in BOOLEAN : TakesRole(starts)
         \/ Signal \/ Interrupt \/ DrainEnds \/ DrainTime
         \/ \E how \in {"down", "mute"} : DbGone(how)
  PROVE  Inv' /\ (cs'.phase # cs.phase => cs.phase # "finishing")
  <1>1. cs \in State /\ Good(cs) BY DEF Inv
  <1> USE <1>1 DEF State, SameWork, StandsBy, LoopRuns
  <1>2. /\ cs' \in State /\ SameWork(cs, cs') /\ (cs.db = "down" => cs'.db = "down")
        /\ \/ cs'.phase = cs.phase
           \/ cs.phase \in {"starting", "standby"} /\ cs'.phase \in {"standby", "serving", "gone"}
           \/ cs.phase = "draining" /\ cs'.phase = "gone"
    <2>1. CASE Starts \/ StartFails \/ Candidate \/ StandbyEnds
      BY <2>1 DEF Starts, StartFails, Candidate, StandbyEnds
    <2>2. CASE Stalls \/ Confirmed BY <2>2 DEF Stalls, Confirmed
    <2>3. CASE RoleLost BY ZenonT(60), <2>3 DEF RoleLost
    <2>4. ASSUME NEW starts \in BOOLEAN, TakesRole(starts)
          PROVE  /\ cs' \in State /\ SameWork(cs, cs') /\ (cs.db = "down" => cs'.db = "down")
                 /\ \/ cs'.phase = cs.phase
                    \/ cs.phase \in {"starting", "standby"} /\ cs'.phase = "serving"
      <3>1. CASE starts BY ZenonT(60), <2>4, <3>1 DEF TakesRole
      <3>2. CASE ~starts BY <2>4, <3>2 DEF TakesRole
      <3> QED BY <3>1, <3>2
    <2>5. CASE Signal BY ZenonT(60), <2>5 DEF Signal
    <2>6. CASE Interrupt BY <2>6 DEF Interrupt
    <2>7. CASE DrainEnds \/ DrainTime BY ZenonT(60), <2>7 DEF DrainEnds, DrainTime
    <2>8. CASE \E how \in {"down", "mute"} : DbGone(how) BY <2>8 DEF DbGone
    <2> QED BY <2>1, <2>2, <2>3, <2>4, <2>5, <2>6, <2>7, <2>8
  <1>3. Good(cs') BY <1>2, SameWorkIsGood
  <1> QED BY <1>2, <1>3 DEF Inv

\* stop_work(): from the detach on no query has its handler but what on_stop() sends.
LEMMA ReleasedIsGood ==
  ASSUME NEW x \in State, Good(x), x.phase = "finishing", cs \in State, NEW signsOut \in BOOLEAN
  PROVE  Released(x, signsOut) \in State /\ Good(Released(x, signsOut))
  <1> DEFINE u == [x EXCEPT !.quiet = TRUE, !.muted = TRUE, !.busy = {}, !.cut = FALSE,
                            !.queries = {[q EXCEPT !.bound = FALSE] : q \in x.queries},
                            !.released = Mods, !.phase = "draining"]
             m == CHOOSE m \in Mods : TRUE
             v == IF signsOut THEN Sends(u, m, NoConn) ELSE u
  <1>1. Released(x, signsOut) = IF Outstanding(v) = {} THEN [v EXCEPT !.phase = "gone"] ELSE v
    BY DEF Released
  <1>2. Mods \in SUBSET Modules /\ m \in Modules BY ModsAre
  <1>3. {[q EXCEPT !.bound = FALSE] : q \in x.queries} \in SUBSET Query
    <2>1. \A q \in Query : [q EXCEPT !.bound = FALSE] \in Query BY DEF Query
    <2>2. x.queries \in SUBSET Query BY DEF State
    <2> QED BY <2>1, <2>2
  <1>4. u \in State BY <1>2, <1>3 DEF State
  <1>5. /\ u.phase = "draining" /\ u.late = x.late /\ u.stopping = x.stopping
        /\ u.quiet = TRUE /\ u.muted = TRUE /\ u.busy = {}
        /\ u.queries = {[q EXCEPT !.bound = FALSE] : q \in x.queries}
    BY DEF State
  <1> HIDE DEF u, m
  <1>6. \A q \in u.queries : ~q.bound BY <1>5 DEF State, Query
  <1>7. Good(u)
    <2>1. Still(u) BY <1>5 DEF Good, Still, Over
    <2>2. Bound(u) BY <1>6 DEF Bound
    <2>3. OwedByQuery(u) /\ StrandedEnd(u) BY <1>5 DEF OwedByQuery, Over, StrandedEnd
    <2> QED BY <1>5, <2>1, <2>2, <2>3 DEF Good
  <1>8. v \in State /\ Good(v) /\ v.phase = "draining"
    BY <1>2, <1>4, <1>5, <1>7, SendsIsGood DEF SameLife
  <1> HIDE DEF v
  <1> DEFINE w == [v EXCEPT !.phase = "gone"]
  <1>9. w \in State /\ SameWork(v, w) /\ w.phase = "gone" /\ w.db = v.db
    BY <1>8 DEF State, SameWork
  <1> HIDE DEF w
  <1>10. Good(w) BY <1>8, <1>9, SameWorkIsGood
  <1> QED BY <1>1, <1>8, <1>9, <1>10 DEF w

\* loop.run() is over: who is owed an answer is owed it by a query, in round 0.
LEMMA LoopEndsIsGood ==
  ASSUME Inv, NEW works \in BOOLEAN, NEW signsOut \in BOOLEAN, LoopEnds(works, signsOut)
  PROVE  Inv'
  <1> DEFINE conns == [c \in Conn |-> IF cs.conn[c] = "idle" THEN "closed" ELSE cs.conn[c]]
             owed == IF cs.db = "down" THEN {c \in Conn : cs.conn[c] = "owed"} ELSE {}
             u == [cs EXCEPT !.stopping = TRUE, !.muted = TRUE, !.cut = FALSE, !.phase = "finishing",
                             !.conn = conns, !.stranded = owed]
             m == CHOOSE m \in Mods : TRUE
             v == IF works THEN Sends(Enters(u, m), m, NoConn) ELSE u
  <1>1. cs \in State /\ Good(cs) /\ cs.phase = "serving" BY DEF Inv, LoopEnds
  <1>2. cs' = IF Done(v) THEN Released(v, signsOut) ELSE v BY DEF LoopEnds
  <1>3. m \in Modules BY <1>1, ModsAre
  <1>4. conns \in [Conn -> ConnStates] /\ cs.conn \in [Conn -> ConnStates]
    BY <1>1 DEF State, ConnStates
  <1>5. owed \in SUBSET Conn OBVIOUS
  <1>6. /\ \A c \in Conn : conns[c] = "owed" <=> cs.conn[c] = "owed"
        /\ \A c \in owed : cs.conn[c] = "owed" /\ cs.db = "down"
    OBVIOUS
  <1> HIDE DEF conns, owed, m
  <1>7. u \in State BY <1>1, <1>4, <1>5 DEF State, ConnStates
  <1>8. /\ u.phase = "finishing" /\ u.late = cs.late /\ u.stopping = TRUE
        /\ u.released = cs.released /\ u.queries = cs.queries /\ u.round = cs.round
        /\ u.db = cs.db /\ u.stranded = owed /\ u.conn = conns
    BY <1>1 DEF State
  <1> HIDE DEF u
  <1>9. u.released = {} /\ u.round = 0 /\ u.late = {}
    BY <1>1, <1>8 DEF Good, Still, Over, StrandedEnd
  <1>10. Good(u)
    <2>1. Still(u) BY <1>8, <1>9 DEF Still
    <2>2. Bound(u) BY <1>9 DEF Bound
    <2>3. OwedByQuery(u) BY <1>1, <1>6, <1>8 DEF Good, OwedByQuery, Over
    <2>4. StrandedEnd(u)
      <3>1. \A c \in u.stranded : u.conn[c] = "owed" /\ u.db = "down" BY <1>5, <1>6, <1>8
      <3> QED BY <1>8, <1>9, <3>1 DEF StrandedEnd
    <2> QED BY <1>9, <2>1, <2>2, <2>3, <2>4 DEF Good
  <1>11. Enters(u, m) = u BY <1>7, <1>9, EntersSame
  <1>12. v \in State /\ Good(v) /\ v.phase = "finishing"
    BY <1>3, <1>7, <1>8, <1>10, <1>11, SendsIsGood DEF SameLife
  <1> HIDE DEF v
  <1> QED BY <1>1, <1>2, <1>12, ReleasedIsGood DEF Inv

LEMMA FinishEndsIsGood ==
  ASSUME Inv, NEW signsOut \in BOOLEAN, FinishEnds(signsOut)
  PROVE  Inv'
  BY ReleasedIsGood DEF Inv, FinishEnds

\* fail_stranded(): nobody is owed an answer after it.
LEMMA StrandedIsGood ==
  ASSUME NEW x \in State, x.late = {}, Still(x), OwedByQuery(x),
         x.phase = "finishing", x.db = "down", \A c \in x.stranded : x.conn[c] \in {"owed", "closed"}
  PROVE  /\ Stranded(x) \in State /\ Good(Stranded(x)) /\ Stranded(x).phase = "finishing"
         /\ \A c \in Conn : Stranded(x).conn[c] # "owed"
  <1> DEFINE y == Stranded(x)
             qs == {q \in x.queries : ~q.bound}
             l == x.late \cup {q.mod : q \in {p \in Outstanding(x) : p.mod \in x.released}}
             conns == [c \in Conn |-> IF \E q \in Outstanding(x) : q.conn = c
                                      THEN "closed" ELSE x.conn[c]]
  <1>1. x.released = {} /\ x.late = {} /\ x.stopping BY DEF Still, Over
  <1>2. l = {} BY <1>1
  <1>3. qs = {} /\ Outstanding(x) = x.queries BY DEF OwedByQuery, Over, Outstanding
  <1>4. x.conn \in [Conn -> ConnStates] BY DEF State, ConnStates
  <1>5. conns \in [Conn -> ConnStates] BY <1>4 DEF ConnStates
  <1>6. \A c \in Conn : conns[c] \in {x.conn[c], "closed"} /\ conns[c] # "owed"
    BY <1>3 DEF OwedByQuery, Over
  <1>7. y = [x EXCEPT !.queries = qs, !.late = l, !.conn = conns] BY DEF Stranded
  <1> HIDE DEF y, qs, l, conns
  <1>8. y \in State BY <1>2, <1>3, <1>5, <1>7 DEF State, ConnStates
  <1>9. /\ y.phase = x.phase /\ y.late = {} /\ y.stopping = x.stopping
        /\ y.muted = x.muted /\ y.quiet = x.quiet /\ y.busy = x.busy
        /\ y.released = x.released /\ y.round = x.round /\ y.db = x.db /\ y.stranded = x.stranded
        /\ y.queries = {} /\ y.conn = conns
    BY <1>2, <1>3, <1>7 DEF State
  <1>10. Still(y) /\ Bound(y) BY <1>1, <1>9 DEF Still, Bound
  <1>11. OwedByQuery(y) BY <1>6, <1>9 DEF OwedByQuery
  <1>12. StrandedEnd(y)
    <2>1. x.stranded \in SUBSET Conn BY DEF State
    <2>2. \A c \in x.stranded : conns[c] = "closed" BY <1>6, <2>1
    <2> QED BY <1>9, <2>2 DEF StrandedEnd
  <1> QED BY <1>6, <1>8, <1>9, <1>10, <1>11, <1>12 DEF Good, y

LEMMA RoundIsGood ==
  ASSUME Inv, Round
  PROVE  Inv' /\ cs'.phase = "finishing"
  <1> DEFINE u == [cs EXCEPT !.round = @ + 1]
  <1>1. cs \in State /\ Good(cs) /\ cs.phase = "finishing" /\ cs.round \in Nat /\ cs.round < Rounds
    BY StopConstants DEF Inv, Round, State
  <1>2. u \in State BY <1>1, StopConstants DEF State
  <1>3. /\ u.phase = "finishing" /\ u.late = {} /\ u.stopping = cs.stopping
        /\ u.muted = cs.muted /\ u.quiet = cs.quiet /\ u.busy = cs.busy
        /\ u.released = cs.released /\ u.round = cs.round + 1 /\ u.db = cs.db
        /\ u.stranded = cs.stranded /\ u.queries = cs.queries /\ u.conn = cs.conn
    BY <1>1 DEF State, Good
  <1>4. \/ cs.db = "down" /\ cs' = Stranded(u)
        \/ ~(cs.db = "down" /\ u.round = 3) /\ cs' = u
    BY DEF Round
  <1> HIDE DEF u
  <1>5. Still(u) /\ Bound(u) /\ OwedByQuery(u)
    BY <1>1, <1>3 DEF Good, Still, Bound, OwedByQuery, Over
  <1>6. \A c \in u.stranded : u.conn[c] \in {"owed", "closed"}
    BY <1>1, <1>3 DEF Good, StrandedEnd
  <1>7. CASE cs.db = "down" /\ cs' = Stranded(u)
    BY <1>2, <1>3, <1>5, <1>6, <1>7, StrandedIsGood DEF Inv
  <1>8. CASE ~(cs.db = "down" /\ u.round = 3) /\ cs' = u
    <2>1. StrandedEnd(u) BY <1>1, <1>3, <1>8 DEF Good, StrandedEnd
    <2> QED BY <1>2, <1>3, <1>5, <1>8, <2>1 DEF Inv, Good
  <1> QED BY <1>4, <1>7, <1>8

-----------------------------------------------------------------------------
(* The invariant.                                                          *)

\* Every step keeps the invariant, and only one ends the finish of the work.
LEMMA InvStep ==
  ASSUME Inv, [StopNext]_cs
  PROVE  /\ Inv'
         /\ cs.phase = "finishing" /\ cs'.phase # "finishing" =>
                \E signsOut \in BOOLEAN : FinishEnds(signsOut)
  <1>1. CASE \E c \in Conn : Accept(c) \/ RequestBegins(c) \/ Upgrade(c) \/ ClientLeaves(c)
    BY <1>1, ConnSteps
  <1>2. CASE \E c \in Conn, m \in Mod, defer \in BOOLEAN : Request(c, m, defer)
    BY <1>2, RequestIsGood
  <1>3. CASE \/ \E m \in Mod \cup {Proc} : Notify(m) \/ GetsBusy(m) \/ GetsDone(m)
             \/ \E m \in Mod, works \in BOOLEAN : Heartbeat(m, works)
             \/ \E works \in BOOLEAN : ProcessHeartbeat(works)
             \/ \E q \in cs.queries, next \in BOOLEAN : DbAnswers(q, next)
             \/ Reload
    BY <1>3, WorkSteps
  <1>4. CASE \/ Starts \/ StartFails \/ Candidate \/ StandbyEnds \/ Stalls \/ Confirmed \/ RoleLost
             \/ \E starts \in BOOLEAN : TakesRole(starts)
             \/ Signal \/ Interrupt \/ DrainEnds \/ DrainTime
             \/ \E how \in {"down", "mute"} : DbGone(how)
    BY <1>4, PhaseSteps
  <1>5. CASE \E works, signsOut \in BOOLEAN : LoopEnds(works, signsOut)
    BY <1>5, LoopEndsIsGood DEF LoopEnds
  <1>6. CASE \E signsOut \in BOOLEAN : FinishEnds(signsOut)
    BY <1>6, FinishEndsIsGood
  <1>7. CASE Round BY <1>7, RoundIsGood
  <1>8. CASE UNCHANGED cs BY <1>8 DEF Inv
  <1> QED BY <1>1, <1>2, <1>3, <1>4, <1>5, <1>6, <1>7, <1>8 DEF StopNext

\* The inductive invariant of a process that stops.
THEOREM Invariant == StopSpec => []Inv
  <1>1. Inv /\ [StopNext]_cs => Inv' BY InvStep
  <1> QED BY InitInv, <1>1, PTL DEF StopSpec

\* No module is entered after its on_stop(), by whatever is still on its way then
\* and in whatever order it comes.
THEOREM NoModuleAfterStopHolds == StopSpec => []NoModuleAfterStop
  <1>1. Inv => NoModuleAfterStop BY DEF Inv, Good, NoModuleAfterStop
  <1> QED BY Invariant, <1>1, PTL

\* No client that was owed an answer, with the database gone, as the stop began
\* loses it to the detach, however many they are and whenever the database went,
\* unless the process was cut short.
THEOREM StrandedAreAnsweredAlways == StopSpec => StrandedAreAnswered
  <1> DEFINE A == (cs.phase = "finishing" /\ cs'.phase # "finishing" /\ ~cs.cut)
                      => \A c \in cs.stranded : cs.conn[c] # "owed"
  <1>1. ASSUME Inv, [StopNext]_cs PROVE [A]_cs
    <2> SUFFICES ASSUME cs.phase = "finishing", cs'.phase # "finishing", ~cs.cut,
                        NEW c \in cs.stranded
                 PROVE  cs.conn[c] # "owed"
      OBVIOUS
    <2>1. cs.round = Rounds \/ Busy(cs) = {} BY <1>1, InvStep DEF FinishEnds, Done
    <2>2. cs.round < 3 \/ cs.conn[c] = "closed" BY <1>1 DEF Inv, Good, StrandedEnd
    <2>3. c \in Conn BY <1>1 DEF Inv, State
    <2> QED BY <2>1, <2>2, <2>3, StopConstants DEF Busy
  <1>2. StopSpec => [][A]_cs BY Invariant, <1>1, PTL DEF StopSpec
  <1> QED BY <1>2 DEF StrandedAreAnswered

-----------------------------------------------------------------------------
(* The log: the inductive invariant.                                       *)

Pcs == {"idle", "converts", "rotates", "opens", "writes", "compresses", "finishes", "gives up"}
Files == Inodes \cup {NoFile}
LineSets == {some \in SUBSET Nat : IsFiniteSet(some)}

LogState ==
    [ names : [Names -> Files], lines : [Files -> LineSets],
      fd : [Writer -> Files], size : [Writer -> Nat], lock : [Writer -> {"none", "sh", "ex"}],
      pc : [Writer -> Pcs], staged : [Writer -> Files], next : Nat, dropped : SUBSET Nat,
      faults : Nat, compress : BOOLEAN ]

\* A file has one name.
OneName(x) == \A a \in Names, b \in Names : x.names[a] = x.names[b] /\ x.names[a] # NoFile => a = b

\* A number that a staged file is called by, or is to be, is taken: by that file, or
\* by the one logrotate has moved.
Called(x, s) ==
    \/ x.names[Staged(s)] # NoFile \/ x.names[StagedGz(s)] # NoFile
    \/ \E p \in Writer : x.staged[p] = s

CallsTaken(x) == \A s \in Inodes : Called(x, s) => x.names[Staged(s)] = s \/ x.names[Moved] = s

NothingLost(x) == \A n \in Nat : n >= 1 /\ n < x.next => n \in Kept(x) \cup x.dropped

Directory(x) ==
    OneName(x) /\ CallsTaken(x) /\ x.lines[NoFile] = {} /\ NothingLost(x)

\* The exclusive lock is held alone, and no two processes compress one file.
Alone(x) == \A p \in Writer, q \in Writer : x.lock[p] = "ex" /\ p # q => x.lock[q] = "none"
OwnStaged(x) == \A p \in Writer, q \in Writer : x.staged[p] = x.staged[q] /\ x.staged[p] # NoFile => p = q

Old(x, p) == IF x.compress THEN Staged(x.fd[p]) ELSE Backup(1, "plain")

\* What a process has locked, and where the file it has open is, wherever it stands.
Aims(x, p) ==
    /\ x.fd[p] # NoFile
    /\ x.pc[p] = "writes" =>
         x.lock[p] \in {"sh", "ex"} /\ x.fd[p] \in {x.names[Log], x.names[Moved]}
    /\ x.pc[p] = "rotates" =>
         /\ x.lock[p] = "ex" /\ x.fd[p] \in {x.names[Log], x.names[Moved]}
         /\ ~Called(x, x.fd[p])
    /\ x.pc[p] = "opens" =>
         /\ x.lock[p] = "ex" /\ x.fd[p] \in {x.names[Old(x, p)], x.names[Moved]}
         /\ x.staged[p] = (IF x.compress THEN x.fd[p] ELSE NoFile)
         /\ x.lines[x.names[Log]] = {}

\* What it is to compress, until the copy is in its place.
Keeps(x, p) ==
    LET s == x.staged[p] IN
    /\ x.pc[p] \in {"compresses", "finishes", "gives up"} => s # NoFile
    /\ s # NoFile =>
         /\ x.pc[p] \in {"opens", "writes", "compresses", "finishes", "gives up"}
         /\ x.pc[p] # "finishes" => x.names[StagedGz(s)] = NoFile
         /\ x.pc[p] = "finishes" =>
              /\ x.names[StagedGz(s)] # NoFile
              /\ x.lines[x.names[Staged(s)]] \subseteq x.lines[x.names[StagedGz(s)]]

LogGood(x) ==
    /\ x \in LogState /\ Directory(x) /\ Alone(x) /\ OwnStaged(x)
    /\ \A p \in Writer : Aims(x, p) /\ Keeps(x, p)

LogInv == LogGood(lg)

-----------------------------------------------------------------------------
(* Names, and the file system.                                             *)

LEMMA NameFacts ==
    /\ Log \in Names /\ Moved \in Names /\ Backup(1, "plain") \in Names /\ Backup(1, "gz") \in Names
    /\ \A s \in Inodes : Staged(s) \in Names /\ StagedGz(s) \in Names
    /\ Log[1] = "log" /\ Moved[1] = "moved"
    /\ \A i, e : Backup(i, e)[1] = e /\ Backup(i, e)[2] = i
    /\ \A s : Staged(s)[1] = "staged" /\ StagedGz(s)[1] = "staged.gz"
    /\ \A s, t : (Staged(s) = Staged(t) => s = t) /\ (StagedGz(s) = StagedGz(t) => s = t)
  BY LogConstants DEF Names, Kinds, Log, Moved, Backup, Staged, StagedGz

\* The backups of a kind, and what is none.
LEMMA BackupNames ==
    ASSUME NEW e \in Kinds
    PROVE  /\ \A n \in Names : n[1] = e => \E i \in 1 .. MaxBackups : n = Backup(i, e)
           /\ \A i \in 1 .. MaxBackups : Backup(i, e) \in Names
           /\ 1 \in 1 .. MaxBackups
  BY LogConstants DEF Names, Kinds, Log, Moved, Backup, Staged, StagedGz

LEMMA KeptIs ==
    ASSUME NEW x
    PROVE  \A l : l \in Kept(x) <=>
               \E n \in Names : x.names[n] # NoFile /\ l \in x.lines[x.names[n]]
  BY DEF Kept, NamedFiles

\* A free file is not in the directory, and nobody has it open.
LEMMA UnusedIs ==
    ASSUME NEW x, Unused(x) # {}
    PROVE  /\ UnusedInode(x) \in Inodes /\ UnusedInode(x) # NoFile
           /\ \A n \in Names : x.names[n] # UnusedInode(x)
           /\ \A p \in Writer : x.fd[p] # UnusedInode(x)
  <1>1. UnusedInode(x) \in Unused(x)
    BY DEF UnusedInode
  <1> QED
    BY <1>1, LogConstants DEF Unused, NamedFiles

LEMMA FieldsAre ==
    ASSUME NEW x \in LogState
    PROVE  /\ x.names \in [Names -> Files] /\ x.lines \in [Files -> LineSets]
           /\ x.fd \in [Writer -> Files] /\ x.size \in [Writer -> Nat]
           /\ x.lock \in [Writer -> {"none", "sh", "ex"}]
           /\ x.pc \in [Writer -> Pcs] /\ x.staged \in [Writer -> Files]
           /\ x.next \in Nat /\ x.dropped \in SUBSET Nat /\ x.faults \in Nat
           /\ x.compress \in BOOLEAN
  BY DEF LogState

\* Two states that differ in names and lines at most, and agree on the rest.
SameProcs(x, y) ==
    /\ y.fd = x.fd /\ y.size = x.size /\ y.lock = x.lock /\ y.pc = x.pc
    /\ y.staged = x.staged /\ y.compress = x.compress

SameLines(x, y) == y.lines = x.lines /\ y.next = x.next /\ y.dropped = x.dropped

\* What only concerns one process.
OnlyOf(x, y, p) ==
    /\ y.names = x.names /\ SameLines(x, y) /\ y.compress = x.compress
    /\ \A q \in Writer : q # p => /\ y.fd[q] = x.fd[q] /\ y.pc[q] = x.pc[q]
                                /\ y.lock[q] = x.lock[q] /\ y.staged[q] = x.staged[q]

LEMMA GoesIs ==
    ASSUME NEW x \in LogState, NEW p \in Writer, NEW pc \in Pcs
    PROVE  LET y == Goes(x, p, pc)
           IN  /\ y \in LogState /\ OnlyOf(x, y, p) /\ SameLines(x, y) /\ y.names = x.names
               /\ y.fd = x.fd /\ y.size = x.size /\ y.lock = x.lock /\ y.staged = x.staged
               /\ y.compress = x.compress /\ y.faults = x.faults
               /\ y.pc[p] = pc
  BY DEF Goes, LogState, OnlyOf, SameLines

LEMMA LocksIs ==
    ASSUME NEW x \in LogState, NEW p \in Writer, NEW l \in {"none", "sh", "ex"}
    PROVE  LET y == Locks(x, p, l)
           IN  /\ y \in LogState /\ OnlyOf(x, y, p) /\ SameLines(x, y) /\ y.names = x.names
               /\ y.fd = x.fd /\ y.size = x.size /\ y.pc = x.pc /\ y.staged = x.staged
               /\ y.compress = x.compress /\ y.faults = x.faults
               /\ y.lock[p] = l
  BY DEF Locks, LogState, OnlyOf, SameLines

LEMMA StagesIs ==
    ASSUME NEW x \in LogState, NEW p \in Writer, NEW n \in Files
    PROVE  LET y == Stages(x, p, n)
           IN  /\ y \in LogState /\ OnlyOf(x, y, p) /\ SameLines(x, y) /\ y.names = x.names
               /\ y.fd = x.fd /\ y.size = x.size /\ y.pc = x.pc /\ y.lock = x.lock
               /\ y.compress = x.compress /\ y.faults = x.faults
               /\ y.staged[p] = n
  BY DEF Stages, LogState, OnlyOf, SameLines

LEMMA ClosesIs ==
    ASSUME NEW x \in LogState, NEW p \in Writer
    PROVE  LET y == Closes(x, p)
           IN  /\ y \in LogState /\ OnlyOf(x, y, p) /\ SameLines(x, y) /\ y.names = x.names
               /\ y.staged = x.staged /\ y.size = x.size /\ y.pc = x.pc /\ y.lock = x.lock
               /\ y.compress = x.compress /\ y.faults = x.faults
               /\ y.fd[p] = NoFile
  BY DEF Closes, LogState, OnlyOf, SameLines, Files

LEMMA FaultIs ==
    ASSUME NEW x \in LogState
    PROVE  LET y == Fault(x)
           IN  y \in LogState /\ SameLines(x, y) /\ SameProcs(x, y) /\ y.names = x.names
  BY DEF Fault, LogState, SameLines, SameProcs

LEMMA DropsIs ==
    ASSUME NEW x \in LogState, NEW some \in SUBSET Nat
    PROVE  LET y == Drops(x, some)
           IN  /\ y \in LogState /\ SameProcs(x, y) /\ y.names = x.names /\ y.lines = x.lines
               /\ y.next = x.next /\ y.dropped = x.dropped \cup some
  BY DEF Drops, LogState, SameProcs

LEMMA RenameIs ==
    ASSUME NEW x \in LogState, NEW from \in Names, NEW to \in Names, from # to
    PROVE  LET y == Rename(x, from, to)
           IN  /\ y \in LogState /\ SameProcs(x, y) /\ SameLines(x, y)
               /\ x.names[from] = NoFile => y.names = x.names
               /\ x.names[from] # NoFile =>
                    /\ y.names[to] = x.names[from] /\ y.names[from] = NoFile
                    /\ \A n \in Names : n # to /\ n # from => y.names[n] = x.names[n]
  <1> DEFINE z == [x EXCEPT !.names[to] = x.names[from], !.names[from] = NoFile]
  <1>1. /\ z \in LogState /\ SameProcs(x, z) /\ SameLines(x, z)
        /\ z.names[to] = x.names[from] /\ z.names[from] = NoFile
        /\ \A n \in Names : n # to /\ n # from => z.names[n] = x.names[n]
    BY DEF LogState, SameProcs, SameLines, Files
  <1>2. x.names[from] # NoFile => Rename(x, from, to) = z
    BY DEF Rename
  <1>3. x.names[from] = NoFile => Rename(x, from, to) = x
    BY DEF Rename
  <1>4. SameProcs(x, x) /\ SameLines(x, x)
    BY DEF SameProcs, SameLines
  <1> HIDE DEF z
  <1> QED
    BY <1>1, <1>2, <1>3, <1>4

LEMMA UnlinkIs ==
    ASSUME NEW x \in LogState, NEW n \in Names
    PROVE  LET y == Unlink(x, n)
           IN  /\ y \in LogState /\ SameProcs(x, y) /\ SameLines(x, y)
               /\ y.names[n] = NoFile
               /\ \A m \in Names : m # n => y.names[m] = x.names[m]
  BY DEF Unlink, LogState, SameProcs, SameLines, Files

\* open(): the log is there, or a new and empty file is made of it.
LEMMA OpensIs ==
    ASSUME NEW x \in LogState, NEW p \in Writer, Unused(x) # {}
    PROVE  LET y == Opens(x, p)
               log == y.names[Log]
           IN  /\ y \in LogState /\ log \in Inodes /\ log # NoFile
               /\ y.fd[p] = log /\ \A q \in Writer : q # p => y.fd[q] = x.fd[q]
               /\ y.lock = x.lock /\ y.pc = x.pc /\ y.staged = x.staged /\ y.compress = x.compress
               /\ y.next = x.next /\ y.dropped = x.dropped
               /\ y.lines[NoFile] = x.lines[NoFile]
               /\ \A n \in Names : n # Log => /\ y.names[n] = x.names[n]
                                              /\ y.lines[x.names[n]] = x.lines[x.names[n]]
               /\ x.names[Log] # NoFile => log = x.names[Log] /\ y.lines[log] = x.lines[log]
               /\ x.names[Log] = NoFile => /\ y.lines[log] = {}
                                           /\ \A n \in Names : x.names[n] # log
                                           /\ \A q \in Writer : x.fd[q] # log
  <1> DEFINE n0 == UnusedInode(x)
             made == [x EXCEPT !.names[Log] = n0, !.lines[n0] = {}]
             u == Creates(x)
             sz == Cardinality(u.lines[u.names[Log]])
             y == Opens(x, p)
  <1>1. /\ n0 \in Inodes /\ n0 # NoFile
        /\ \A n \in Names : x.names[n] # n0
        /\ \A q \in Writer : x.fd[q] # n0
    BY UnusedIs
  <1>2. {} \in LineSets
    BY FS_EmptySet DEF LineSets
  <1> HIDE DEF n0
  <1>3. /\ made \in LogState /\ SameProcs(x, made)
        /\ made.next = x.next /\ made.dropped = x.dropped
        /\ made.names[Log] = n0 /\ \A n \in Names : n # Log => made.names[n] = x.names[n]
        /\ made.lines[n0] = {} /\ \A f \in Files : f # n0 => made.lines[f] = x.lines[f]
    BY <1>1, <1>2, NameFacts DEF LogState, SameProcs, Files
  <1>4. x.names[Log] # NoFile => u = x
    BY DEF Creates
  <1>5. x.names[Log] = NoFile => u = made
    BY DEF Creates, n0
  <1>6. SameProcs(x, x)
    BY DEF SameProcs
  <1> HIDE DEF made, u
  <1>7. /\ u \in LogState /\ SameProcs(x, u) /\ u.next = x.next /\ u.dropped = x.dropped
        /\ u.names[Log] \in Inodes /\ u.names[Log] # NoFile
    BY <1>1, <1>3, <1>4, <1>5, <1>6, NameFacts, FieldsAre, LogConstants DEF Files
  <1>8. sz \in Nat
    BY <1>7, FieldsAre, FS_CardinalityType DEF LineSets, Files
  <1>9. y = [u EXCEPT !.fd[p] = u.names[Log], !.size[p] = sz]
    BY DEF Opens, u
  <1> HIDE DEF sz, y
  <1>10. /\ y \in LogState /\ y.names = u.names /\ y.lines = u.lines /\ y.next = u.next
         /\ y.dropped = u.dropped /\ y.lock = u.lock /\ y.pc = u.pc /\ y.staged = u.staged
         /\ y.compress = u.compress
         /\ y.fd[p] = u.names[Log] /\ \A q \in Writer : q # p => y.fd[q] = u.fd[q]
    BY <1>7, <1>8, <1>9 DEF LogState, Files
  <1>11. NoFile \in Files /\ n0 # NoFile /\ \A n \in Names : x.names[n] \in Files
    BY <1>1, FieldsAre DEF Files
  <1>12. CASE x.names[Log] # NoFile
    BY <1>4, <1>7, <1>10, <1>12, NameFacts DEF SameProcs, y
  <1>13. CASE x.names[Log] = NoFile
    BY <1>1, <1>3, <1>5, <1>7, <1>10, <1>11, <1>13, NameFacts DEF SameProcs, y
  <1> QED
    BY <1>12, <1>13

\* shift_backups(): no name of another kind is touched, the first is free after it,
\* and what drops out is recorded.
LEMMA ShiftIs ==
    ASSUME NEW x \in LogState, NEW e \in Kinds, OneName(x)
    PROVE  LET y == Shift(x, e)
           IN  /\ y \in LogState /\ SameProcs(x, y) /\ OneName(y)
               /\ y.lines = x.lines /\ y.next = x.next
               /\ y.names[Backup(1, e)] = NoFile
               /\ \A n \in Names : n[1] # e => y.names[n] = x.names[n]
               /\ x.dropped \subseteq y.dropped /\ Kept(x) \subseteq Kept(y) \cup y.dropped
  <1> DEFINE from(n) == Backup(n[2] - 1, e)
             u == Shifted(x, e)
             fell == Kept(x) \ Kept(u)
             y == Shift(x, e)
  <1>1. \A n \in Names : n[1] = e /\ n[2] # 1 => from(n) \in Names
    <2> SUFFICES ASSUME NEW n \in Names, n[1] = e, n[2] # 1 PROVE from(n) \in Names
      OBVIOUS
    <2>1. PICK i \in 1 .. MaxBackups : n = Backup(i, e)
      BY BackupNames
    <2>2. n[2] = i /\ i - 1 \in 1 .. MaxBackups
      BY <2>1, NameFacts, LogConstants
    <2> QED
      BY <2>2, BackupNames
  <1> HIDE DEF from
  <1>2. u = [x EXCEPT !.names = [n \in Names |->
                IF n[1] # e THEN x.names[n]
                ELSE IF n[2] = 1 THEN NoFile ELSE x.names[from(n)]]]
    BY DEF Shifted, from
  <1> HIDE DEF u
  <1>3. /\ u \in LogState /\ SameProcs(x, u) /\ SameLines(x, u)
        /\ \A n \in Names : u.names[n] = IF n[1] # e THEN x.names[n]
                                         ELSE IF n[2] = 1 THEN NoFile ELSE x.names[from(n)]
    BY <1>1, <1>2 DEF LogState, SameProcs, SameLines, Files
  <1>4. OneName(u)
    <2> SUFFICES ASSUME NEW a \in Names, NEW b \in Names, u.names[a] = u.names[b],
                        u.names[a] # NoFile
                 PROVE  a = b
      BY DEF OneName
    <2>1. CASE a[1] # e /\ b[1] # e
      BY <1>3, <2>1 DEF OneName
    <2>2. CASE a[1] = e /\ b[1] # e
      <3>1. from(a) = b
        BY <1>1, <1>3, <2>2 DEF OneName
      <3> QED
        BY <2>2, <3>1, NameFacts DEF from
    <2>3. CASE a[1] # e /\ b[1] = e
      <3>1. from(b) = a
        BY <1>1, <1>3, <2>3 DEF OneName
      <3> QED
        BY <2>3, <3>1, NameFacts DEF from
    <2>4. CASE a[1] = e /\ b[1] = e
      <3>1. from(a) = from(b)
        BY <1>1, <1>3, <2>4 DEF OneName
      <3>2. PICK i \in 1 .. MaxBackups : a = Backup(i, e)
        BY <2>4, BackupNames
      <3>3. PICK j \in 1 .. MaxBackups : b = Backup(j, e)
        BY <2>4, BackupNames
      <3>4. a[2] = i /\ b[2] = j /\ from(a)[2] = i - 1 /\ from(b)[2] = j - 1
        BY <3>2, <3>3, NameFacts DEF from
      <3>5. i = j
        BY <3>1, <3>4
      <3> QED
        BY <3>2, <3>3, <3>5
    <2> QED
      BY <2>1, <2>2, <2>3, <2>4
  <1>5. fell \in SUBSET Nat
    <2>1. \A l \in Kept(x) : l \in Nat
      BY KeptIs, FieldsAre DEF LineSets
    <2> QED
      BY <2>1
  <1>6. y = Drops(u, fell)
    BY DEF Shift, u
  <1> HIDE DEF fell, y
  <1>7. /\ y \in LogState /\ SameProcs(u, y) /\ y.names = u.names /\ y.lines = u.lines
        /\ y.next = u.next /\ y.dropped = u.dropped \cup fell
    BY <1>3, <1>5, <1>6, DropsIs
  <1>8. Kept(y) = Kept(u) /\ Kept(x) \subseteq Kept(u) \cup fell
    BY <1>7 DEF Kept, NamedFiles, fell
  <1>9. y.names[Backup(1, e)] = NoFile
    BY <1>3, <1>7, NameFacts, BackupNames
  <1>10. OneName(y)
    BY <1>4, <1>7 DEF OneName
  <1> QED
    BY <1>3, <1>7, <1>8, <1>9, <1>10 DEF SameProcs, SameLines, y

\* rename() loses nothing but what had the new name.
LEMMA RenameLoses ==
    ASSUME NEW x \in LogState, NEW from \in Names, NEW to \in Names, from # to, OneName(x)
    PROVE  LET y == Rename(x, from, to)
           IN  /\ OneName(y)
               /\ \A l \in Kept(x) : \/ l \in Kept(y)
                                     \/ /\ x.names[from] # NoFile /\ x.names[to] # NoFile
                                        /\ l \in x.lines[x.names[to]]
  <1> DEFINE y == Rename(x, from, to)
  <1>1. y.lines = x.lines
    BY RenameIs DEF SameLines
  <1>2. CASE x.names[from] = NoFile
    <2>1. y.names = x.names
      BY <1>2, RenameIs
    <2> HIDE DEF y
    <2> QED
      BY <1>1, <2>1, KeptIs DEF OneName, y
  <1>3. CASE x.names[from] # NoFile
    <2>1. /\ y.names[to] = x.names[from] /\ y.names[from] = NoFile
          /\ \A n \in Names : n # to /\ n # from => y.names[n] = x.names[n]
      BY <1>3, RenameIs
    <2> HIDE DEF y
    <2>2. OneName(y)
      BY <2>1 DEF OneName
    <2>3. ASSUME NEW l \in Kept(x), ~(x.names[to] # NoFile /\ l \in x.lines[x.names[to]])
          PROVE  l \in Kept(y)
      <3>1. PICK n \in Names : x.names[n] # NoFile /\ l \in x.lines[x.names[n]]
        BY KeptIs
      <3>2. n # to
        BY <2>3, <3>1
      <3>3. CASE n = from
        BY <1>1, <1>3, <2>1, <3>1, <3>3, KeptIs
      <3>4. CASE n # from
        BY <1>1, <2>1, <3>1, <3>2, <3>4, KeptIs
      <3> QED
        BY <3>3, <3>4
    <2> QED
      BY <1>3, <2>2, <2>3 DEF y
  <1> QED
    BY <1>2, <1>3

-----------------------------------------------------------------------------
(* What a process's place depends on.                                      *)

\* What a process is to compress is as it was.
LEMMA KeepsSame ==
    ASSUME NEW x \in LogState, NEW y, NEW q \in Writer, Keeps(x, q),
           y.pc[q] = x.pc[q], y.staged[q] = x.staged[q],
           \A s \in Inodes : x.staged[q] = s =>
               /\ y.names[Staged(s)] = x.names[Staged(s)]
               /\ y.names[StagedGz(s)] = x.names[StagedGz(s)]
               /\ y.lines[x.names[Staged(s)]] = x.lines[x.names[Staged(s)]]
               /\ y.lines[x.names[StagedGz(s)]] = x.lines[x.names[StagedGz(s)]]
    PROVE  Keeps(y, q)
  <1>1. x.staged[q] # NoFile => x.staged[q] \in Inodes
    BY FieldsAre DEF Files
  <1>2. CASE x.staged[q] = NoFile
    BY <1>2 DEF Keeps
  <1>3. CASE x.staged[q] # NoFile
    BY <1>1, <1>3 DEF Keeps
  <1> QED
    BY <1>2, <1>3

\* Nothing that a process's place depends on has changed.
LEMMA Untouched ==
    ASSUME NEW x \in LogState, NEW y \in LogState, NEW q \in Writer,
           y.names = x.names, y.lines = x.lines, y.compress = x.compress,
           y.fd[q] = x.fd[q], y.pc[q] = x.pc[q], y.lock[q] = x.lock[q],
           y.staged[q] = x.staged[q],
           \A s \in Inodes : Called(y, s) => Called(x, s)
    PROVE  /\ Aims(x, q) => Aims(y, q)
           /\ Keeps(x, q) => Keeps(y, q)
  <1>1. Aims(x, q) => Aims(y, q)
    <2>1. x.fd[q] # NoFile => x.fd[q] \in Inodes
      BY FieldsAre DEF Files
    <2> QED
      BY <2>1 DEF Aims, Old
  <1>2. Keeps(x, q) => Keeps(y, q)
    BY DEF Keeps
  <1> QED
    BY <1>1, <1>2

\* One that holds no lock neither writes nor rotates.
LEMMA Quiet ==
    ASSUME NEW x \in LogState, NEW q \in Writer
    PROVE  /\ Aims(x, q) /\ x.lock[q] = "none" =>
                x.fd[q] # NoFile /\ x.pc[q] \notin {"writes", "rotates", "opens"}
           /\ x.fd[q] # NoFile /\ x.pc[q] \notin {"writes", "rotates", "opens"} => Aims(x, q)
  BY DEF Aims

\* A directory with the same names and lines is as good.
LEMMA SameDirectory ==
    ASSUME NEW x \in LogState, NEW y \in LogState, Directory(x), y.names = x.names, SameLines(x, y),
           \A s \in Inodes : Called(y, s) => Called(x, s)
    PROVE  Directory(y)
  <1>1. OneName(y)
    BY DEF Directory, OneName
  <1>2. CallsTaken(y)
    BY DEF Directory, CallsTaken
  <1>3. Kept(y) = Kept(x)
    BY DEF Kept, NamedFiles, SameLines
  <1> QED
    BY <1>1, <1>2, <1>3 DEF Directory, NothingLost, SameLines

\* Called looks at three things only.
LEMMA CalledSame ==
    ASSUME NEW x, NEW y, NEW s,
           y.names[Staged(s)] = x.names[Staged(s)], y.names[StagedGz(s)] = x.names[StagedGz(s)],
           \A p \in Writer : y.staged[p] = s => x.staged[p] = s
    PROVE  Called(y, s) => Called(x, s)
  BY DEF Called

\* Opening the log changes nothing for the others.
LEMMA OpensKeeps ==
    ASSUME NEW x \in LogState, NEW p \in Writer, Unused(x) # {}, Directory(x)
    PROVE  LET y == Opens(x, p)
           IN  /\ y \in LogState /\ Directory(y)
               /\ y.lock = x.lock /\ y.pc = x.pc /\ y.staged = x.staged /\ y.compress = x.compress
               /\ y.fd[p] = y.names[Log] /\ y.fd[p] # NoFile /\ y.fd[p] \in Inodes
               /\ \A q \in Writer : q # p => y.fd[q] = x.fd[q]
               /\ ~Called(y, y.fd[p])
               /\ \A q \in Writer : q # p /\ Aims(x, q) => Aims(y, q)
               /\ \A q \in Writer : Keeps(x, q) => Keeps(y, q)
  <1> DEFINE y == Opens(x, p)
             log == y.names[Log]
  <1>1. /\ y \in LogState /\ log \in Inodes /\ log # NoFile
        /\ y.fd[p] = log /\ \A q \in Writer : q # p => y.fd[q] = x.fd[q]
        /\ y.lock = x.lock /\ y.pc = x.pc /\ y.staged = x.staged /\ y.compress = x.compress
        /\ y.next = x.next /\ y.dropped = x.dropped
        /\ y.lines[NoFile] = x.lines[NoFile]
    BY OpensIs
  <1>2. \A n \in Names : n # Log => /\ y.names[n] = x.names[n]
                                    /\ y.lines[x.names[n]] = x.lines[x.names[n]]
    BY OpensIs
  <1>3. /\ x.names[Log] # NoFile => log = x.names[Log] /\ y.lines[log] = x.lines[log]
        /\ x.names[Log] = NoFile => /\ y.lines[log] = {}
                                    /\ \A n \in Names : x.names[n] # log
    BY OpensIs
  <1> HIDE DEF y
  <1>4. \A s \in Inodes : /\ y.names[Staged(s)] = x.names[Staged(s)]
                          /\ y.names[StagedGz(s)] = x.names[StagedGz(s)]
                          /\ y.lines[x.names[Staged(s)]] = x.lines[x.names[Staged(s)]]
                          /\ y.lines[x.names[StagedGz(s)]] = x.lines[x.names[StagedGz(s)]]
    BY <1>2, NameFacts
  <1>5. y.names[Moved] = x.names[Moved]
    BY <1>2, NameFacts
  <1>6. \A s \in Inodes : Called(y, s) <=> Called(x, s)
    BY <1>1, <1>4 DEF Called
  <1>7. OneName(y)
    BY <1>1, <1>2, <1>3 DEF Directory, OneName
  <1>8. CallsTaken(y)
    BY <1>4, <1>5, <1>6 DEF Directory, CallsTaken
  <1>9. \A l \in Kept(x) : l \in Kept(y)
    <2> SUFFICES ASSUME NEW l \in Kept(x) PROVE l \in Kept(y)
      OBVIOUS
    <2>1. PICK n \in Names : x.names[n] # NoFile /\ l \in x.lines[x.names[n]]
      BY KeptIs
    <2>2. y.names[n] = x.names[n] /\ y.lines[x.names[n]] = x.lines[x.names[n]]
      BY <1>2, <1>3, <2>1
    <2> QED
      BY <2>1, <2>2, KeptIs
  <1>10. Directory(y)
    BY <1>1, <1>7, <1>8, <1>9 DEF Directory, NothingLost
  <1>11. ~Called(y, log)
    <2>1. y.names[Staged(log)] # log /\ y.names[Moved] # log
      BY <1>1, <1>7, NameFacts DEF OneName
    <2> QED
      BY <1>1, <1>8, <2>1 DEF CallsTaken
  <1>12. ASSUME NEW q \in Writer, q # p, Aims(x, q) PROVE Aims(y, q)
    <2>1. x.fd[q] \in Inodes /\ x.fd[q] # NoFile /\ y.fd[q] = x.fd[q]
      BY <1>1, <1>12, FieldsAre DEF Aims, Files
    <2>2. Old(y, q) = Old(x, q) /\ y.names[Old(x, q)] = x.names[Old(x, q)]
      BY <1>1, <1>2, <1>4, <2>1, NameFacts DEF Old
    <2>3. x.fd[q] \in {x.names[Log], x.names[Moved]} => y.fd[q] \in {y.names[Log], y.names[Moved]}
      BY <1>3, <1>5, <2>1
    <2>4. x.lines[x.names[Log]] = {} => y.lines[y.names[Log]] = {}
      BY <1>3
    <2>5. ~Called(x, x.fd[q]) => ~Called(y, y.fd[q])
      BY <1>6, <2>1
    <2> QED
      BY <1>1, <1>5, <1>12, <2>1, <2>2, <2>3, <2>4, <2>5 DEF Aims
  <1>13. ASSUME NEW q \in Writer, Keeps(x, q) PROVE Keeps(y, q)
    BY <1>1, <1>4, <1>13, KeepsSame
  <1> QED
    BY <1>1, <1>10, <1>11, <1>12, <1>13 DEF y

\* So does a shift of the backups.
LEMMA ShiftKeeps ==
    ASSUME NEW x \in LogState, NEW e \in Kinds, Directory(x)
    PROVE  LET y == Shift(x, e)
           IN  /\ Directory(y)
               /\ \A s \in Inodes : Called(y, s) <=> Called(x, s)
               /\ \A q \in Writer : Keeps(x, q) => Keeps(y, q)
  <1> DEFINE y == Shift(x, e)
  <1>1. /\ y \in LogState /\ SameProcs(x, y) /\ OneName(y)
        /\ y.lines = x.lines /\ y.next = x.next
        /\ \A n \in Names : n[1] # e => y.names[n] = x.names[n]
        /\ x.dropped \subseteq y.dropped /\ Kept(x) \subseteq Kept(y) \cup y.dropped
    BY ShiftIs DEF Directory
  <1> HIDE DEF y
  <1>2. /\ y.names[Moved] = x.names[Moved]
        /\ \A s \in Inodes : /\ y.names[Staged(s)] = x.names[Staged(s)]
                             /\ y.names[StagedGz(s)] = x.names[StagedGz(s)]
    BY <1>1, NameFacts DEF Kinds
  <1>3. \A s \in Inodes : Called(y, s) <=> Called(x, s)
    BY <1>1, <1>2 DEF Called, SameProcs
  <1>4. CallsTaken(y)
    BY <1>2, <1>3 DEF Directory, CallsTaken
  <1>5. NothingLost(y)
    BY <1>1 DEF Directory, NothingLost
  <1>6. ASSUME NEW q \in Writer, Keeps(x, q) PROVE Keeps(y, q)
    BY <1>1, <1>2, <1>6, KeepsSame DEF SameProcs
  <1> QED
    BY <1>1, <1>3, <1>4, <1>5, <1>6 DEF Directory, y

\* So does a rename() that has nothing to do with the staged files, over nothing.
LEMMA RenameKeeps ==
    ASSUME NEW x \in LogState, NEW from \in Names, NEW to \in Names, from # to, from # Moved,
           Directory(x), x.lines[x.names[to]] = {},
           to = Moved => x.names[Moved] = NoFile,
           \A s \in Inodes : {from, to} \cap {Staged(s), StagedGz(s)} = {}
    PROVE  LET y == Rename(x, from, to)
           IN  /\ Directory(y)
               /\ \A s \in Inodes : Called(y, s) <=> Called(x, s)
               /\ \A q \in Writer : Keeps(x, q) => Keeps(y, q)
  <1> DEFINE y == Rename(x, from, to)
  <1>1. /\ y \in LogState /\ SameProcs(x, y) /\ SameLines(x, y)
        /\ \A n \in Names : n # to /\ n # from => y.names[n] = x.names[n]
    BY RenameIs
  <1>2. OneName(y) /\ \A l \in Kept(x) : l \in Kept(y)
    BY RenameLoses DEF Directory
  <1> HIDE DEF y
  <1>3. \A s \in Inodes : /\ y.names[Staged(s)] = x.names[Staged(s)]
                          /\ y.names[StagedGz(s)] = x.names[StagedGz(s)]
    BY <1>1, NameFacts
  <1>4. \A s \in Inodes : Called(y, s) <=> Called(x, s)
    BY <1>1, <1>3 DEF Called, SameProcs
  <1>5. CallsTaken(y)
    <2> SUFFICES ASSUME NEW s \in Inodes, Called(y, s)
                 PROVE  y.names[Staged(s)] = s \/ y.names[Moved] = s
      BY DEF CallsTaken
    <2>1. x.names[Staged(s)] = s \/ x.names[Moved] = s
      BY <1>4 DEF Directory, CallsTaken
    <2>2. s # NoFile
      BY LogConstants
    <2>3. x.names[Moved] = s => y.names[Moved] = s
      BY <1>1, <2>2, NameFacts
    <2> QED
      BY <1>3, <2>1, <2>3
  <1>6. NothingLost(y) /\ y.lines[NoFile] = {}
    BY <1>1, <1>2 DEF Directory, NothingLost, SameLines
  <1>7. ASSUME NEW q \in Writer, Keeps(x, q) PROVE Keeps(y, q)
    BY <1>1, <1>3, <1>7, KeepsSame DEF SameProcs, SameLines
  <1> QED
    BY <1>2, <1>4, <1>5, <1>6, <1>7 DEF Directory, y

\* unlink() loses what had the name.
LEMMA UnlinkLoses ==
    ASSUME NEW x \in LogState, NEW n \in Names, OneName(x)
    PROVE  LET y == Unlink(x, n)
           IN  /\ OneName(y)
               /\ \A l \in Kept(x) : \/ l \in Kept(y)
                                     \/ x.names[n] # NoFile /\ l \in x.lines[x.names[n]]
  <1> DEFINE y == Unlink(x, n)
  <1>1. /\ y \in LogState /\ y.lines = x.lines /\ y.names[n] = NoFile
        /\ \A m \in Names : m # n => y.names[m] = x.names[m]
    BY UnlinkIs DEF SameLines
  <1> HIDE DEF y
  <1>2. OneName(y)
    BY <1>1 DEF OneName
  <1>3. ASSUME NEW l \in Kept(x), ~(x.names[n] # NoFile /\ l \in x.lines[x.names[n]])
        PROVE  l \in Kept(y)
    <2>1. PICK m \in Names : x.names[m] # NoFile /\ l \in x.lines[x.names[m]]
      BY KeptIs
    <2>2. y.names[m] = x.names[m]
      BY <1>1, <1>3, <2>1
    <2>3. y.names[m] # NoFile /\ l \in y.lines[y.names[m]]
      BY <1>1, <2>1, <2>2
    <2> QED
      BY <2>3, KeptIs
  <1> QED
    BY <1>2, <1>3 DEF y

-----------------------------------------------------------------------------
(* The steps of a process that leave the directory as it is.               *)

LEMMA LocalStep ==
    ASSUME NEW x \in LogState, NEW y \in LogState, NEW p \in Writer, OnlyOf(x, y, p),
           Directory(x), \A q \in Writer : q # p => Aims(x, q) /\ Keeps(x, q),
           \A s \in Inodes : Called(y, s) => Called(x, s),
           Alone(y), OwnStaged(y), Aims(y, p), Keeps(y, p)
    PROVE  LogGood(y)
  <1>1. Directory(y)
    BY SameDirectory DEF OnlyOf
  <1>2. ASSUME NEW q \in Writer, q # p PROVE Aims(y, q) /\ Keeps(y, q)
    BY <1>2, Untouched DEF OnlyOf, SameLines
  <1> QED
    BY <1>1, <1>2 DEF LogGood

\* Two steps of one process.
LEMMA OnlyOfTwo ==
    ASSUME NEW x, NEW y, NEW z, NEW p \in Writer, OnlyOf(x, y, p), OnlyOf(y, z, p)
    PROVE  OnlyOf(x, z, p)
  BY DEF OnlyOf, SameLines

LEMMA FewerCalls ==
    ASSUME NEW x \in LogState, NEW y, y.names = x.names, NEW p \in Writer,
           \A q \in Writer : q # p => y.staged[q] = x.staged[q],
           y.staged[p] \in {NoFile, x.staged[p]}
    PROVE  \A s \in Inodes : Called(y, s) => Called(x, s)
  BY LogConstants DEF Called

\* A process that is neither at the log nor at a staged file.
LEMMA IdleIs ==
    ASSUME NEW x \in LogState, NEW p \in Writer, x.fd[p] # NoFile, x.pc[p] \in {"idle", "converts"},
           x.staged[p] = NoFile
    PROVE  Aims(x, p) /\ Keeps(x, p)
  BY DEF Aims, Keeps

\* What has no file staged.
LEMMA NoneStaged ==
    ASSUME LogInv, NEW p \in Writer, lg.pc[p] \in {"idle", "converts", "rotates"}
    PROVE  lg.staged[p] = NoFile
  BY DEF LogInv, LogGood, Keeps

\* write(): the file is followed, the shared lock had or to be converted.
LEMMA BeginsWriteKeeps ==
    ASSUME ~Unseen, LogInv, Unused(lg) # {}, NEW p \in Writer, BeginsWrite(p)
    PROVE  LogInv'
  <1> DEFINE u == Opens(lg, p)
             w == Locks(u, p, "sh")
  <1>1. /\ lg \in LogState /\ Directory(lg) /\ Alone(lg) /\ OwnStaged(lg)
        /\ \A q \in Writer : Aims(lg, q) /\ Keeps(lg, q)
    BY DEF LogInv, LogGood
  <1>2. lg.pc[p] = "idle" /\ lg.staged[p] = NoFile
    BY NoneStaged DEF BeginsWrite, At
  <1>3. /\ u \in LogState /\ Directory(u)
        /\ u.lock = lg.lock /\ u.pc = lg.pc /\ u.staged = lg.staged
        /\ u.fd[p] = u.names[Log] /\ u.fd[p] # NoFile
        /\ \A q \in Writer : q # p => Aims(u, q)
        /\ \A q \in Writer : Keeps(u, q)
    BY <1>1, OpensKeeps
  <1>4. \/ lg' = Goes(u, p, "converts")
        \/ lg' = Goes(w, p, "writes")
    BY DEF BeginsWrite, Follows
  <1>5. \A q \in Writer : q # p => lg.lock[q] # "ex"
    BY DEF BeginsWrite, MayShare
  <1> HIDE DEF u
  <1>6. CASE lg' = Goes(u, p, "converts")
    <2>1. /\ lg' \in LogState /\ OnlyOf(u, lg', p) /\ lg'.lock = u.lock /\ lg'.staged = u.staged
          /\ lg'.pc[p] = "converts" /\ lg'.fd = u.fd /\ lg'.names = u.names
      <3>1. "converts" \in Pcs
        BY DEF Pcs
      <3> QED
        BY <1>3, <1>6, <3>1, GoesIs
    <2>2. Aims(lg', p) /\ Keeps(lg', p)
      BY <1>2, <1>3, <2>1, IdleIs
    <2>3. Alone(lg') /\ OwnStaged(lg')
      BY <1>1, <1>3, <2>1 DEF Alone, OwnStaged
    <2>4. \A s \in Inodes : Called(lg', s) => Called(u, s)
      BY <1>3, <2>1, FewerCalls
    <2> QED
      BY <1>3, <2>1, <2>2, <2>3, <2>4, LocalStep DEF LogInv
  <1>7. CASE lg' = Goes(w, p, "writes")
    <2>1. /\ w \in LogState /\ OnlyOf(u, w, p) /\ w.staged = u.staged /\ w.lock[p] = "sh"
          /\ w.fd = u.fd /\ w.names = u.names
      BY <1>3, LocksIs
    <2> HIDE DEF w
    <2>2. /\ lg' \in LogState /\ OnlyOf(w, lg', p) /\ lg'.staged = u.staged
          /\ lg'.lock = w.lock
          /\ lg'.pc[p] = "writes" /\ lg'.fd = u.fd /\ lg'.names = u.names
      <3>1. "writes" \in Pcs
        BY DEF Pcs
      <3> QED
        BY <1>7, <2>1, <3>1, GoesIs
    <2>3. Aims(lg', p)
      BY <1>3, <2>1, <2>2 DEF Aims
    <2>4. Keeps(lg', p)
      BY <1>2, <1>3, <2>2 DEF Keeps
    <2>5. Alone(lg') /\ OwnStaged(lg')
      <3>1. \A q \in Writer : q # p => lg'.lock[q] = lg.lock[q]
        BY <1>3, <2>1, <2>2 DEF OnlyOf
      <3> QED
        BY <1>1, <1>3, <1>5, <2>1, <2>2, <3>1 DEF Alone, OwnStaged
    <2>6. OnlyOf(u, lg', p)
      BY <2>1, <2>2, OnlyOfTwo
    <2>7. \A s \in Inodes : Called(lg', s) => Called(u, s)
      BY <1>3, <2>2, FewerCalls
    <2> QED
      BY <1>3, <2>2, <2>3, <2>4, <2>5, <2>6, <2>7, LocalStep DEF LogInv
  <1> QED
    BY <1>4, <1>6, <1>7

\* write(): the exclusive lock is had, and the file followed again.
LEMMA ExcludesKeeps ==
    ASSUME ~Unseen, LogInv, Unused(lg) # {}, NEW p \in Writer, Excludes(p)
    PROVE  LogInv'
  <1> DEFINE u == Opens(lg, p)
             w == Locks(u, p, "ex")
             pc == IF Full(u, p) THEN "rotates" ELSE "writes"
  <1>1. /\ lg \in LogState /\ Directory(lg) /\ Alone(lg) /\ OwnStaged(lg)
        /\ \A q \in Writer : Aims(lg, q) /\ Keeps(lg, q)
    BY DEF LogInv, LogGood
  <1>2. lg.staged[p] = NoFile
    BY NoneStaged DEF Excludes, At
  <1>3. /\ u \in LogState /\ Directory(u)
        /\ u.lock = lg.lock /\ u.pc = lg.pc /\ u.staged = lg.staged
        /\ u.fd[p] = u.names[Log] /\ u.fd[p] # NoFile /\ u.fd[p] \in Inodes
        /\ ~Called(u, u.fd[p])
        /\ \A q \in Writer : q # p => Aims(u, q)
        /\ \A q \in Writer : Keeps(u, q)
    BY <1>1, OpensKeeps
  <1>4. lg' = Goes(w, p, pc)
    BY DEF Excludes, Follows
  <1>5. \A q \in Writer : q # p => lg.lock[q] = "none"
    BY DEF Excludes, MayExclude
  <1>6. pc \in {"rotates", "writes"} /\ pc \in Pcs
    BY DEF Pcs
  <1> HIDE DEF u, pc
  <1>7. /\ w \in LogState /\ OnlyOf(u, w, p) /\ w.staged = u.staged /\ w.lock[p] = "ex"
        /\ w.fd = u.fd /\ w.names = u.names
    BY <1>3, LocksIs
  <1> HIDE DEF w
  <1>8. /\ lg' \in LogState /\ OnlyOf(w, lg', p) /\ lg'.staged = u.staged /\ lg'.lock = w.lock
        /\ lg'.pc[p] = pc /\ lg'.fd = u.fd /\ lg'.names = u.names
    BY <1>4, <1>6, <1>7, GoesIs
  <1>9. \A s \in Inodes : Called(lg', s) => Called(u, s)
    BY <1>3, <1>8, FewerCalls
  <1>10. Aims(lg', p)
    BY <1>3, <1>6, <1>7, <1>8, <1>9 DEF Aims
  <1>11. Keeps(lg', p)
    BY <1>2, <1>3, <1>6, <1>8 DEF Keeps
  <1>12. Alone(lg') /\ OwnStaged(lg')
    <2>1. \A q \in Writer : q # p => lg'.lock[q] = "none"
      BY <1>3, <1>5, <1>7, <1>8 DEF OnlyOf
    <2> QED
      BY <1>1, <1>3, <1>8, <2>1 DEF Alone, OwnStaged
  <1>13. OnlyOf(u, lg', p)
    BY <1>7, <1>8, OnlyOfTwo
  <1> QED
    BY <1>3, <1>8, <1>9, <1>10, <1>11, <1>12, <1>13, LocalStep DEF LogInv

\* The log opened by one that is at nothing else.
LEMMA OpensAnew ==
    ASSUME LogInv, Unused(lg) # {}, NEW x \in LogState, NEW p \in Writer, OnlyOf(lg, x, p),
           x.pc[p] = "idle", x.staged[p] = NoFile, x.fd[p] = NoFile,
           x.lock[p] \in {"none", lg.lock[p]}
    PROVE  LogGood(Opens(x, p))
  <1> DEFINE y == Opens(x, p)
  <1>1. /\ lg \in LogState /\ Directory(lg) /\ Alone(lg) /\ OwnStaged(lg)
        /\ \A q \in Writer : Aims(lg, q) /\ Keeps(lg, q)
    BY DEF LogInv, LogGood
  <1>2. Unused(x) # {}
    <2>1. PICK n \in Inodes : n \in Unused(lg)
      BY DEF Unused
    <2>2. n \in Unused(x)
      BY <2>1, LogConstants DEF Unused, NamedFiles, OnlyOf
    <2> QED
      BY <2>2
  <1>3. \A s \in Inodes : Called(x, s) => Called(lg, s)
    BY <1>1, FewerCalls DEF OnlyOf
  <1>4. Directory(x)
    BY <1>1, <1>3, SameDirectory DEF OnlyOf
  <1>5. \A q \in Writer : q # p => Aims(x, q) /\ Keeps(x, q)
    BY <1>1, <1>3, Untouched DEF OnlyOf, SameLines
  <1>6. Keeps(x, p)
    BY DEF Keeps
  <1>7. /\ y \in LogState /\ Directory(y)
        /\ y.lock = x.lock /\ y.pc = x.pc /\ y.staged = x.staged
        /\ y.fd[p] # NoFile
        /\ \A q \in Writer : q # p => Aims(y, q)
        /\ \A q \in Writer : Keeps(y, q)
    BY <1>2, <1>4, <1>5, <1>6, OpensKeeps
  <1> HIDE DEF y
  <1>8. Aims(y, p)
    BY <1>7 DEF Aims
  <1>9. Alone(y)
    BY <1>1, <1>7 DEF Alone, OnlyOf
  <1>10. OwnStaged(y)
    BY <1>1, <1>7 DEF OwnStaged, OnlyOf
  <1> QED
    BY <1>7, <1>8, <1>9, <1>10 DEF LogGood, y

LEMMA ReopensKeeps ==
    ASSUME LogInv, Unused(lg) # {}, NEW p \in Writer, Reopens(p)
    PROVE  LogInv'
  <1> DEFINE x == Closes(lg, p)
  <1>1. lg \in LogState /\ lg.pc[p] = "idle" /\ lg.staged[p] = NoFile
    BY NoneStaged DEF Reopens, At, LogInv, LogGood
  <1>2. /\ x \in LogState /\ OnlyOf(lg, x, p) /\ x.fd[p] = NoFile
        /\ x.staged = lg.staged /\ x.pc = lg.pc /\ x.lock = lg.lock
    BY <1>1, ClosesIs
  <1>3. lg' = Opens(x, p)
    BY DEF Reopens
  <1> HIDE DEF x
  <1> QED
    BY <1>1, <1>2, <1>3, OpensAnew DEF LogInv

\* The locks, the file open and the one staged go with the process.
LEMMA WriterDiesKeeps ==
    ASSUME LogInv, Unused(lg) # {}, NEW p \in Writer, WriterDies(p)
    PROVE  LogInv'
  <1> DEFINE a == Fault(lg)
             b == Closes(a, p)
             c == Stages(b, p, NoFile)
             d == Locks(c, p, "none")
             e == Goes(d, p, "idle")
  <1>1. lg \in LogState
    BY DEF LogInv, LogGood
  <1>2. lg' = Opens(e, p)
    BY DEF WriterDies
  <1>3. a \in LogState /\ OnlyOf(lg, a, p)
    BY <1>1, FaultIs DEF OnlyOf, SameProcs
  <1> HIDE DEF a
  <1>4. b \in LogState /\ OnlyOf(a, b, p) /\ b.fd[p] = NoFile
    BY <1>3, ClosesIs
  <1> HIDE DEF b
  <1>5. NoFile \in Files
    BY DEF Files
  <1>6. c \in LogState /\ OnlyOf(b, c, p) /\ c.fd[p] = NoFile /\ c.staged[p] = NoFile
    BY <1>4, <1>5, StagesIs
  <1> HIDE DEF c
  <1>7. /\ d \in LogState /\ OnlyOf(c, d, p) /\ d.fd[p] = NoFile /\ d.staged[p] = NoFile
        /\ d.lock[p] = "none"
    BY <1>6, LocksIs
  <1> HIDE DEF d
  <1>8. /\ e \in LogState /\ OnlyOf(d, e, p) /\ e.fd[p] = NoFile /\ e.staged[p] = NoFile
        /\ e.lock[p] = "none" /\ e.pc[p] = "idle"
    <2>1. "idle" \in Pcs
      BY DEF Pcs
    <2> QED
      BY <1>7, <2>1, GoesIs
  <1> HIDE DEF e
  <1>9. OnlyOf(lg, c, p)
    BY <1>3, <1>4, <1>6, OnlyOfTwo
  <1>10. OnlyOf(lg, e, p)
    BY <1>7, <1>8, <1>9, OnlyOfTwo
  <1> QED
    BY <1>2, <1>8, <1>10, OpensAnew DEF LogInv

\* rotate(): a new log is opened.
LEMMA OpensNewKeeps ==
    ASSUME LogInv, Unused(lg) # {}, NEW p \in Writer, At(p, "opens"), lg' = Goes(Opens(lg, p), p, "writes")
    PROVE  LogInv'
  <1> DEFINE u == Opens(lg, p)
  <1>1. /\ lg \in LogState /\ Directory(lg) /\ Alone(lg) /\ OwnStaged(lg)
        /\ \A q \in Writer : Aims(lg, q) /\ Keeps(lg, q)
    BY DEF LogInv, LogGood
  <1>2. lg.lock[p] = "ex"
    BY <1>1 DEF Aims, At
  <1>3. /\ u \in LogState /\ Directory(u)
        /\ u.lock = lg.lock /\ u.pc = lg.pc /\ u.staged = lg.staged
        /\ u.fd[p] = u.names[Log] /\ u.fd[p] # NoFile
        /\ \A q \in Writer : q # p => Aims(u, q)
        /\ \A q \in Writer : Keeps(u, q)
    BY <1>1, OpensKeeps
  <1> HIDE DEF u
  <1>4. "writes" \in Pcs
    BY DEF Pcs
  <1>5. /\ lg' \in LogState /\ OnlyOf(u, lg', p) /\ lg'.staged = u.staged /\ lg'.lock = u.lock
        /\ lg'.pc[p] = "writes" /\ lg'.fd = u.fd /\ lg'.names = u.names /\ lg'.lines = u.lines
    BY <1>3, <1>4, GoesIs DEF u, SameLines
  <1>6. Aims(lg', p)
    BY <1>2, <1>3, <1>5 DEF Aims
  <1>7. Keeps(lg', p)
    BY <1>3, <1>5 DEF Keeps, At
  <1>8. Alone(lg') /\ OwnStaged(lg')
    BY <1>1, <1>3, <1>5 DEF Alone, OwnStaged
  <1>9. \A s \in Inodes : Called(lg', s) => Called(u, s)
    BY <1>3, <1>5, FewerCalls
  <1> QED
    BY <1>3, <1>5, <1>6, <1>7, <1>8, <1>9, LocalStep DEF LogInv

-----------------------------------------------------------------------------
(* The steps that move files, with the others away from them.              *)

\* Where the exclusive lock is held, or may be, nobody else is at the log.
LEMMA OthersAway ==
    ASSUME LogInv, NEW p \in Writer, lg.lock[p] = "ex" \/ MayExclude(p), NEW y \in LogState,
           \A q \in Writer : q # p => y.fd[q] = lg.fd[q] /\ y.pc[q] = lg.pc[q]
    PROVE  \A q \in Writer : q # p => Aims(y, q)
  <1> SUFFICES ASSUME NEW q \in Writer, q # p PROVE Aims(y, q)
    OBVIOUS
  <1>1. lg \in LogState /\ Alone(lg) /\ Aims(lg, q)
    BY DEF LogInv, LogGood
  <1>2. lg.lock[q] = "none"
    BY <1>1 DEF Alone, MayExclude
  <1>3. lg.fd[q] # NoFile /\ lg.pc[q] \notin {"writes", "rotates", "opens"}
    BY <1>1, <1>2, Quiet
  <1> QED
    BY <1>3, Quiet

LEMMA AloneStays ==
    ASSUME NEW x, NEW y, y.lock = x.lock, Alone(x)
    PROVE  Alone(y)
  BY DEF Alone

\* The file that is rotated: its number is not a staged file's yet.
LEMMA RotatesKeepsStaged ==
    ASSUME LogInv, NEW p \in Writer, At(p, "rotates"), lg.names[Log] # NoFile, lg.compress,
           lg' = Goes(Stages(Rename(lg, Log, Staged(lg.fd[p])), p, lg.fd[p]), p, "opens")
    PROVE  LogInv'
  <1> DEFINE s == lg.fd[p]
             u == Rename(lg, Log, Staged(s))
             v == Stages(u, p, s)
  <1>1. /\ lg \in LogState /\ Directory(lg) /\ Alone(lg) /\ OwnStaged(lg)
        /\ \A q \in Writer : Aims(lg, q) /\ Keeps(lg, q)
    BY DEF LogInv, LogGood
  <1>2. /\ lg.lock[p] = "ex" /\ s \in {lg.names[Log], lg.names[Moved]} /\ ~Called(lg, s)
        /\ s # NoFile /\ lg.staged[p] = NoFile
    BY <1>1, NoneStaged DEF Aims, At
  <1>3. s \in Inodes /\ s \in Files
    BY <1>1, <1>2, FieldsAre DEF Files
  <1>4. /\ lg.names[Staged(s)] = NoFile /\ lg.names[StagedGz(s)] = NoFile
        /\ \A q \in Writer : lg.staged[q] # s
    BY <1>2 DEF Called
  <1>5. Staged(s) \in Names /\ StagedGz(s) \in Names /\ Staged(s) # Log /\ StagedGz(s) # Log
        /\ Staged(s) # Moved /\ StagedGz(s) # Staged(s)
    BY <1>3, NameFacts
  <1>6. /\ u \in LogState /\ SameProcs(lg, u) /\ SameLines(lg, u)
        /\ u.names[Staged(s)] = lg.names[Log] /\ u.names[Log] = NoFile
        /\ \A n \in Names : n # Staged(s) /\ n # Log => u.names[n] = lg.names[n]
    BY <1>1, <1>5, NameFacts, RenameIs
  <1>7. OneName(u) /\ \A l \in Kept(lg) : l \in Kept(u)
    BY <1>1, <1>4, <1>5, NameFacts, RenameLoses DEF Directory
  <1> HIDE DEF u, s
  <1>8. /\ v \in LogState /\ OnlyOf(u, v, p) /\ v.lock = u.lock /\ v.fd = u.fd /\ v.staged[p] = s
    BY <1>3, <1>6, StagesIs
  <1> HIDE DEF v
  <1>9. "opens" \in Pcs
    BY DEF Pcs
  <1>10. lg' = Goes(v, p, "opens")
    BY DEF v, u, s
  <1>11. /\ lg' \in LogState /\ OnlyOf(v, lg', p) /\ lg'.lock = v.lock /\ lg'.fd = v.fd
         /\ lg'.staged = v.staged /\ lg'.pc[p] = "opens"
    BY <1>8, <1>9, <1>10, GoesIs
  <1>12. /\ lg'.lock = lg.lock /\ lg'.fd = lg.fd /\ lg'.staged[p] = s
         /\ lg'.names = u.names /\ lg'.lines = lg.lines /\ lg'.next = lg.next
         /\ lg'.dropped = lg.dropped /\ lg'.compress = lg.compress
         /\ \A q \in Writer : q # p => lg'.pc[q] = lg.pc[q] /\ lg'.staged[q] = lg.staged[q]
    <2>1. OnlyOf(u, lg', p)
      BY <1>8, <1>11, OnlyOfTwo
    <2>2. /\ lg'.names = u.names /\ lg'.lines = u.lines /\ lg'.next = u.next
          /\ lg'.dropped = u.dropped /\ lg'.compress = u.compress
          /\ \A q \in Writer : q # p => lg'.pc[q] = u.pc[q] /\ lg'.staged[q] = u.staged[q]
      BY <2>1 DEF OnlyOf, SameLines
    <2>3. /\ u.lock = lg.lock /\ u.fd = lg.fd /\ u.pc = lg.pc /\ u.staged = lg.staged
          /\ u.lines = lg.lines /\ u.next = lg.next /\ u.dropped = lg.dropped
          /\ u.compress = lg.compress
      BY <1>6 DEF SameProcs, SameLines
    <2>4. lg'.lock = u.lock /\ lg'.fd = u.fd /\ lg'.staged[p] = s
      BY <1>8, <1>11
    <2>5. lg'.compress = lg.compress
      BY <2>2, <2>3, Zenon
    <2>6. \A q \in Writer : q # p => lg'.pc[q] = lg.pc[q] /\ lg'.staged[q] = lg.staged[q]
      BY <2>2, <2>3
    <2> QED
      BY <2>2, <2>3, <2>4, <2>5, <2>6, Zenon
  <1>13. \A t \in Inodes : t # s => /\ lg'.names[Staged(t)] = lg.names[Staged(t)]
                                    /\ lg'.names[StagedGz(t)] = lg.names[StagedGz(t)]
    BY <1>6, <1>12, NameFacts
  <1>14. lg'.names[Moved] = lg.names[Moved] /\ lg'.names[StagedGz(s)] = NoFile
    BY <1>4, <1>5, <1>6, <1>12, NameFacts
  <1>15. CallsTaken(lg')
    <2> SUFFICES ASSUME NEW t \in Inodes, Called(lg', t)
                 PROVE  lg'.names[Staged(t)] = t \/ lg'.names[Moved] = t
      BY DEF CallsTaken
    <2>1. CASE t = s
      BY <1>2, <1>6, <1>12, <1>14, <2>1
    <2>2. CASE t # s
      <3>1. \A q \in Writer : lg'.staged[q] = t => lg.staged[q] = t
        BY <1>12, <2>2
      <3>2. Called(lg, t)
        BY <1>13, <2>2, <3>1 DEF Called
      <3> QED
        BY <1>1, <1>13, <1>14, <2>2, <3>2 DEF Directory, CallsTaken
    <2> QED
      BY <2>1, <2>2
  <1>16. Directory(lg')
    <2>1. OneName(lg') /\ Kept(lg') = Kept(u)
      BY <1>7, <1>12, <1>6 DEF OneName, Kept, NamedFiles, SameLines
    <2> QED
      BY <1>1, <1>7, <1>12, <1>15, <2>1 DEF Directory, NothingLost
  <1>17. OwnStaged(lg')
    <2>1. \A q \in Writer : lg'.staged[q] = s => q = p
      BY <1>4, <1>12
    <2> QED
      BY <1>1, <1>12, <2>1 DEF OwnStaged
  <1>18. Aims(lg', p)
    <2>1. Old(lg', p) = Staged(s)
      BY <1>12 DEF Old, s
    <2>2. lg'.fd[p] \in {lg'.names[Staged(s)], lg'.names[Moved]}
      BY <1>2, <1>6, <1>12, <1>14 DEF s
    <2>3. lg'.lines[lg'.names[Log]] = {}
      BY <1>1, <1>6, <1>12 DEF Directory
    <2> QED
      BY <1>2, <1>11, <1>12, <2>1, <2>2, <2>3 DEF Aims, s
  <1>19. Keeps(lg', p)
    BY <1>2, <1>11, <1>12, <1>14 DEF Keeps
  <1>20. \A q \in Writer : q # p => Aims(lg', q)
    BY <1>2, <1>11, <1>12, OthersAway
  <1>21. ASSUME NEW q \in Writer, q # p PROVE Keeps(lg', q)
    BY <1>1, <1>4, <1>12, <1>13, <1>21, KeepsSame
  <1>22. Alone(lg')
    BY <1>1, <1>12, AloneStays
  <1> QED
    BY <1>11, <1>16, <1>17, <1>18, <1>19, <1>20, <1>21, <1>22 DEF LogInv, LogGood

\* Everything else a step that leaves the locks and the files open as they are keeps.
LEMMA MovesKeep ==
    ASSUME LogInv, NEW p \in Writer, NEW y \in LogState, Directory(y),
           lg.lock[p] = "ex" \/ MayExclude(p),
           y.lock = lg.lock, y.fd = lg.fd,
           \A q \in Writer : q # p => y.pc[q] = lg.pc[q] /\ y.staged[q] = lg.staged[q],
           y.staged[p] \in {NoFile, lg.staged[p]},
           Aims(y, p), \A q \in Writer : Keeps(y, q)
    PROVE  LogGood(y)
  <1>1. Alone(lg) /\ OwnStaged(lg)
    BY DEF LogInv, LogGood
  <1>2. Alone(y)
    BY <1>1, AloneStays
  <1>3. OwnStaged(y)
    BY <1>1 DEF OwnStaged
  <1>4. \A q \in Writer : q # p => Aims(y, q)
    BY OthersAway
  <1> QED
    BY <1>2, <1>3, <1>4 DEF LogGood

\* What a process then does with its own place.
LEMMA DirectoryGoes ==
    ASSUME NEW x \in LogState, NEW p \in Writer, NEW pc \in Pcs, Directory(x)
    PROVE  Directory(Goes(x, p, pc))
  <1>1. /\ Goes(x, p, pc) \in LogState /\ SameLines(x, Goes(x, p, pc))
        /\ Goes(x, p, pc).names = x.names /\ Goes(x, p, pc).staged = x.staged
    BY GoesIs
  <1>2. \A s \in Inodes : Called(Goes(x, p, pc), s) => Called(x, s)
    BY <1>1 DEF Called
  <1> QED
    BY <1>1, <1>2, SameDirectory

\* Without compression the file becomes the first of the backups, which the shift has freed.
LEMMA RotatesKeepsPlain ==
    ASSUME LogInv, NEW p \in Writer, At(p, "rotates"), lg.names[Log] # NoFile, ~lg.compress,
           lg' = Goes(Rename(Shift(lg, "plain"), Log, Backup(1, "plain")), p, "opens")
    PROVE  LogInv'
  <1> DEFINE b == Backup(1, "plain")
             u == Shift(lg, "plain")
             v == Rename(u, Log, b)
  <1>1. /\ lg \in LogState /\ Directory(lg) /\ \A q \in Writer : Aims(lg, q) /\ Keeps(lg, q)
    BY DEF LogInv, LogGood
  <1>2. /\ lg.lock[p] = "ex" /\ lg.fd[p] \in {lg.names[Log], lg.names[Moved]}
        /\ lg.fd[p] # NoFile /\ lg.staged[p] = NoFile
    BY <1>1, NoneStaged DEF Aims, At
  <1>3. "plain" \in Kinds /\ b \in Names /\ b # Log /\ b # Moved /\ Log # Moved
        /\ \A s \in Inodes : {Log, b} \cap {Staged(s), StagedGz(s)} = {}
    BY NameFacts DEF Kinds
  <1>4. /\ u \in LogState /\ SameProcs(lg, u) /\ u.names[b] = NoFile /\ u.lines = lg.lines
        /\ u.names[Log] = lg.names[Log] /\ u.names[Moved] = lg.names[Moved]
    BY <1>1, <1>3, NameFacts, ShiftIs DEF Directory
  <1>5. Directory(u) /\ \A q \in Writer : Keeps(u, q)
    BY <1>1, <1>3, ShiftKeeps
  <1> HIDE DEF u
  <1>6. u.lines[u.names[b]] = {}
    BY <1>4, <1>5 DEF Directory
  <1>7. /\ v \in LogState /\ SameProcs(u, v) /\ v.lines = u.lines
        /\ v.names[b] = u.names[Log] /\ v.names[Log] = NoFile /\ v.names[Moved] = u.names[Moved]
    <2>1. Log \in Names /\ Moved \in Names /\ Log # b /\ u.names[Log] # NoFile
      BY <1>3, <1>4, NameFacts
    <2>2. /\ v \in LogState /\ SameProcs(u, v) /\ SameLines(u, v)
          /\ v.names[b] = u.names[Log] /\ v.names[Log] = NoFile
          /\ \A n \in Names : n # b /\ n # Log => v.names[n] = u.names[n]
      BY SMTT(60), <1>3, <1>4, <2>1, RenameIs
    <2> QED
      BY <1>3, <2>1, <2>2 DEF SameLines
  <1>8. Directory(v) /\ \A q \in Writer : Keeps(v, q)
    BY <1>3, <1>4, <1>5, <1>6, NameFacts, RenameKeeps
  <1> HIDE DEF v
  <1>9. "opens" \in Pcs
    BY DEF Pcs
  <1>10. lg' = Goes(v, p, "opens")
    BY DEF v, u, b
  <1> HIDE DEF b
  <1>11. /\ lg' \in LogState /\ OnlyOf(v, lg', p) /\ lg'.lock = v.lock /\ lg'.fd = v.fd
         /\ lg'.staged = v.staged /\ lg'.pc[p] = "opens" /\ lg'.names = v.names
         /\ lg'.compress = v.compress
    BY <1>7, <1>9, <1>10, GoesIs
  <1>12. Directory(lg')
    BY <1>7, <1>8, <1>9, <1>10, DirectoryGoes
  <1>13. /\ lg'.lock = lg.lock /\ lg'.fd = lg.fd /\ lg'.staged = lg.staged
         /\ lg'.compress = lg.compress /\ lg'.lines = v.lines
         /\ \A q \in Writer : q # p => lg'.pc[q] = lg.pc[q]
    BY <1>4, <1>7, <1>11 DEF SameProcs, OnlyOf, SameLines
  <1>14. Old(lg', p) = b
    BY <1>13 DEF Old, b
  <1>15. Aims(lg', p)
    <2>1. lg'.lines[lg'.names[Log]] = {}
      BY <1>7, <1>11, <1>12 DEF Directory
    <2> QED
      BY <1>2, <1>4, <1>7, <1>11, <1>13, <1>14, <2>1 DEF Aims
  <1>16. ASSUME NEW q \in Writer PROVE Keeps(lg', q)
    <2>1. CASE q = p
      BY <1>2, <1>11, <1>13, <2>1 DEF Keeps
    <2>2. CASE q # p
      BY <1>7, <1>8, <1>11, <1>13, <2>2, KeepsSame DEF OnlyOf
    <2> QED
      BY <2>1, <2>2
  <1> QED
    BY <1>2, <1>11, <1>12, <1>13, <1>15, <1>16, MovesKeep DEF LogInv

\* logrotate has moved the log: it is written on where it is.
LEMMA RotatesNothing ==
    ASSUME LogInv, NEW p \in Writer, At(p, "rotates"), lg.names[Log] = NoFile,
           NEW x \in LogState, x = lg \/ x = Shift(lg, "plain"), lg' = Goes(x, p, "writes")
    PROVE  LogInv'
  <1>1. /\ lg \in LogState /\ Directory(lg) /\ \A q \in Writer : Aims(lg, q) /\ Keeps(lg, q)
    BY DEF LogInv, LogGood
  <1>2. /\ lg.lock[p] = "ex" /\ lg.fd[p] = lg.names[Moved] /\ lg.fd[p] # NoFile
        /\ lg.staged[p] = NoFile
    BY <1>1, NoneStaged DEF Aims, At
  <1>3. "plain" \in Kinds /\ Moved \in Names /\ Moved[1] # "plain" /\ "writes" \in Pcs
    BY NameFacts DEF Kinds, Pcs
  <1>4. SameProcs(lg, x) /\ x.names[Moved] = lg.names[Moved] /\ Directory(x)
    BY <1>1, <1>3, ShiftIs, ShiftKeeps DEF SameProcs, Directory
  <1>5. \A q \in Writer : Keeps(x, q)
    BY <1>1, <1>3, ShiftKeeps
  <1>6. /\ lg' \in LogState /\ OnlyOf(x, lg', p) /\ lg'.lock = x.lock /\ lg'.fd = x.fd
        /\ lg'.staged = x.staged /\ lg'.pc[p] = "writes" /\ lg'.names = x.names
    BY <1>3, GoesIs
  <1>7. Directory(lg')
    BY <1>3, <1>4, DirectoryGoes
  <1>8. /\ lg'.lock = lg.lock /\ lg'.fd = lg.fd /\ lg'.staged = lg.staged
        /\ \A q \in Writer : q # p => lg'.pc[q] = lg.pc[q]
    BY <1>4, <1>6 DEF SameProcs, OnlyOf
  <1>9. Aims(lg', p)
    BY <1>2, <1>4, <1>6, <1>8 DEF Aims
  <1>10. ASSUME NEW q \in Writer PROVE Keeps(lg', q)
    <2>1. CASE q = p
      BY <1>2, <1>6, <1>8, <2>1 DEF Keeps
    <2>2. CASE q # p
      BY <1>5, <1>6, <2>2, KeepsSame DEF OnlyOf, SameLines
    <2> QED
      BY <2>1, <2>2
  <1> QED
    BY <1>2, <1>6, <1>7, <1>8, <1>9, <1>10, MovesKeep DEF LogInv

\* The new log could not be opened: the old one, or what was to be compressed, is put back.
LEMMA PutsBackStaged ==
    ASSUME LogInv, NEW p \in Writer, At(p, "opens"), lg.compress,
           lg' = Goes(Stages(Rename(Fault(lg), Staged(lg.fd[p]), Log), p, NoFile), p, "writes")
    PROVE  LogInv'
  <1> DEFINE s == lg.fd[p]
             f == Fault(lg)
             u == Rename(f, Staged(s), Log)
             v == Stages(u, p, NoFile)
  <1>1. /\ lg \in LogState /\ Directory(lg) /\ OwnStaged(lg)
        /\ \A q \in Writer : Aims(lg, q) /\ Keeps(lg, q)
    BY DEF LogInv, LogGood
  <1>2. Old(lg, p) = Staged(s)
    BY DEF Old
  <1>3. /\ lg.lock[p] = "ex" /\ s \in {lg.names[Staged(s)], lg.names[Moved]}
        /\ s # NoFile /\ lg.staged[p] = s /\ lg.lines[lg.names[Log]] = {}
    BY <1>1, <1>2 DEF Aims, At
  <1>4. s \in Inodes /\ \A q \in Writer : q # p => lg.staged[q] # s
    BY <1>1, <1>3, FieldsAre DEF Files, OwnStaged
  <1>5. lg.names[StagedGz(s)] = NoFile
    BY <1>1, <1>3 DEF Keeps, At
  <1>6. /\ Staged(s) \in Names /\ Staged(s) # Log /\ Staged(s) # Moved /\ Log # Moved
        /\ Log \in Names /\ Moved \in Names /\ StagedGz(s) \in Names /\ StagedGz(s) # Log
        /\ StagedGz(s) # Staged(s)
    BY <1>4, NameFacts
  <1>7. f \in LogState /\ SameProcs(lg, f) /\ SameLines(lg, f) /\ f.names = lg.names
    BY <1>1, FaultIs
  <1> HIDE DEF f, s
  <1>8. OneName(f) /\ Kept(f) = Kept(lg)
    BY <1>1, <1>7 DEF Directory, OneName, Kept, NamedFiles, SameLines
  <1>9. u \in LogState /\ SameProcs(f, u) /\ SameLines(f, u)
    BY <1>6, <1>7, RenameIs
  <1>10. /\ u.names[Staged(s)] = NoFile /\ u.names[StagedGz(s)] = NoFile
         /\ u.names[Moved] = lg.names[Moved]
         /\ lg.names[Staged(s)] # NoFile => u.names[Log] = lg.names[Staged(s)]
         /\ \A n \in Names : n # Log /\ n # Staged(s) => u.names[n] = lg.names[n]
    <2>1. CASE lg.names[Staged(s)] = NoFile
      BY SMTT(60), <1>5, <1>6, <1>7, <2>1, RenameIs
    <2>2. CASE lg.names[Staged(s)] # NoFile
      BY SMTT(60), <1>5, <1>6, <1>7, <2>2, RenameIs
    <2> QED
      BY <2>1, <2>2
  <1>11. OneName(u) /\ \A l \in Kept(lg) : l \in Kept(u)
    <2>1. f.lines[f.names[Log]] = {}
      BY <1>3, <1>7 DEF SameLines
    <2> QED
      BY <1>6, <1>7, <1>8, <2>1, RenameLoses
  <1> HIDE DEF u
  <1>12. \A t \in Inodes : t # s => /\ u.names[Staged(t)] = lg.names[Staged(t)]
                                    /\ u.names[StagedGz(t)] = lg.names[StagedGz(t)]
    BY <1>10, NameFacts
  <1>13. NoFile \in Files /\ "writes" \in Pcs
    BY DEF Files, Pcs
  <1>14. /\ v \in LogState /\ OnlyOf(u, v, p) /\ v.lock = u.lock /\ v.fd = u.fd
         /\ v.staged[p] = NoFile /\ v.names = u.names /\ SameLines(u, v)
    BY <1>9, <1>13, StagesIs
  <1> HIDE DEF v
  <1>15. lg' = Goes(v, p, "writes")
    BY DEF v, u, f, s
  <1>16. /\ lg' \in LogState /\ OnlyOf(v, lg', p) /\ lg'.lock = v.lock /\ lg'.fd = v.fd
         /\ lg'.staged = v.staged /\ lg'.pc[p] = "writes" /\ lg'.names = v.names
         /\ SameLines(v, lg')
    BY <1>13, <1>14, <1>15, GoesIs
  <1>17. /\ lg'.lock = lg.lock /\ lg'.fd = lg.fd /\ lg'.names = u.names /\ lg'.lines = lg.lines
         /\ lg'.next = lg.next /\ lg'.dropped = lg.dropped /\ lg'.staged[p] = NoFile
    BY <1>7, <1>9, <1>14, <1>16 DEF SameProcs, SameLines
  <1>18. \A q \in Writer : q # p => lg'.pc[q] = lg.pc[q] /\ lg'.staged[q] = lg.staged[q]
    <2>1. \A q \in Writer : q # p => v.pc[q] = u.pc[q] /\ v.staged[q] = u.staged[q]
      BY <1>14 DEF OnlyOf
    <2>2. \A q \in Writer : q # p => lg'.pc[q] = v.pc[q] /\ lg'.staged[q] = v.staged[q]
      BY <1>16 DEF OnlyOf
    <2> QED
      BY <1>7, <1>9, <2>1, <2>2 DEF SameProcs
  <1>19. CallsTaken(lg')
    <2> SUFFICES ASSUME NEW t \in Inodes, Called(lg', t)
                 PROVE  lg'.names[Staged(t)] = t \/ lg'.names[Moved] = t
      BY DEF CallsTaken
    <2>1. t # s
      BY <1>3, <1>4, <1>10, <1>17, <1>18 DEF Called
    <2>2. \A q \in Writer : lg'.staged[q] = t => lg.staged[q] = t
      BY <1>17, <1>18, LogConstants
    <2>3. Called(lg, t)
      BY <1>12, <1>17, <2>1, <2>2 DEF Called
    <2> QED
      BY <1>1, <1>10, <1>12, <1>17, <2>1, <2>3 DEF Directory, CallsTaken
  <1>20. Directory(lg')
    <2>1. OneName(lg')
      BY <1>11, <1>17 DEF OneName
    <2>2. Kept(lg') = Kept(u)
      BY <1>7, <1>9, <1>17 DEF Kept, NamedFiles, SameLines
    <2> QED
      BY <1>1, <1>11, <1>17, <1>19, <2>1, <2>2 DEF Directory, NothingLost
  <1>21. Aims(lg', p)
    <2>1. lg'.fd[p] \in {lg'.names[Log], lg'.names[Moved]}
      BY <1>3, <1>10, <1>17 DEF s
    <2> QED
      BY <1>3, <1>16, <1>17, <2>1 DEF Aims, s
  <1>22. ASSUME NEW q \in Writer PROVE Keeps(lg', q)
    <2>1. CASE q = p
      BY <1>16, <1>17, <2>1 DEF Keeps
    <2>2. CASE q # p
      BY <1>1, <1>4, <1>12, <1>17, <1>18, <2>2, KeepsSame
    <2> QED
      BY <2>1, <2>2
  <1> QED
    BY <1>3, <1>16, <1>17, <1>18, <1>20, <1>21, <1>22, MovesKeep DEF LogInv

LEMMA PutsBackPlain ==
    ASSUME LogInv, NEW p \in Writer, At(p, "opens"), ~lg.compress,
           lg' = Goes(Stages(Rename(Fault(lg), Backup(1, "plain"), Log), p, NoFile), p, "writes")
    PROVE  LogInv'
  <1> DEFINE b == Backup(1, "plain")
             f == Fault(lg)
             u == Rename(f, b, Log)
             v == Stages(u, p, NoFile)
  <1>1. /\ lg \in LogState /\ Directory(lg)
        /\ \A q \in Writer : Aims(lg, q) /\ Keeps(lg, q)
    BY DEF LogInv, LogGood
  <1>2. Old(lg, p) = b
    BY DEF Old
  <1>3. /\ lg.lock[p] = "ex" /\ lg.fd[p] \in {lg.names[b], lg.names[Moved]}
        /\ lg.fd[p] # NoFile /\ lg.staged[p] = NoFile /\ lg.lines[lg.names[Log]] = {}
    BY <1>1, <1>2 DEF Aims, At
  <1>4. /\ b \in Names /\ b # Log /\ b # Moved /\ Log # Moved /\ Log \in Names /\ Moved \in Names
        /\ \A s \in Inodes : {b, Log} \cap {Staged(s), StagedGz(s)} = {}
    BY NameFacts
  <1>5. f \in LogState /\ SameProcs(lg, f) /\ SameLines(lg, f) /\ f.names = lg.names
    BY <1>1, FaultIs
  <1> HIDE DEF f
  <1>6. f.lines[f.names[Log]] = {} /\ Directory(f) /\ \A q \in Writer : Keeps(f, q)
    <2>1. \A s \in Inodes : Called(f, s) => Called(lg, s)
      BY <1>5 DEF Called, SameProcs
    <2>2. Directory(f)
      BY <1>1, <1>5, <2>1, SameDirectory
    <2>3. \A q \in Writer : Keeps(f, q)
      BY <1>1, <1>5, KeepsSame DEF SameProcs, SameLines
    <2> QED
      BY <1>3, <1>5, <2>2, <2>3 DEF SameLines
  <1>7. Directory(u) /\ \A q \in Writer : Keeps(u, q)
    BY <1>4, <1>5, <1>6, RenameKeeps
  <1>8. /\ u \in LogState /\ SameProcs(f, u) /\ u.names[Moved] = lg.names[Moved]
        /\ lg.names[b] # NoFile => u.names[Log] = lg.names[b]
    BY <1>4, <1>5, RenameIs
  <1> HIDE DEF u
  <1>9. NoFile \in Files /\ "writes" \in Pcs
    BY DEF Files, Pcs
  <1>10. /\ v \in LogState /\ OnlyOf(u, v, p) /\ v.lock = u.lock /\ v.fd = u.fd /\ v.pc = u.pc
         /\ v.staged[p] = NoFile /\ v.names = u.names /\ SameLines(u, v)
    BY <1>8, <1>9, StagesIs
  <1> HIDE DEF v
  <1>11. \A q \in Writer : v.staged[q] = lg.staged[q]
    <2>1. u.staged = lg.staged
      BY <1>5, <1>8 DEF SameProcs
    <2>2. \A q \in Writer : q # p => v.staged[q] = u.staged[q]
      BY <1>10 DEF OnlyOf
    <2> QED
      BY <1>3, <1>10, <2>1, <2>2
  <1>12. Directory(v)
    <2>1. \A q \in Writer : v.staged[q] = u.staged[q]
      BY <1>5, <1>8, <1>11 DEF SameProcs
    <2>2. \A s \in Inodes : Called(v, s) => Called(u, s)
      BY <1>10, <2>1 DEF Called
    <2> QED
      BY <1>7, <1>8, <1>10, <2>2, SameDirectory
  <1>13. lg' = Goes(v, p, "writes")
    BY DEF v, u, f, b
  <1>14. /\ lg' \in LogState /\ OnlyOf(v, lg', p) /\ lg'.lock = v.lock /\ lg'.fd = v.fd
         /\ lg'.staged = v.staged /\ lg'.pc[p] = "writes" /\ lg'.names = v.names
         /\ SameLines(v, lg')
    BY <1>9, <1>10, <1>13, GoesIs
  <1>15. Directory(lg')
    BY <1>9, <1>10, <1>12, <1>13, DirectoryGoes
  <1>16. /\ lg'.lock = lg.lock /\ lg'.fd = lg.fd
         /\ \A q \in Writer : q # p => lg'.pc[q] = lg.pc[q]
         /\ \A q \in Writer : lg'.staged[q] = lg.staged[q]
    <2>1. \A q \in Writer : q # p => lg'.pc[q] = v.pc[q]
      BY <1>14 DEF OnlyOf
    <2> QED
      BY <1>5, <1>8, <1>10, <1>11, <1>14, <2>1 DEF SameProcs
  <1>17. Aims(lg', p)
    <2>1. lg'.fd[p] \in {lg'.names[Log], lg'.names[Moved]}
      BY <1>3, <1>8, <1>10, <1>14, <1>16
    <2> QED
      BY <1>3, <1>14, <1>16, <2>1 DEF Aims
  <1>18. ASSUME NEW q \in Writer PROVE Keeps(lg', q)
    <2>1. CASE q = p
      BY <1>3, <1>14, <1>16, <2>1 DEF Keeps
    <2>2. CASE q # p
      <3>1. lg'.pc[q] = u.pc[q] /\ lg'.staged[q] = u.staged[q]
        BY <1>5, <1>8, <1>16, <2>2 DEF SameProcs
      <3>2. lg'.names = u.names /\ lg'.lines = u.lines
        BY <1>10, <1>14 DEF SameLines
      <3> QED
        BY <1>7, <1>8, <3>1, <3>2, KeepsSame
    <2> QED
      BY <2>1, <2>2
  <1> QED
    BY <1>3, <1>14, <1>15, <1>16, <1>17, <1>18, MovesKeep DEF LogInv

-----------------------------------------------------------------------------
(* A line written, and the file compressed.                                *)

LEMMA AddsIs ==
    ASSUME NEW x \in LogState, NEW p \in Writer
    PROVE  LET y == Adds(x, p)
           IN  /\ y \in LogState /\ y.names = x.names /\ y.fd = x.fd /\ y.lock = x.lock
               /\ y.pc = x.pc /\ y.staged = x.staged /\ y.compress = x.compress
               /\ y.dropped = x.dropped /\ y.next = x.next + 1
               /\ y.lines[x.fd[p]] = x.lines[x.fd[p]] \cup {x.next}
               /\ \A f \in Files : f # x.fd[p] => y.lines[f] = x.lines[f]
  <1> DEFINE f == x.fd[p]
             more == x.lines[f] \cup {x.next}
             longer == x.size[p] + 1
             y == Adds(x, p)
  <1>1. f \in Files /\ x.next \in Nat /\ x.next + 1 \in Nat /\ longer \in Nat
    BY FieldsAre
  <1>2. more \in LineSets
    <2>1. x.lines[f] \in SUBSET Nat /\ IsFiniteSet(x.lines[f])
      BY <1>1, FieldsAre DEF LineSets
    <2>2. IsFiniteSet(more)
      BY <2>1, FS_AddElement
    <2> QED
      BY <1>1, <2>1, <2>2 DEF LineSets
  <1>3. y = [x EXCEPT !.lines[f] = more, !.next = x.next + 1, !.size[p] = longer]
    BY DEF Adds
  <1>4. more = x.lines[f] \cup {x.next} /\ f = x.fd[p]
    OBVIOUS
  <1> HIDE DEF more, longer, f, y
  <1>5. y \in LogState
    <2> DEFINE ls == [x.lines EXCEPT ![f] = more]
               zs == [x.size EXCEPT ![p] = longer]
    <2>1. ls \in [Files -> LineSets] /\ zs \in [Writer -> Nat]
      BY <1>1, <1>2, FieldsAre
    <2>2. y = [x EXCEPT !.lines = ls, !.next = x.next + 1, !.size = zs]
      BY <1>3
    <2> HIDE DEF ls, zs
    <2> QED
      BY <1>1, <2>1, <2>2 DEF LogState
  <1>6. /\ y.names = x.names /\ y.fd = x.fd /\ y.lock = x.lock
        /\ y.pc = x.pc /\ y.staged = x.staged /\ y.compress = x.compress
        /\ y.dropped = x.dropped /\ y.next = x.next + 1
    BY <1>3 DEF LogState
  <1>7. y.lines[f] = more /\ \A n \in Files : n # f => y.lines[n] = x.lines[n]
    BY <1>1, <1>3 DEF LogState
  <1> QED
    BY <1>4, <1>5, <1>6, <1>7 DEF y

\* write(): the line goes to the log, or to where logrotate has moved it.
LEMMA WritesKeeps ==
    ASSUME LogInv, NEW p \in Writer, Writes(p)
    PROVE  LogInv'
  <1> DEFINE u == Adds(lg, p)
             v == Locks(u, p, "none")
             pc == IF lg.staged[p] # NoFile THEN "compresses" ELSE "idle"
             f == lg.fd[p]
  <1>1. /\ lg \in LogState /\ Directory(lg) /\ Alone(lg) /\ OwnStaged(lg)
        /\ \A q \in Writer : Aims(lg, q) /\ Keeps(lg, q)
    BY DEF LogInv, LogGood
  <1>2. /\ lg.pc[p] = "writes" /\ f # NoFile /\ f \in {lg.names[Log], lg.names[Moved]}
        /\ lg.lock[p] \in {"sh", "ex"}
    BY <1>1 DEF Aims, Writes, At
  <1>3. /\ u \in LogState /\ u.names = lg.names /\ u.fd = lg.fd /\ u.lock = lg.lock
        /\ u.pc = lg.pc /\ u.staged = lg.staged /\ u.compress = lg.compress
        /\ u.dropped = lg.dropped /\ u.next = lg.next + 1
        /\ u.lines[f] = lg.lines[f] \cup {lg.next}
        /\ \A n \in Files : n # f => u.lines[n] = lg.lines[n]
    BY <1>1, AddsIs
  <1> HIDE DEF u, f
  <1>4. /\ v \in LogState /\ OnlyOf(u, v, p) /\ SameLines(u, v) /\ v.names = u.names
        /\ v.fd = u.fd /\ v.pc = u.pc /\ v.staged = u.staged
        /\ v.compress = u.compress /\ v.lock[p] = "none"
    BY <1>3, LocksIs
  <1> HIDE DEF v
  <1>5. pc \in Pcs /\ pc \in {"compresses", "idle"}
    BY DEF Pcs
  <1>6. lg' = Goes(v, p, pc)
    BY DEF v, u, Writes
  <1>7. pc = IF lg.staged[p] # NoFile THEN "compresses" ELSE "idle"
    OBVIOUS
  <1> HIDE DEF pc
  <1>8. /\ lg' \in LogState /\ OnlyOf(v, lg', p) /\ SameLines(v, lg') /\ lg'.names = v.names
        /\ lg'.fd = v.fd /\ lg'.lock = v.lock /\ lg'.staged = v.staged
        /\ lg'.compress = v.compress /\ lg'.pc[p] = pc
    BY <1>4, <1>5, <1>6, GoesIs
  <1>9. /\ lg'.names = lg.names /\ lg'.fd = lg.fd /\ lg'.staged = lg.staged
        /\ lg'.compress = lg.compress /\ lg'.dropped = lg.dropped /\ lg'.next = lg.next + 1
        /\ lg'.lines = u.lines /\ lg'.lock[p] = "none"
    BY <1>3, <1>4, <1>8 DEF SameLines
  <1>10. \A q \in Writer : q # p => lg'.pc[q] = lg.pc[q] /\ lg'.lock[q] = lg.lock[q]
    <2>1. \A q \in Writer : q # p => v.lock[q] = u.lock[q]
      BY <1>4 DEF OnlyOf
    <2>2. \A q \in Writer : q # p => lg'.pc[q] = v.pc[q]
      BY <1>8 DEF OnlyOf
    <2> QED
      BY <1>3, <1>4, <1>8, <2>1, <2>2
  <1>11. \A n \in Names : lg.lines[lg.names[n]] \subseteq lg'.lines[lg.names[n]]
    <2> SUFFICES ASSUME NEW n \in Names
                 PROVE  lg.lines[lg.names[n]] \subseteq lg'.lines[lg.names[n]]
      OBVIOUS
    <2>1. lg.names[n] \in Files
      BY <1>1, FieldsAre
    <2> QED
      BY <1>3, <1>9, <2>1
  <1>12. \A s \in Inodes : lg'.lines[lg.names[Staged(s)]] = lg.lines[lg.names[Staged(s)]]
    <2> SUFFICES ASSUME NEW s \in Inodes
                 PROVE  lg'.lines[lg.names[Staged(s)]] = lg.lines[lg.names[Staged(s)]]
      OBVIOUS
    <2>1. /\ Staged(s) \in Names /\ Log \in Names /\ Moved \in Names
          /\ Staged(s) # Log /\ Staged(s) # Moved
      BY NameFacts
    <2>2. lg.names[Staged(s)] # f
      BY <1>1, <1>2, <2>1 DEF Directory, OneName
    <2>3. lg.names[Staged(s)] \in Files
      BY <1>1, <2>1, FieldsAre
    <2> QED
      BY <1>3, <1>9, <2>2, <2>3
  <1>13. NothingLost(lg')
    <2> SUFFICES ASSUME NEW l \in Nat, l >= 1, l < lg.next + 1
                 PROVE  l \in Kept(lg') \cup lg'.dropped
      BY <1>9 DEF NothingLost
    <2>1. CASE l = lg.next
      <3>1. PICK n \in {Log, Moved} : lg.names[n] = f
        BY <1>2
      <3>2. /\ n \in Names /\ lg'.names[n] # NoFile
            /\ l \in lg'.lines[lg'.names[n]]
        BY <1>2, <1>3, <1>9, <2>1, <3>1, NameFacts
      <3> QED
        BY <3>2, KeptIs
    <2>2. CASE l # lg.next
      <3>1. l < lg.next
        BY <1>1, <2>2, FieldsAre
      <3>2. l \in Kept(lg) \cup lg.dropped
        BY <1>1, <3>1 DEF Directory, NothingLost
      <3>3. CASE l \in lg.dropped
        BY <1>9, <3>3
      <3>4. CASE l \in Kept(lg)
        <4>1. PICK n \in Names : lg.names[n] # NoFile /\ l \in lg.lines[lg.names[n]]
          BY <3>4, KeptIs
        <4>2. lg'.names[n] # NoFile /\ l \in lg'.lines[lg'.names[n]]
          BY <1>9, <1>11, <4>1
        <4> QED
          BY <4>2, KeptIs
      <3> QED
        BY <3>2, <3>3, <3>4
    <2> QED
      BY <2>1, <2>2
  <1>14. \A s : Called(lg', s) <=> Called(lg, s)
    BY <1>9 DEF Called
  <1>15. Directory(lg')
    <2>1. OneName(lg') /\ CallsTaken(lg')
      BY <1>1, <1>9, <1>14 DEF Directory, OneName, CallsTaken
    <2>2. lg'.lines[NoFile] = {}
      BY <1>1, <1>2, <1>3, <1>9 DEF Directory, Files
    <2> QED
      BY <1>13, <2>1, <2>2 DEF Directory
  <1>16. Alone(lg') /\ OwnStaged(lg')
    BY <1>1, <1>9, <1>10 DEF Alone, OwnStaged
  <1>17. Aims(lg', p)
    BY <1>2, <1>5, <1>8, <1>9 DEF Aims, f
  <1>18. ASSUME NEW q \in Writer, q # p PROVE Aims(lg', q)
    <2>1. lg.pc[q] # "opens"
      BY <1>1, <1>2, <1>18 DEF Aims, Alone
    <2> QED
      BY <1>1, <1>9, <1>10, <1>14, <1>18, <2>1 DEF Aims
  <1>19. ASSUME NEW q \in Writer PROVE Keeps(lg', q)
    <2>1. CASE lg.staged[q] = NoFile
      <3>1. lg'.pc[q] \notin {"compresses", "finishes", "gives up"}
        <4>1. CASE q = p
          BY <1>7, <1>8, <2>1, <4>1
        <4>2. CASE q # p
          BY <1>1, <1>10, <2>1, <4>2 DEF Keeps
        <4> QED
          BY <4>1, <4>2
      <3> QED
        BY <1>9, <2>1, <3>1 DEF Keeps
    <2>2. CASE lg.staged[q] # NoFile
      <3>1. lg.staged[q] \in Inodes /\ StagedGz(lg.staged[q]) \in Names
        BY <1>1, <2>2, FieldsAre, NameFacts DEF Files
      <3>2. /\ lg'.lines[lg.names[Staged(lg.staged[q])]] = lg.lines[lg.names[Staged(lg.staged[q])]]
            /\ lg.lines[lg.names[StagedGz(lg.staged[q])]]
                 \subseteq lg'.lines[lg.names[StagedGz(lg.staged[q])]]
        BY <1>11, <1>12, <3>1
      <3>3. CASE q = p
        BY <1>1, <1>2, <1>7, <1>8, <1>9, <2>2, <3>3 DEF Keeps
      <3>4. CASE q # p
        BY <1>1, <1>9, <1>10, <2>2, <3>2, <3>4 DEF Keeps
      <3> QED
        BY <3>3, <3>4
    <2> QED
      BY <2>1, <2>2
  <1> QED
    BY <1>8, <1>15, <1>16, <1>17, <1>18, <1>19 DEF LogInv, LogGood

\* finish_rotation(): the copy is a file nobody has.
LEMMA CopiesIs ==
    ASSUME NEW x \in LogState, NEW from \in Names, NEW to \in Names, from # to, Unused(x) # {}
    PROVE  LET y == Copies(x, from, to)
               n == y.names[to]
           IN  /\ y \in LogState /\ SameProcs(x, y) /\ y.next = x.next /\ y.dropped = x.dropped
               /\ n \in Inodes /\ n # NoFile /\ y.lines[n] = x.lines[x.names[from]]
               /\ \A m \in Names : x.names[m] # n /\ (m # to => y.names[m] = x.names[m])
               /\ \A f \in Files : f # n => y.lines[f] = x.lines[f]
  <1> DEFINE n0 == UnusedInode(x)
             copied == x.lines[x.names[from]]
             y == Copies(x, from, to)
  <1>1. n0 \in Inodes /\ n0 # NoFile /\ n0 \in Files /\ \A n \in Names : x.names[n] # n0
    BY UnusedIs DEF Files
  <1>2. copied \in LineSets
    BY FieldsAre
  <1>3. y = [x EXCEPT !.names[to] = n0, !.lines[n0] = copied]
    BY DEF Copies
  <1> HIDE DEF n0, copied
  <1>4. y \in LogState
    <2> DEFINE ns == [x.names EXCEPT ![to] = n0]
               ls == [x.lines EXCEPT ![n0] = copied]
    <2>1. ns \in [Names -> Files] /\ ls \in [Files -> LineSets]
      BY <1>1, <1>2, FieldsAre
    <2>2. y = [x EXCEPT !.names = ns, !.lines = ls]
      BY <1>3
    <2> HIDE DEF ns, ls
    <2> QED
      BY <2>1, <2>2 DEF LogState
  <1>5. SameProcs(x, y) /\ y.next = x.next /\ y.dropped = x.dropped
    BY <1>3 DEF SameProcs, LogState
  <1>6. y.names[to] = n0 /\ \A m \in Names : m # to => y.names[m] = x.names[m]
    BY <1>3 DEF LogState
  <1>7. y.lines[n0] = copied /\ \A f \in Files : f # n0 => y.lines[f] = x.lines[f]
    BY <1>1, <1>3 DEF LogState
  <1> HIDE DEF y
  <1> QED
    BY <1>1, <1>4, <1>5, <1>6, <1>7 DEF copied, y

LEMMA CompressesKeeps ==
    ASSUME LogInv, Unused(lg) # {}, NEW p \in Writer, At(p, "compresses"),
           lg.names[Staged(lg.staged[p])] # NoFile,
           lg' = Goes(Copies(lg, Staged(lg.staged[p]), StagedGz(lg.staged[p])), p, "finishes")
    PROVE  LogInv'
  <1> DEFINE s == lg.staged[p]
             u == Copies(lg, Staged(s), StagedGz(s))
             n0 == u.names[StagedGz(s)]
  <1>1. /\ lg \in LogState /\ Directory(lg) /\ Alone(lg) /\ OwnStaged(lg)
        /\ \A q \in Writer : Aims(lg, q) /\ Keeps(lg, q)
    BY DEF LogInv, LogGood
  <1>2. s # NoFile /\ lg.names[StagedGz(s)] = NoFile
    BY <1>1 DEF Keeps, At
  <1>3. s \in Inodes /\ \A q \in Writer : q # p => lg.staged[q] # s
    BY <1>1, <1>2, FieldsAre DEF Files, OwnStaged
  <1>4. Staged(s) \in Names /\ StagedGz(s) \in Names /\ Staged(s) # StagedGz(s)
    BY <1>3, NameFacts
  <1>5. /\ u \in LogState /\ SameProcs(lg, u) /\ u.next = lg.next /\ u.dropped = lg.dropped
        /\ n0 \in Inodes /\ n0 # NoFile /\ u.lines[n0] = lg.lines[lg.names[Staged(s)]]
        /\ \A m \in Names : lg.names[m] # n0 /\ (m # StagedGz(s) => u.names[m] = lg.names[m])
        /\ \A f \in Files : f # n0 => u.lines[f] = lg.lines[f]
    BY <1>1, <1>4, CopiesIs
  <1>6. "finishes" \in Pcs
    BY DEF Pcs
  <1>7. lg' = Goes(u, p, "finishes")
    OBVIOUS
  <1>8. n0 = u.names[StagedGz(s)]
    OBVIOUS
  <1> HIDE DEF u, n0, s
  <1>9. /\ lg' \in LogState /\ OnlyOf(u, lg', p) /\ SameLines(u, lg') /\ lg'.names = u.names
        /\ lg'.fd = u.fd /\ lg'.lock = u.lock /\ lg'.staged = u.staged
        /\ lg'.compress = u.compress /\ lg'.pc[p] = "finishes"
    BY <1>5, <1>6, <1>7, GoesIs
  <1>10. /\ lg'.names = u.names /\ lg'.lines = u.lines /\ lg'.next = lg.next
         /\ lg'.dropped = lg.dropped /\ lg'.fd = lg.fd /\ lg'.lock = lg.lock
         /\ lg'.staged = lg.staged /\ lg'.compress = lg.compress
    BY <1>5, <1>9 DEF SameProcs, SameLines
  <1>11. \A q \in Writer : q # p => lg'.pc[q] = lg.pc[q]
    BY <1>5, <1>9 DEF SameProcs, OnlyOf
  <1>12. \A m \in Names : /\ lg'.lines[lg.names[m]] = lg.lines[lg.names[m]]
                          /\ m # StagedGz(s) => lg'.names[m] = lg.names[m]
    BY <1>1, <1>5, <1>10, FieldsAre
  <1>13. lg'.names[StagedGz(s)] = n0
    BY <1>8, <1>10
  <1>14. OneName(lg')
    <2> SUFFICES ASSUME NEW a \in Names, NEW b \in Names, lg'.names[a] = lg'.names[b],
                        lg'.names[a] # NoFile
                 PROVE  a = b
      BY DEF OneName
    <2>1. a # StagedGz(s) => lg'.names[a] # n0
      BY <1>5, <1>12
    <2>2. b # StagedGz(s) => lg'.names[b] # n0
      BY <1>5, <1>12
    <2>3. CASE a # StagedGz(s) /\ b # StagedGz(s)
      BY <1>1, <1>12, <2>3 DEF Directory, OneName
    <2> QED
      BY <1>13, <2>1, <2>2, <2>3
  <1>15. /\ Log \in Names /\ Moved \in Names /\ Backup(1, "plain") \in Names
         /\ Log # StagedGz(s) /\ Moved # StagedGz(s) /\ Backup(1, "plain") # StagedGz(s)
         /\ \A t \in Inodes : /\ Staged(t) \in Names /\ Staged(t) # StagedGz(s)
                              /\ t # s => StagedGz(t) \in Names /\ StagedGz(t) # StagedGz(s)
    BY <1>3, NameFacts DEF Kinds
  <1>16. \A t \in Inodes : Called(lg', t) <=> Called(lg, t)
    <2> SUFFICES ASSUME NEW t \in Inodes PROVE Called(lg', t) <=> Called(lg, t)
      OBVIOUS
    <2>1. CASE t = s
      BY <1>10, <2>1 DEF Called, s
    <2>2. CASE t # s
      BY <1>10, <1>12, <1>15, <2>2 DEF Called
    <2> QED
      BY <2>1, <2>2
  <1>17. Directory(lg')
    <2>1. CallsTaken(lg')
      BY <1>1, <1>12, <1>15, <1>16 DEF Directory, CallsTaken
    <2>2. lg'.lines[NoFile] = {}
      BY <1>1, <1>5, <1>10 DEF Directory, Files
    <2>3. \A l \in Kept(lg) : l \in Kept(lg')
      <3> SUFFICES ASSUME NEW l \in Kept(lg) PROVE l \in Kept(lg')
        OBVIOUS
      <3>1. PICK m \in Names : lg.names[m] # NoFile /\ l \in lg.lines[lg.names[m]]
        BY KeptIs
      <3>2. m # StagedGz(s)
        BY <1>2, <3>1
      <3>3. lg'.names[m] # NoFile /\ l \in lg'.lines[lg'.names[m]]
        BY <1>12, <3>1, <3>2
      <3> QED
        BY <3>3, KeptIs
    <2> QED
      BY <1>1, <1>10, <1>14, <2>1, <2>2, <2>3 DEF Directory, NothingLost
  <1>18. Alone(lg') /\ OwnStaged(lg')
    BY SMTT(60), <1>1, <1>10 DEF Alone, OwnStaged
  <1>19. Aims(lg', p)
    BY <1>1, <1>9, <1>10 DEF Aims
  <1>20. ASSUME NEW q \in Writer, q # p PROVE Aims(lg', q)
    <2>1. lg.fd[q] # NoFile /\ lg.fd[q] \in Inodes
      BY <1>1, FieldsAre DEF Aims, Files
    <2>2. Old(lg', q) = Old(lg, q) /\ lg'.names[Old(lg, q)] = lg.names[Old(lg, q)]
      BY <1>10, <1>12, <1>15, <2>1 DEF Old
    <2>3. /\ lg'.names[Log] = lg.names[Log] /\ lg'.names[Moved] = lg.names[Moved]
          /\ lg'.lines[lg.names[Log]] = lg.lines[lg.names[Log]]
      BY <1>12, <1>15
    <2>4. Called(lg', lg.fd[q]) <=> Called(lg, lg.fd[q])
      BY <1>16, <2>1
    <2> QED
      BY ZenonT(60), <1>1, <1>10, <1>11, <1>20, <2>2, <2>3, <2>4 DEF Aims
  <1>21. Keeps(lg', p)
    <2>1. lg'.staged[p] = s
      BY <1>10 DEF s
    <2>2. lg'.lines[n0] = lg.lines[lg.names[Staged(s)]]
      BY <1>5, <1>10
    <2>3. lg'.lines[lg'.names[Staged(s)]] = lg.lines[lg.names[Staged(s)]]
      BY <1>3, <1>4, <1>12
    <2> QED
      BY <1>2, <1>5, <1>9, <1>13, <2>1, <2>2, <2>3 DEF Keeps
  <1>22. ASSUME NEW q \in Writer, q # p PROVE Keeps(lg', q)
    <2>1. \A t \in Inodes : lg.staged[q] = t => t # s
      BY <1>3, <1>22
    <2> QED
      BY SMTT(60), <1>1, <1>10, <1>11, <1>12, <1>15, <1>22, <2>1, NameFacts, KeepsSame
  <1> QED
    BY <1>9, <1>17, <1>18, <1>19, <1>20, <1>21, <1>22 DEF LogInv, LogGood

\* No copy can be made, or the file is gone.
LEMMA GivesUpKeeps ==
    ASSUME LogInv, NEW p \in Writer, At(p, "compresses"), NEW x, x \in {lg, Fault(lg)},
           lg' = Goes(x, p, "gives up")
    PROVE  LogInv'
  <1>1. /\ lg \in LogState /\ Directory(lg) /\ Alone(lg) /\ OwnStaged(lg)
        /\ \A q \in Writer : Aims(lg, q) /\ Keeps(lg, q)
    BY DEF LogInv, LogGood
  <1>2. x \in LogState /\ SameLines(lg, x) /\ SameProcs(lg, x) /\ x.names = lg.names
    BY ZenonT(60), <1>1, FaultIs DEF SameLines, SameProcs
  <1>3. "gives up" \in Pcs
    BY DEF Pcs
  <1>4. /\ lg' \in LogState /\ OnlyOf(x, lg', p) /\ lg'.staged = x.staged /\ lg'.lock = x.lock
        /\ lg'.fd = x.fd /\ lg'.pc[p] = "gives up" /\ SameLines(x, lg') /\ lg'.names = x.names
    BY <1>2, <1>3, GoesIs
  <1>5. OnlyOf(lg, lg', p)
    <2>1. OnlyOf(lg, x, p)
      BY <1>2 DEF OnlyOf, SameProcs
    <2> QED
      BY <1>4, <2>1, OnlyOfTwo
  <1>6. /\ lg'.staged = lg.staged /\ lg'.lock = lg.lock /\ lg'.fd = lg.fd
        /\ lg'.names = lg.names
    BY <1>2, <1>4 DEF SameProcs
  <1>7. \A s \in Inodes : Called(lg', s) => Called(lg, s)
    BY <1>6 DEF Called
  <1>8. Aims(lg', p)
    BY <1>1, <1>4, <1>6 DEF Aims
  <1>9. Keeps(lg', p)
    <2>1. lg.pc[p] = "compresses"
      BY DEF At
    <2> QED
      BY <1>1, <1>4, <1>6, <2>1 DEF Keeps
  <1>10. Alone(lg') /\ OwnStaged(lg')
    BY ZenonT(60), <1>1, <1>6 DEF Alone, OwnStaged
  <1> QED
    BY <1>1, <1>4, <1>5, <1>7, <1>8, <1>9, <1>10, LocalStep DEF LogInv

-----------------------------------------------------------------------------
(* The copy, or the file, put into the chain.                              *)

\* The names of one staged file, and of another.
LEMMA StagedNames ==
    ASSUME NEW s \in Inodes, NEW e \in Kinds
    PROVE  /\ Staged(s) \in Names /\ StagedGz(s) \in Names /\ Staged(s) # StagedGz(s)
           /\ Staged(s) # Backup(1, e) /\ StagedGz(s) # Backup(1, e)
           /\ Staged(s) # Moved /\ StagedGz(s) # Moved /\ Backup(1, e) # Moved
           /\ Staged(s)[1] # "gz" /\ StagedGz(s)[1] # "gz" /\ Moved[1] # "gz"
           /\ Moved \in Names /\ Backup(1, e) \in Names
  BY NameFacts DEF Kinds

LEMMA OtherStaged ==
    ASSUME NEW s \in Inodes, NEW t \in Inodes, t # s
    PROVE  /\ Staged(t) # Staged(s) /\ Staged(t) # StagedGz(s)
           /\ StagedGz(t) # Staged(s) /\ StagedGz(t) # StagedGz(s)
  BY NameFacts

LEMMA KeptSame ==
    ASSUME NEW x, NEW y, y.names = x.names, y.lines = x.lines
    PROVE  Kept(y) = Kept(x)
  BY DEF Kept, NamedFiles

\* What it takes of the directory for that.
LEMMA FinishesWith ==
    ASSUME LogInv, NEW p \in Writer, At(p, "finishes") \/ At(p, "gives up"), MayExclude(p),
           NEW v \in LogState, SameProcs(lg, v), OneName(v), v.lines = lg.lines, v.next = lg.next,
           lg.dropped \subseteq v.dropped, Kept(lg) \subseteq Kept(v) \cup v.dropped,
           v.names[Moved] = lg.names[Moved],
           v.names[Staged(lg.staged[p])] = NoFile, v.names[StagedGz(lg.staged[p])] = NoFile,
           \A t \in Inodes : t # lg.staged[p] =>
               /\ v.names[Staged(t)] = lg.names[Staged(t)]
               /\ v.names[StagedGz(t)] = lg.names[StagedGz(t)],
           lg' = Goes(Stages(v, p, NoFile), p, "idle")
    PROVE  LogInv'
  <1> DEFINE s == lg.staged[p]
             w == Stages(v, p, NoFile)
  <1>1. /\ lg \in LogState /\ Directory(lg) /\ OwnStaged(lg)
        /\ \A q \in Writer : Aims(lg, q) /\ Keeps(lg, q)
    BY DEF LogInv, LogGood
  <1>2. s # NoFile
    BY <1>1 DEF Keeps, At
  <1>3. s \in Inodes /\ \A q \in Writer : q # p => lg.staged[q] # s
    BY <1>1, <1>2, FieldsAre DEF Files, OwnStaged
  <1>4. NoFile \in Files
    BY DEF Files
  <1>5. /\ w \in LogState /\ OnlyOf(v, w, p) /\ SameLines(v, w) /\ w.names = v.names
        /\ w.lock = v.lock /\ w.fd = v.fd /\ w.pc = v.pc /\ w.staged[p] = NoFile
    BY <1>4, StagesIs
  <1>6. lg' = Goes(w, p, "idle")
    OBVIOUS
  <1> HIDE DEF w
  <1>7. /\ lg' \in LogState /\ OnlyOf(w, lg', p) /\ SameLines(w, lg') /\ lg'.names = w.names
        /\ lg'.lock = w.lock /\ lg'.fd = w.fd /\ lg'.staged = w.staged /\ lg'.pc[p] = "idle"
    <2> DEFINE g == Goes(w, p, "idle")
    <2>1. "idle" \in Pcs /\ w \in LogState
      BY <1>5 DEF Pcs
    <2>2. /\ g \in LogState /\ OnlyOf(w, g, p) /\ SameLines(w, g) /\ g.names = w.names
          /\ g.lock = w.lock /\ g.fd = w.fd /\ g.staged = w.staged /\ g.pc[p] = "idle"
      BY <2>1, GoesIs
    <2> HIDE DEF g
    <2>3. lg' = g
      BY <1>6 DEF g
    <2> QED
      BY <2>2, <2>3, Zenon
  <1>8. /\ lg'.lock = lg.lock /\ lg'.fd = lg.fd /\ lg'.names = v.names /\ lg'.lines = lg.lines
        /\ lg'.next = lg.next /\ lg'.dropped = v.dropped /\ lg'.staged[p] = NoFile
    BY <1>5, <1>7 DEF SameProcs, SameLines
  <1>9. \A q \in Writer : q # p => lg'.pc[q] = lg.pc[q] /\ lg'.staged[q] = lg.staged[q]
    <2>1. \A q \in Writer : q # p => w.staged[q] = v.staged[q]
      BY <1>5 DEF OnlyOf
    <2>2. \A q \in Writer : q # p => lg'.pc[q] = w.pc[q]
      BY <1>7 DEF OnlyOf
    <2> QED
      BY ZenonT(60), <1>5, <1>7, <2>1, <2>2 DEF SameProcs
  <1>10. CallsTaken(lg')
    <2> SUFFICES ASSUME NEW t \in Inodes, Called(lg', t)
                 PROVE  lg'.names[Staged(t)] = t \/ lg'.names[Moved] = t
      BY DEF CallsTaken
    <2>1. t # s
      BY <1>2, <1>3, <1>8, <1>9 DEF Called
    <2>2. \A q \in Writer : lg'.staged[q] = t => lg.staged[q] = t
      BY ZenonT(60), <1>8, <1>9, LogConstants
    <2>3. Called(lg, t)
      BY <1>8, <2>1, <2>2 DEF Called
    <2> QED
      BY <1>1, <1>8, <2>1, <2>3 DEF Directory, CallsTaken
  <1>11. Directory(lg')
    <2>1. OneName(lg')
      BY <1>8 DEF OneName
    <2>2. Kept(lg') = Kept(v)
      BY <1>8, KeptSame
    <2> QED
      BY <1>1, <1>8, <1>10, <2>1, <2>2 DEF Directory, NothingLost
  <1>12. Aims(lg', p)
    BY <1>1, <1>7, <1>8 DEF Aims
  <1>13. ASSUME NEW q \in Writer PROVE Keeps(lg', q)
    <2>1. CASE q = p
      BY <1>7, <1>8, <2>1 DEF Keeps
    <2>2. CASE q # p
      <3>1. \A t \in Inodes : lg.staged[q] = t => t # s
        BY <1>3, <2>2
      <3>2. lg'.pc[q] = lg.pc[q] /\ lg'.staged[q] = lg.staged[q]
        BY <1>9, <2>2
      <3>3. \A t \in Inodes : lg.staged[q] = t =>
                /\ lg'.names[Staged(t)] = lg.names[Staged(t)]
                /\ lg'.names[StagedGz(t)] = lg.names[StagedGz(t)]
                /\ lg'.lines[lg.names[Staged(t)]] = lg.lines[lg.names[Staged(t)]]
                /\ lg'.lines[lg.names[StagedGz(t)]] = lg.lines[lg.names[StagedGz(t)]]
        BY <1>8, <3>1
      <3>4. lg \in LogState /\ Keeps(lg, q)
        BY <1>1
      <3>5. lg.staged[q] # NoFile => lg.staged[q] \in Inodes
        BY <1>1, FieldsAre DEF Files
      <3>6. CASE lg.staged[q] = NoFile
        BY <3>2, <3>4, <3>6 DEF Keeps
      <3>7. CASE lg.staged[q] # NoFile
        BY ZenonT(60), <3>2, <3>3, <3>4, <3>5, <3>7 DEF Keeps
      <3> QED
        BY <3>6, <3>7
    <2> QED
      BY <2>1, <2>2
  <1> QED
    BY <1>7, <1>8, <1>9, <1>11, <1>12, <1>13, MovesKeep DEF LogInv

\* The copy has the lines of the file that is removed.
LEMMA FinishesKeeps ==
    ASSUME LogInv, NEW p \in Writer, FinishesRotation(p), At(p, "finishes")
    PROVE  LogInv'
  <1> DEFINE s == lg.staged[p]
             b == Backup(1, "gz")
             u == Shift(lg, "gz")
             r == Rename(u, StagedGz(s), b)
             v == Unlink(r, Staged(s))
  <1>1. lg \in LogState /\ Directory(lg) /\ Keeps(lg, p)
    BY DEF LogInv, LogGood
  <1>2. /\ s # NoFile /\ lg.names[StagedGz(s)] # NoFile
        /\ lg.lines[lg.names[Staged(s)]] \subseteq lg.lines[lg.names[StagedGz(s)]]
    BY <1>1 DEF Keeps, At
  <1>3. s \in Inodes
    BY <1>1, <1>2, FieldsAre DEF Files
  <1>4. /\ Staged(s) \in Names /\ StagedGz(s) \in Names /\ Staged(s) # StagedGz(s)
        /\ Staged(s) # b /\ StagedGz(s) # b
        /\ Staged(s) # Moved /\ StagedGz(s) # Moved /\ b # Moved
        /\ Staged(s)[1] # "gz" /\ StagedGz(s)[1] # "gz" /\ Moved[1] # "gz"
        /\ Moved \in Names /\ b \in Names
    BY <1>3, StagedNames DEF Kinds
  <1>5. lg' = Goes(Stages(v, p, NoFile), p, "idle") /\ MayExclude(p)
    BY DEF FinishesRotation
  <1>6. /\ u \in LogState /\ SameProcs(lg, u) /\ OneName(u) /\ u.lines = lg.lines
        /\ u.next = lg.next /\ u.names[b] = NoFile
        /\ \A n \in Names : n[1] # "gz" => u.names[n] = lg.names[n]
        /\ lg.dropped \subseteq u.dropped /\ Kept(lg) \subseteq Kept(u) \cup u.dropped
    <2>1. "gz" \in Kinds
      BY DEF Kinds
    <2> QED
      BY <1>1, <2>1, ShiftIs DEF Directory
  <1> HIDE DEF u, b
  <1>7. u.names[StagedGz(s)] = lg.names[StagedGz(s)] /\ u.names[StagedGz(s)] # NoFile
    BY <1>2, <1>4, <1>6
  <1>8. /\ r \in LogState /\ SameProcs(u, r) /\ SameLines(u, r)
        /\ r.names[b] = lg.names[StagedGz(s)] /\ r.names[StagedGz(s)] = NoFile
        /\ \A n \in Names : n # b /\ n # StagedGz(s) => r.names[n] = u.names[n]
    BY SMTT(60), <1>4, <1>6, <1>7, RenameIs
  <1>9. OneName(r) /\ \A l \in Kept(u) : l \in Kept(r)
    BY <1>4, <1>6, RenameLoses
  <1> HIDE DEF r
  <1>10. /\ v \in LogState /\ SameProcs(r, v) /\ SameLines(r, v) /\ v.names[Staged(s)] = NoFile
         /\ \A n \in Names : n # Staged(s) => v.names[n] = r.names[n]
    BY <1>4, <1>8, UnlinkIs
  <1>11. /\ OneName(v)
         /\ \A l \in Kept(r) : \/ l \in Kept(v)
                               \/ r.names[Staged(s)] # NoFile /\ l \in r.lines[r.names[Staged(s)]]
    BY <1>4, <1>8, <1>9, UnlinkLoses
  <1> HIDE DEF v
  <1>12. /\ SameProcs(lg, v) /\ v.lines = lg.lines /\ v.next = lg.next /\ v.dropped = u.dropped
         /\ r.lines = lg.lines
    BY <1>6, <1>8, <1>10 DEF SameProcs, SameLines
  <1>13. \A l \in Kept(r) : l \in Kept(v)
    <2> SUFFICES ASSUME NEW l \in Kept(r), l \in r.lines[r.names[Staged(s)]] PROVE l \in Kept(v)
      BY <1>11
    <2>1. r.names[Staged(s)] = lg.names[Staged(s)]
      BY <1>4, <1>6, <1>8
    <2>2. v.names[b] = lg.names[StagedGz(s)]
      BY <1>4, <1>8, <1>10
    <2>3. b \in Names /\ v.names[b] # NoFile /\ l \in v.lines[v.names[b]]
      BY <1>2, <1>4, <1>12, <2>1, <2>2
    <2> QED
      BY <2>3, KeptIs
  <1>14. lg.dropped \subseteq v.dropped /\ Kept(lg) \subseteq Kept(v) \cup v.dropped
    BY <1>6, <1>9, <1>12, <1>13
  <1>15. v.names[Moved] = lg.names[Moved] /\ v.names[StagedGz(s)] = NoFile
    BY <1>4, <1>6, <1>8, <1>10
  <1>16. ASSUME NEW t \in Inodes, t # s
         PROVE  /\ v.names[Staged(t)] = lg.names[Staged(t)]
                /\ v.names[StagedGz(t)] = lg.names[StagedGz(t)]
    <2>1. /\ Staged(t) # Staged(s) /\ Staged(t) # StagedGz(s)
          /\ StagedGz(t) # Staged(s) /\ StagedGz(t) # StagedGz(s)
      BY <1>3, <1>16, OtherStaged
    <2>2. /\ Staged(t) \in Names /\ StagedGz(t) \in Names
          /\ Staged(t)[1] # "gz" /\ StagedGz(t)[1] # "gz"
          /\ Staged(t) # b /\ StagedGz(t) # b
      BY StagedNames DEF b, Kinds
    <2> QED
      BY <2>1, <2>2, <1>6, <1>8, <1>10
  <1> QED
    BY <1>5, <1>10, <1>11, <1>12, <1>14, <1>15, <1>16, FinishesWith

\* Where there is none the file itself is the backup, and what it replaces is recorded.
LEMMA KeepsPlain ==
    ASSUME LogInv, NEW p \in Writer, FinishesRotation(p), At(p, "gives up")
    PROVE  LogInv'
  <1> DEFINE s == lg.staged[p]
             b == Backup(1, "plain")
             u == Shift(lg, "gz")
             r == Unlink(u, StagedGz(s))
             fell == lg.lines[lg.names[b]]
             d == Drops(r, fell)
             v == Rename(d, Staged(s), b)
  <1>1. lg \in LogState /\ Directory(lg) /\ Keeps(lg, p)
    BY DEF LogInv, LogGood
  <1>2. s # NoFile /\ lg.names[StagedGz(s)] = NoFile /\ ~At(p, "finishes")
    BY <1>1 DEF Keeps, At
  <1>3. s \in Inodes
    BY <1>1, <1>2, FieldsAre DEF Files
  <1>4. /\ Staged(s) \in Names /\ StagedGz(s) \in Names /\ Staged(s) # StagedGz(s)
        /\ Staged(s) # b /\ StagedGz(s) # b
        /\ Staged(s) # Moved /\ StagedGz(s) # Moved /\ b # Moved
        /\ Staged(s)[1] # "gz" /\ StagedGz(s)[1] # "gz" /\ Moved[1] # "gz"
        /\ Moved \in Names /\ b \in Names /\ b[1] # "gz"
    BY <1>3, StagedNames, NameFacts DEF Kinds
  <1>5. lg' = Goes(Stages(v, p, NoFile), p, "idle") /\ MayExclude(p)
    BY <1>2 DEF FinishesRotation
  <1>6. /\ u \in LogState /\ SameProcs(lg, u) /\ OneName(u) /\ u.lines = lg.lines
        /\ u.next = lg.next
        /\ \A n \in Names : n[1] # "gz" => u.names[n] = lg.names[n]
        /\ lg.dropped \subseteq u.dropped /\ Kept(lg) \subseteq Kept(u) \cup u.dropped
    <2>1. "gz" \in Kinds
      BY DEF Kinds
    <2> QED
      BY <1>1, <2>1, ShiftIs DEF Directory
  <1>7. fell \in SUBSET Nat
    BY <1>1, <1>4, FieldsAre DEF LineSets
  <1> HIDE DEF u
  <1>8. /\ r \in LogState /\ SameProcs(u, r) /\ SameLines(u, r) /\ r.names[StagedGz(s)] = NoFile
        /\ \A n \in Names : n # StagedGz(s) => r.names[n] = u.names[n]
    BY <1>4, <1>6, UnlinkIs
  <1>9. OneName(r) /\ \A l \in Kept(u) : l \in Kept(r)
    <2>1. u.names[StagedGz(s)] = NoFile
      BY <1>2, <1>4, <1>6
    <2> QED
      BY <1>4, <1>6, <2>1, UnlinkLoses
  <1>10. fell = lg.lines[lg.names[b]]
    OBVIOUS
  <1> HIDE DEF r, b, fell
  <1>11. /\ d \in LogState /\ SameProcs(r, d) /\ d.names = r.names /\ d.lines = r.lines
         /\ d.next = r.next /\ d.dropped = r.dropped \cup fell
    BY <1>7, <1>8, DropsIs
  <1> HIDE DEF d
  <1>12. OneName(d) /\ Kept(d) = Kept(r)
    BY <1>9, <1>11, KeptSame DEF OneName
  <1>13. /\ v \in LogState /\ SameProcs(d, v) /\ SameLines(d, v) /\ v.names[Staged(s)] = NoFile
         /\ \A n \in Names : n # b /\ n # Staged(s) => v.names[n] = d.names[n]
    <2>1. /\ v \in LogState /\ SameProcs(d, v) /\ SameLines(d, v)
          /\ d.names[Staged(s)] = NoFile => v.names = d.names
          /\ d.names[Staged(s)] # NoFile =>
               /\ v.names[Staged(s)] = NoFile
               /\ \A n \in Names : n # b /\ n # Staged(s) => v.names[n] = d.names[n]
      BY ZenonT(60), <1>4, <1>11, RenameIs
    <2> HIDE DEF v
    <2> QED
      BY <2>1
  <1>14. /\ OneName(v)
         /\ \A l \in Kept(d) : l \in Kept(v) \/ l \in d.lines[d.names[b]]
    BY <1>4, <1>11, <1>12, RenameLoses
  <1> HIDE DEF v
  <1>15. /\ SameProcs(lg, v) /\ v.lines = lg.lines /\ v.next = lg.next
         /\ v.dropped = u.dropped \cup fell /\ d.lines = lg.lines
    BY <1>6, <1>8, <1>11, <1>13 DEF SameProcs, SameLines
  <1>16. d.names[b] = lg.names[b]
    BY <1>4, <1>6, <1>8, <1>11
  <1>17. lg.dropped \subseteq v.dropped /\ Kept(lg) \subseteq Kept(v) \cup v.dropped
    BY <1>6, <1>9, <1>10, <1>12, <1>14, <1>15, <1>16
  <1>18. v.names[Moved] = lg.names[Moved] /\ v.names[StagedGz(s)] = NoFile
    BY ZenonT(60), <1>4, <1>6, <1>8, <1>11, <1>13
  <1>19. ASSUME NEW t \in Inodes, t # s
         PROVE  /\ v.names[Staged(t)] = lg.names[Staged(t)]
                /\ v.names[StagedGz(t)] = lg.names[StagedGz(t)]
    <2>1. /\ Staged(t) # Staged(s) /\ Staged(t) # StagedGz(s)
          /\ StagedGz(t) # Staged(s) /\ StagedGz(t) # StagedGz(s)
      BY <1>3, <1>19, OtherStaged
    <2>2. /\ Staged(t) \in Names /\ StagedGz(t) \in Names
          /\ Staged(t)[1] # "gz" /\ StagedGz(t)[1] # "gz"
          /\ Staged(t) # b /\ StagedGz(t) # b
      BY StagedNames DEF b, Kinds
    <2> QED
      BY ZenonT(60), <2>1, <2>2, <1>6, <1>8, <1>11, <1>13
  <1> QED
    BY <1>5, <1>13, <1>14, <1>15, <1>17, <1>18, <1>19, FinishesWith

-----------------------------------------------------------------------------
(* logrotate, the start, and the theorems.                                 *)

LEMMA MovedAwayKeeps ==
    ASSUME LogInv, MovedAway
    PROVE  LogInv'
  <1> DEFINE f == Fault(lg)
             v == Rename(f, Log, Moved)
  <1>1. /\ lg \in LogState /\ Directory(lg) /\ Alone(lg) /\ OwnStaged(lg)
        /\ \A q \in Writer : Aims(lg, q) /\ Keeps(lg, q)
    BY DEF LogInv, LogGood
  <1>2. lg.names[Log] # NoFile /\ lg.names[Moved] = NoFile /\ lg' = v
    BY DEF MovedAway
  <1>3. /\ Log \in Names /\ Moved \in Names /\ Log # Moved
        /\ \A s \in Inodes : {Log, Moved} \cap {Staged(s), StagedGz(s)} = {}
    BY NameFacts
  <1>4. f \in LogState /\ SameProcs(lg, f) /\ SameLines(lg, f) /\ f.names = lg.names
    BY <1>1, FaultIs
  <1> HIDE DEF f
  <1>5. /\ f.lines[f.names[Moved]] = {} /\ Directory(f) /\ \A q \in Writer : Keeps(f, q)
        /\ \A s \in Inodes : Called(f, s) <=> Called(lg, s)
    <2>1. \A s \in Inodes : Called(f, s) <=> Called(lg, s)
      BY <1>4 DEF Called, SameProcs
    <2>2. Directory(f)
      BY <1>1, <1>4, <2>1, SameDirectory
    <2>3. \A q \in Writer : Keeps(f, q)
      BY <1>1, <1>4, KeepsSame DEF SameProcs, SameLines
    <2>4. f.lines[f.names[Moved]] = {}
      BY <1>2, <1>4, <2>2 DEF Directory
    <2> QED
      BY <2>1, <2>2, <2>3, <2>4
  <1>6. /\ Directory(v) /\ \A q \in Writer : Keeps(v, q)
        /\ \A s \in Inodes : Called(v, s) <=> Called(f, s)
    <2>1. f.names[Moved] = NoFile
      BY <1>2, <1>4
    <2> QED
      BY <1>3, <1>4, <1>5, <2>1, RenameKeeps
  <1>7. /\ v \in LogState /\ SameProcs(f, v) /\ v.lines = f.lines
        /\ v.names[Moved] = lg.names[Log] /\ v.names[Log] = NoFile
        /\ \A n \in Names : n # Log /\ n # Moved => v.names[n] = lg.names[n]
    <2>1. /\ v \in LogState /\ SameProcs(f, v) /\ SameLines(f, v)
          /\ v.names[Moved] = f.names[Log] /\ v.names[Log] = NoFile
          /\ \A n \in Names : n # Moved /\ n # Log => v.names[n] = f.names[n]
      BY <1>2, <1>3, <1>4, RenameIs
    <2> QED
      BY <1>4, <2>1 DEF SameLines
  <1> HIDE DEF v
  <1>8. /\ lg'.fd = lg.fd /\ lg'.lock = lg.lock /\ lg'.pc = lg.pc /\ lg'.staged = lg.staged
        /\ lg'.compress = lg.compress
    BY <1>2, <1>4, <1>7 DEF SameProcs
  <1>9. Alone(lg') /\ OwnStaged(lg')
    BY <1>1, <1>8 DEF Alone, OwnStaged
  <1>10. ASSUME NEW q \in Writer PROVE Aims(lg', q)
    <2>1. lg.fd[q] # NoFile /\ lg.fd[q] \in Inodes
      BY <1>1, FieldsAre DEF Aims, Files
    <2>2. /\ Old(lg', q) = Old(lg, q) /\ Old(lg, q) \in Names
          /\ Old(lg, q) # Log /\ Old(lg, q) # Moved
      BY <1>8, <2>1, NameFacts DEF Old
    <2>3. lg'.names[Old(lg, q)] = lg.names[Old(lg, q)]
      BY <1>2, <1>7, <2>2
    <2>4. lg.fd[q] \in {lg.names[Log], lg.names[Moved]} => lg.fd[q] = lg'.names[Moved]
      BY <1>2, <1>7, <2>1
    <2>5. lg.fd[q] \in {lg.names[Old(lg, q)], lg.names[Moved]} => lg.fd[q] = lg'.names[Old(lg, q)]
      BY <1>2, <2>1, <2>3
    <2>6. Called(lg', lg.fd[q]) <=> Called(lg, lg.fd[q])
      BY <1>2, <1>5, <1>6, <2>1
    <2>7. lg'.lines[lg'.names[Log]] = {}
      BY <1>2, <1>6, <1>7 DEF Directory
    <2> QED
      BY <1>1, <1>8, <2>1, <2>2, <2>4, <2>5, <2>6, <2>7 DEF Aims
  <1> QED
    BY <1>2, <1>6, <1>7, <1>9, <1>10 DEF LogInv, LogGood

LEMMA StartIsGood ==
    ASSUME NEW z \in BOOLEAN, lg = NewLog(z)
    PROVE  LogInv
  <1>1. FirstFile \in Inodes /\ FirstFile # NoFile
    BY LogConstants DEF FirstFile
  <1>2. {} \in LineSets
    BY FS_EmptySet DEF LineSets
  <1>3. lg \in LogState
    BY <1>1, <1>2 DEF NewLog, LogState, Files, Pcs
  <1>4. /\ \A n \in Names : lg.names[n] = IF n = Log THEN FirstFile ELSE NoFile
        /\ \A f \in Files : lg.lines[f] = {}
        /\ \A p \in Writer : /\ lg.fd[p] = FirstFile /\ lg.lock[p] = "none"
                           /\ lg.pc[p] = "idle" /\ lg.staged[p] = NoFile
        /\ lg.next = 1
    BY DEF NewLog, Files
  <1>5. OneName(lg)
    BY <1>4 DEF OneName
  <1>6. \A s \in Inodes : ~Called(lg, s)
    BY <1>4, NameFacts, LogConstants DEF Called
  <1>7. Directory(lg)
    BY <1>4, <1>5, <1>6 DEF Directory, CallsTaken, NothingLost, Files
  <1>8. Alone(lg) /\ OwnStaged(lg)
    BY <1>4 DEF Alone, OwnStaged
  <1>9. \A p \in Writer : Aims(lg, p) /\ Keeps(lg, p)
    BY <1>1, <1>3, <1>4, IdleIs
  <1> QED
    BY <1>3, <1>7, <1>8, <1>9 DEF LogInv, LogGood

LEMMA InvNext ==
    ASSUME ~Unseen, LogInv, RotationNext
    PROVE  LogInv'
  <1>1. Unused(lg) # {}
    BY DEF RotationNext
  <1>2. ASSUME NEW p \in Writer, BeginsWrite(p) PROVE LogInv'
    BY <1>1, <1>2, BeginsWriteKeeps
  <1>3. ASSUME NEW p \in Writer, Excludes(p) PROVE LogInv'
    BY <1>1, <1>3, ExcludesKeeps
  <1>4. ASSUME NEW p \in Writer, Rotates(p) PROVE LogInv'
    <2>1. At(p, "rotates")
      BY <1>4 DEF Rotates
    <2>2. CASE lg.names[Log] = NoFile
      <3>1. lg \in LogState /\ Directory(lg) /\ "plain" \in Kinds
        BY DEF LogInv, LogGood, Kinds
      <3>2. Shift(lg, "plain") \in LogState
        BY <3>1, ShiftIs DEF Directory
      <3> QED
        BY <1>4, <2>1, <2>2, <3>1, <3>2, RotatesNothing DEF Rotates
    <2>3. CASE lg.names[Log] # NoFile /\ lg.compress
      BY <1>4, <2>1, <2>3, RotatesKeepsStaged DEF Rotates
    <2>4. CASE lg.names[Log] # NoFile /\ ~lg.compress
      BY <1>4, <2>1, <2>4, RotatesKeepsPlain DEF Rotates
    <2> QED
      BY <2>2, <2>3, <2>4
  <1>5. ASSUME NEW p \in Writer, Writes(p) PROVE LogInv'
    BY <1>5, WritesKeeps
  <1>6. ASSUME NEW p \in Writer, FinishesRotation(p) PROVE LogInv'
    <2>1. CASE At(p, "finishes")
      BY <1>6, <2>1, FinishesKeeps
    <2>2. CASE At(p, "gives up")
      BY <1>6, <2>2, KeepsPlain
    <2> QED
      BY <1>6, <2>1, <2>2 DEF FinishesRotation
  <1>7. ASSUME NEW p \in Writer, Reopens(p) PROVE LogInv'
    BY <1>1, <1>7, ReopensKeeps
  <1>8. ASSUME NEW p \in Writer, WriterDies(p) PROVE LogInv'
    BY <1>1, <1>8, WriterDiesKeeps
  <1>9. ASSUME NEW p \in Writer, NEW ok \in BOOLEAN, OpensNew(p, ok) PROVE LogInv'
    <2>1. At(p, "opens")
      BY <1>9 DEF OpensNew
    <2>2. CASE ok
      BY <1>1, <1>9, <2>1, <2>2, OpensNewKeeps DEF OpensNew
    <2>3. CASE ~ok /\ lg.compress
      BY <1>9, <2>1, <2>3, PutsBackStaged DEF OpensNew
    <2>4. CASE ~ok /\ ~lg.compress
      BY <1>9, <2>1, <2>4, PutsBackPlain DEF OpensNew
    <2> QED
      BY <2>2, <2>3, <2>4
  <1>10. ASSUME NEW p \in Writer, NEW ok \in BOOLEAN, Compresses(p, ok) PROVE LogInv'
    <2>1. At(p, "compresses")
      BY <1>10 DEF Compresses
    <2>2. CASE ok
      BY <1>1, <1>10, <2>1, <2>2, CompressesKeeps DEF Compresses
    <2>3. CASE ~ok
      BY <1>10, <2>1, <2>3, GivesUpKeeps DEF Compresses
    <2> QED
      BY <2>2, <2>3
  <1>11. CASE MovedAway
    BY <1>11, MovedAwayKeeps
  <1> QED
    BY <1>2, <1>3, <1>4, <1>5, <1>6, <1>7, <1>8, <1>9, <1>10, <1>11 DEF RotationNext

\* The inductive invariant holds, as long as no failure to open the log is passed over:
\* the process then goes on with what was the log, as follow_path() lets it.
THEOREM LogInvariant == ~Unseen => (RotationSpec => []LogInv)
  <1> SUFFICES ASSUME ~Unseen PROVE RotationSpec => []LogInv
    OBVIOUS
  <1>1. RotationInit => LogInv
    BY StartIsGood DEF RotationInit
  <1>2. LogInv /\ UNCHANGED lg => LogInv'
    BY DEF LogInv
  <1>3. LogInv /\ [RotationNext]_lg => LogInv'
    BY <1>2, InvNext
  <1> QED
    BY <1>1, <1>3, PTL DEF RotationSpec

\* No line is lost, whoever writes, rotates, compresses or dies in between (logger.cpp,
\* FileTarget::write and rotate), as long as no failure to open the log is passed over.
THEOREM NoLineLostHolds == ~Unseen => (RotationSpec => []NoLineLost)
  <1> SUFFICES ASSUME ~Unseen PROVE RotationSpec => []NoLineLost
    OBVIOUS
  <1>1. LogInv => NoLineLost
    <2> SUFFICES ASSUME LogInv, NEW l \in 1 .. (lg.next - 1) PROVE l \in Kept(lg) \cup lg.dropped
      BY DEF NoLineLost
    <2>1. lg.next \in Nat /\ NothingLost(lg)
      BY FieldsAre DEF LogInv, LogGood, Directory
    <2>2. l \in Nat /\ l >= 1 /\ l < lg.next
      BY <2>1
    <2> QED
      BY <2>1, <2>2 DEF NothingLost
  <1>2. RotationSpec => []LogInv
    BY LogInvariant
  <1> QED
    BY <1>1, <1>2, PTL
=============================================================================

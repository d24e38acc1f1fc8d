--------------------------- MODULE DbClientsProofs ---------------------------
(***************************************************************************)
(* Proofs about what a process does with the database beside its queries:  *)
(* NotifySubscriber for any number of rows, numbers, takes, ticks and      *)
(* missed; PgPoolSize for any sizes; ServiceToken and BotSession for any   *)
(* lifetimes, delays and number of failures.                               *)
(***************************************************************************)
EXTENDS DbClients, SequenceTheorems, FiniteSetTheorems, FunctionTheorems,
        WellFoundedInduction, TLAPS

-----------------------------------------------------------------------------
(* NotifySubscriber: the inductive invariant.                              *)

Subscriber ==
    [ number : Nat, listening : Nat, started : BOOLEAN, subscribing : BOOLEAN,
      draining : BOOLEAN, stopped : BOOLEAN, beating : BOOLEAN, sweeping : BOOLEAN,
      beat : BOOLEAN, sweep : BOOLEAN, retry : BOOLEAN, taken : [Row -> Nat], seen : Nat ]

LineStatement ==
    [ kind : {"subscribe", "heartbeat", "drain", "stop"}, n : Nat, rows : SUBSET (Row \X Nat),
      ran : BOOLEAN, out : Nat, at : Nat ]

Database ==
    [ given : SUBSET Nat, reg : SUBSET (Nat \ {0}), seen : Nat,
      row : [Row -> [held : BOOLEAN, token : Nat, closed : BOOLEAN]] ]

\* A statement of the pool; what tells two that are alike apart does not matter.
IsAsk(q) ==
    /\ q \in [kind : {"take", "ack", "nack", "sweep"}, row : {q.row}, token : Nat,
              copy : {q.copy}, ran : BOOLEAN, out : Nat]
    /\ q.kind # "sweep" => q.row \in Row

Types ==
    /\ ns \in Subscriber /\ line \in Seq(LineStatement) /\ \A q \in asked : IsAsk(q)
    /\ work \in SUBSET (Row \X (Nat \ {0}))
    /\ db \in Database /\ IsFiniteSet(db.given)
    /\ now \in Nat /\ gapped \in BOOLEAN /\ undone \subseteq Row /\ missed \in Nat

HeadRan(q) == q # <<>> /\ q[1].ran

Holds(q, kind) == \E i \in DOMAIN q : q[i].kind = kind

\* Statements of stop() that are still to run: the numbers and the rows they give back.
Stops(q) == {i \in DOMAIN q : q[i].kind = "stop" /\ ~q[i].ran}
Leaving(q) == {q[i].n : i \in Stops(q)}
Back(q) == UNION {q[i].rows : i \in Stops(q)}

InOrder(q) ==
    /\ \A i \in DOMAIN q : q[i].ran => i = 1
    /\ \A i, j \in DOMAIN q : q[i].kind = "subscribe" /\ q[j].kind = "subscribe" => i = j
    /\ \A i \in DOMAIN q : q[i].kind = "heartbeat" => q[i].n # 0

\* Whether the subscriber has a number or is about to ask for one.
Attends ==
    /\ InOrder(line)
    /\ Holds(line, "subscribe") <=> ns.subscribing
    /\ ns.beating => Holds(line, "heartbeat")
    /\ ns.subscribing => ns.number = 0 /\ ~ns.retry
    /\ ns.retry => ns.number = 0
    /\ ~ns.started => ns.number = 0 /\ ~ns.retry /\ ~ns.subscribing
    /\ ns.stopped => ns.number = 0 /\ \A r \in Row : ns.taken[r] = 0
    /\ ~ns.stopped /\ ns.number # 0 => ns.beat /\ (~ns.draining => ns.sweep)
    /\ ns.started /\ ~ns.stopped /\ ~ns.draining /\ ns.number = 0 => ns.subscribing \/ ns.retry
    /\ HeadRan(line) /\ line[1].kind = "subscribe" => line[1].out # 0

\* What is known of the times the database saw the subscriber at.
Times ==
    /\ ns.seen <= db.seen /\ db.seen <= now /\ 1 <= now
    /\ ns.number # 0 => 1 <= ns.seen
    /\ HeadRan(line) /\ (line[1].kind = "subscribe"
                         \/ (line[1].kind = "heartbeat" /\ line[1].out # 0)) =>
         1 <= line[1].at /\ line[1].at <= db.seen
    /\ gapped /\ ns.number # 0 /\ ~ns.draining => now - ns.seen >= Alive
    /\ /\ gapped /\ ns.number # 0 /\ ~ns.draining
       /\ HeadRan(line) /\ line[1].kind = "heartbeat" /\ line[1].out # 0
       /\ line[1].n = ns.number
       => line[1].at - ns.seen >= Alive \/ now - line[1].at >= Alive

\* A registration is the subscriber's, on its way to it, or about to be given back.
Registered ==
    /\ HeadRan(line) /\ line[1].kind = "heartbeat" /\ line[1].out = 0 => line[1].n \notin db.reg
    /\ missed = 0 =>
         \A n \in db.reg : \/ ns.number = n
                           \/ HeadRan(line) /\ line[1].kind = "subscribe" /\ line[1].out = n
                           \/ n \in Leaving(line)

\* A statement of the pool that has a row, on its way to the module or back.
Claims(q, r) ==
    /\ q.row = r
    /\ \/ q.kind = "take" /\ q.ran /\ q.out # 0
       \/ q.kind \in {"ack", "nack"} /\ ~q.ran

TokenOf(q) == IF q.kind = "take" THEN q.out ELSE q.token

\* A row leased is with the module, with one statement of the pool, or in what stop()
\* gives back; with whom it is has its current token, and nobody else gives it back.
Leased(r) ==
    /\ ns.taken[r] # 0 =>
         /\ db.row[r].held /\ db.row[r].token = ns.taken[r]
         /\ <<r, ns.taken[r]>> \notin Back(line)
         /\ \A q \in asked : ~Claims(q, r)
    /\ \A q \in asked : Claims(q, r) =>
         /\ db.row[r].held /\ db.row[r].token = TokenOf(q)
         /\ <<r, TokenOf(q)>> \notin Back(line)
         /\ \A p \in asked : Claims(p, r) => p = q
    /\ db.row[r].held =>
         \/ ns.taken[r] # 0
         \/ \E q \in asked : Claims(q, r)
         \/ <<r, db.row[r].token>> \in Back(line)
    /\ \A w \in Back(line) : w[1] = r => w[2] <= db.row[r].token

Rows ==
    missed = 0 =>
        /\ undone = {}
        /\ \A q \in asked : q.kind = "ack" /\ q.ran => q.out = 1
        /\ \A r \in Row : Leased(r)

Inv == Types /\ Attends /\ Times /\ Registered /\ Rows

-----------------------------------------------------------------------------
(* The line.                                                               *)

\* A statement joins the line.
LEMMA JoinIs ==
  ASSUME NEW q \in Seq(LineStatement), InOrder(q), NEW s \in LineStatement, ~s.ran,
         s.kind = "subscribe" => ~Holds(q, "subscribe"),
         s.kind = "heartbeat" => s.n # 0
  PROVE  LET p == Append(q, s) IN
         /\ p \in Seq(LineStatement) /\ InOrder(p)
         /\ HeadRan(p) <=> HeadRan(q)
         /\ HeadRan(q) => p[1] = q[1]
         /\ \A kind : Holds(p, kind) <=> Holds(q, kind) \/ s.kind = kind
         /\ Leaving(p) = Leaving(q) \cup (IF s.kind = "stop" THEN {s.n} ELSE {})
         /\ Back(p) = Back(q) \cup (IF s.kind = "stop" THEN s.rows ELSE {})
  <1> DEFINE p == Append(q, s)
             n == Len(q)
  <1>1. n \in Nat /\ DOMAIN q = 1 .. n BY LenProperties
  <1>2. p \in Seq(LineStatement) /\ Len(p) = n + 1 /\ (\A i \in 1 .. n : p[i] = q[i])
        /\ p[n + 1] = s
    BY AppendProperties
  <1> HIDE DEF p
  <1>3. DOMAIN p = 1 .. n + 1 BY <1>2, LenProperties
  <1>4. q # <<>> <=> n >= 1 BY <1>1, EmptySeq
  <1>5. p # <<>> BY <1>1, <1>2, EmptySeq
  <1> HIDE DEF n
  <1>6. \A i \in DOMAIN p : (i = n + 1 /\ p[i] = s) \/ (i \in DOMAIN q /\ p[i] = q[i])
    BY <1>1, <1>2, <1>3
  <1>7. /\ \A i \in DOMAIN q : i \in DOMAIN p /\ p[i] = q[i]
        /\ n + 1 \in DOMAIN p /\ n + 1 \notin DOMAIN q
    BY <1>1, <1>2, <1>3
  <1>8. n >= 1 => 1 \in DOMAIN q /\ p[1] = q[1] BY <1>1, <1>2
  <1>9. ~(n >= 1) => p[1] = s BY <1>1, <1>2
  <1>10. HeadRan(p) <=> HeadRan(q) BY <1>4, <1>5, <1>8, <1>9 DEF HeadRan
  <1>11. HeadRan(q) => p[1] = q[1] BY <1>4, <1>8 DEF HeadRan
  <1>12. InOrder(p) BY <1>2, <1>6, <1>7 DEF InOrder, Holds
  <1>13. \A kind : Holds(p, kind) <=> Holds(q, kind) \/ s.kind = kind
    BY <1>2, <1>6, <1>7 DEF Holds
  <1>14. Stops(p) = Stops(q) \cup (IF s.kind = "stop" THEN {n + 1} ELSE {})
    BY <1>2, <1>6, <1>7 DEF Stops
  <1>15. \A i \in Stops(q) : p[i] = q[i] BY <1>7 DEF Stops
  <1>16. Leaving(p) = Leaving(q) \cup (IF s.kind = "stop" THEN {s.n} ELSE {})
    BY <1>2, <1>14, <1>15 DEF Leaving
  <1>17. Back(p) = Back(q) \cup (IF s.kind = "stop" THEN s.rows ELSE {})
    BY <1>2, <1>14, <1>15 DEF Back
  <1> QED BY <1>2, <1>10, <1>11, <1>12, <1>13, <1>16, <1>17 DEF p

\* The head of the line leaves it.
LEMMA DropIs ==
  ASSUME NEW q \in Seq(LineStatement), InOrder(q), q # <<>>
  PROVE  LET p == Tail(q) IN
         /\ Head(q) = q[1] /\ q[1] \in LineStatement
         /\ p \in Seq(LineStatement) /\ InOrder(p) /\ ~HeadRan(p)
         /\ \A kind : Holds(q, kind) <=> Holds(p, kind) \/ q[1].kind = kind
         /\ q[1].kind = "subscribe" => ~Holds(p, "subscribe")
         /\ q[1].ran => Leaving(p) = Leaving(q) /\ Back(p) = Back(q)
  <1> DEFINE p == Tail(q)
             n == Len(q)
  <1>1. n \in Nat /\ n >= 1 /\ DOMAIN q = 1 .. n /\ Head(q) = q[1]
    BY EmptySeq, HeadTailProperties
  <1>2. p \in Seq(LineStatement) /\ DOMAIN p = 1 .. (n - 1) /\ \A i \in DOMAIN p : p[i] = q[i + 1]
    BY <1>1, HeadTailProperties
  <1>3. q[1] \in LineStatement BY <1>1
  <1> HIDE DEF p
  <1>4. \A i \in DOMAIN p : p[i] = q[i + 1] /\ i + 1 \in DOMAIN q /\ i + 1 # 1 /\ i \in Nat
    BY <1>1, <1>2
  <1>5. \A i \in DOMAIN q : i # 1 => i - 1 \in DOMAIN p /\ p[i - 1] = q[i]
    <2> SUFFICES ASSUME NEW i \in DOMAIN q, i # 1 PROVE i - 1 \in DOMAIN p /\ p[i - 1] = q[i]
      OBVIOUS
    <2>1. i - 1 \in DOMAIN p /\ (i - 1) + 1 = i BY <1>1, <1>2
    <2> QED BY <1>2, <2>1
  <1>6. 1 \in DOMAIN q BY <1>1
  <1>7. \A i \in DOMAIN p : ~p[i].ran BY <1>4 DEF InOrder
  <1>8. ~HeadRan(p)
    <2>1. p # <<>> => 1 \in DOMAIN p BY <1>2, EmptySeq, LenProperties
    <2> QED BY <1>7, <2>1 DEF HeadRan
  <1>9. \A kind : Holds(q, kind) <=> Holds(p, kind) \/ q[1].kind = kind
    BY <1>4, <1>5, <1>6 DEF Holds
  <1>10. q[1].kind = "subscribe" => ~Holds(p, "subscribe")
    BY <1>4, <1>6 DEF Holds, InOrder
  <1>11. InOrder(p)
    <2>1. \A i, j \in DOMAIN p : p[i].kind = "subscribe" /\ p[j].kind = "subscribe" => i = j
      <3> SUFFICES ASSUME NEW i \in DOMAIN p, NEW j \in DOMAIN p,
                          p[i].kind = "subscribe", p[j].kind = "subscribe"
                   PROVE  i = j
        OBVIOUS
      <3>1. i + 1 = j + 1 BY <1>4 DEF InOrder
      <3> QED BY <1>4, <3>1
    <2>2. \A i \in DOMAIN p : p[i].kind = "heartbeat" => p[i].n # 0 BY <1>4 DEF InOrder
    <2> QED BY <1>7, <2>1, <2>2 DEF InOrder
  <1>12. ASSUME q[1].ran
         PROVE  Leaving(p) = Leaving(q) /\ Back(p) = Back(q)
    <2>1. \A i \in Stops(p) : i + 1 \in Stops(q) /\ p[i] = q[i + 1] BY <1>4 DEF Stops
    <2>2. \A i \in Stops(q) : i - 1 \in Stops(p) /\ p[i - 1] = q[i] BY <1>5, <1>12 DEF Stops
    <2>3. Leaving(p) = Leaving(q) BY <2>1, <2>2 DEF Leaving
    <2>4. Back(p) = Back(q) BY <2>1, <2>2 DEF Back
    <2> QED BY <2>3, <2>4
  <1> QED BY <1>1, <1>2, <1>3, <1>8, <1>9, <1>10, <1>11, <1>12 DEF p

\* The head of the line has run.
LEMMA MarkIs ==
  ASSUME NEW q \in Seq(LineStatement), InOrder(q), q # <<>>, ~q[1].ran,
         NEW h \in LineStatement, h.ran, h.kind = q[1].kind, h.n = q[1].n, h.rows = q[1].rows
  PROVE  LET p == [q EXCEPT ![1] = h] IN
         /\ p \in Seq(LineStatement) /\ InOrder(p) /\ HeadRan(p) /\ p[1] = h
         /\ \A kind : Holds(p, kind) <=> Holds(q, kind)
         /\ Leaving(q) = Leaving(p) \cup (IF h.kind = "stop" THEN {h.n} ELSE {})
         /\ Back(q) = Back(p) \cup (IF h.kind = "stop" THEN h.rows ELSE {})
  <1> DEFINE p == [q EXCEPT ![1] = h]
             n == Len(q)
  <1>1. n \in Nat /\ n >= 1 /\ DOMAIN q = 1 .. n BY EmptySeq, HeadTailProperties
  <1>2. 1 \in DOMAIN q BY <1>1
  <1>3. DOMAIN p = DOMAIN q /\ p[1] = h /\ \A i \in DOMAIN q : i # 1 => p[i] = q[i]
    BY <1>2
  <1>4. p \in Seq(LineStatement) BY <1>1, ExceptSeq
  <1> HIDE DEF p
  <1>5. p # <<>> BY <1>1, <1>3, <1>4, EmptySeq, LenProperties
  <1>6. HeadRan(p) BY <1>3, <1>5 DEF HeadRan
  <1>7. InOrder(p) BY <1>2, <1>3 DEF InOrder
  <1>8. \A kind : Holds(p, kind) <=> Holds(q, kind) BY <1>2, <1>3 DEF Holds
  <1>9. Stops(q) = Stops(p) \cup (IF h.kind = "stop" THEN {1} ELSE {}) /\ 1 \notin Stops(p)
    BY <1>2, <1>3 DEF Stops
  <1>10. \A i \in Stops(p) : p[i] = q[i] BY <1>3, <1>9 DEF Stops
  <1>11. Leaving(q) = Leaving(p) \cup (IF h.kind = "stop" THEN {h.n} ELSE {})
    BY <1>9, <1>10 DEF Leaving
  <1>12. Back(q) = Back(p) \cup (IF h.kind = "stop" THEN h.rows ELSE {})
    BY <1>9, <1>10 DEF Back
  <1> QED BY <1>3, <1>4, <1>6, <1>7, <1>8, <1>11, <1>12 DEF p

-----------------------------------------------------------------------------
(* The subscriber's own steps.                                             *)

\* What most of its steps leave alone.
Settled(x, y) ==
    /\ y.number = x.number /\ y.seen = x.seen /\ y.taken = x.taken /\ y.started = x.started
    /\ y.draining = x.draining /\ y.stopped = x.stopped

LEMMA SubscribingIs ==
  ASSUME NEW x \in Subscriber
  PROVE  LET y == Subscribing(x) IN
         /\ y \in Subscriber /\ Settled(x, y)
         /\ y.subscribing <=> x.subscribing \/ MaySubscribe(x)
         /\ y.beating = x.beating /\ y.beat = x.beat /\ y.sweep = x.sweep /\ y.retry = x.retry
  <1>1. CASE MaySubscribe(x)
    BY <1>1 DEF Subscribing, Subscriber, Settled
  <1>2. CASE ~MaySubscribe(x)
    BY <1>2 DEF Subscribing, Subscriber, Settled
  <1> QED BY <1>1, <1>2

LEMMA BeatingIs ==
  ASSUME NEW x \in Subscriber
  PROVE  LET y == Beating(x) IN
         /\ y \in Subscriber /\ Settled(x, y)
         /\ y.beating <=> x.beating \/ MayBeat(x)
         /\ y.subscribing = x.subscribing /\ y.beat = x.beat /\ y.sweep = x.sweep
         /\ y.retry = x.retry
  <1>1. CASE MayBeat(x) BY <1>1 DEF Beating, Subscriber, Settled
  <1>2. CASE ~MayBeat(x) BY <1>2 DEF Beating, Subscriber, Settled
  <1> QED BY <1>1, <1>2

LEMMA SweepingIs ==
  ASSUME NEW x \in Subscriber
  PROVE  LET y == Sweeping(x) IN
         /\ y \in Subscriber /\ Settled(x, y)
         /\ y.subscribing = x.subscribing /\ y.beating = x.beating /\ y.beat = x.beat
         /\ y.sweep = x.sweep /\ y.retry = x.retry
  <1>1. CASE MaySweep(x) BY <1>1 DEF Sweeping, Subscriber, Settled
  <1>2. CASE ~MaySweep(x) BY <1>2 DEF Sweeping, Subscriber, Settled
  <1> QED BY <1>1, <1>2

LEMMA ArmsAre ==
  ASSUME NEW x \in Subscriber
  PROVE  /\ LET y == ArmHeartbeat(x) IN
            /\ y \in Subscriber /\ Settled(x, y)
            /\ y.beat <=> ~x.stopped
            /\ y.subscribing = x.subscribing /\ y.beating = x.beating
            /\ y.sweep = x.sweep /\ y.retry = x.retry
         /\ LET y == ArmSweep(x) IN
            /\ y \in Subscriber /\ Settled(x, y)
            /\ y.sweep <=> ~x.draining /\ ~x.stopped
            /\ y.subscribing = x.subscribing /\ y.beating = x.beating
            /\ y.beat = x.beat /\ y.retry = x.retry
         /\ LET y == ArmRetry(x) IN
            /\ y \in Subscriber /\ Settled(x, y)
            /\ y.retry <=> ~x.draining /\ ~x.stopped
            /\ y.subscribing = x.subscribing /\ y.beating = x.beating
            /\ y.beat = x.beat /\ y.sweep = x.sweep
  BY DEF ArmHeartbeat, ArmSweep, ArmRetry, Subscriber, Settled

LEMMA StatementIs ==
  ASSUME NEW kind \in {"subscribe", "heartbeat", "drain", "stop"}, NEW n \in Nat,
         NEW rows \in SUBSET (Row \X Nat)
  PROVE  LET s == Statement(kind, n, rows) IN
         s \in LineStatement /\ ~s.ran /\ s.kind = kind /\ s.n = n /\ s.rows = rows
  BY DEF Statement, LineStatement

LEMMA AskIs ==
  ASSUME NEW kind \in {"take", "ack", "nack", "sweep"}, NEW r, kind # "sweep" => r \in Row,
         NEW t \in Nat
  PROVE  \E q : /\ Ask(kind, r, t) = {q}
                /\ IsAsk(q) /\ q.kind = kind /\ q.row = r /\ q.token = t /\ ~q.ran /\ q.out = 0
  <1> DEFINE free == {c \in Copies : \A x \in asked : ~(x.kind = kind /\ x.row = r
                                                        /\ x.token = t /\ x.copy = c)}
             c == CHOOSE c \in free : TRUE
             q == [kind |-> kind, row |-> r, token |-> t, copy |-> c, ran |-> FALSE, out |-> 0]
  <1>1. Ask(kind, r, t) = {q} BY DEF Ask
  <1> HIDE DEF c
  <1>2. IsAsk(q) /\ q.kind = kind /\ q.row = r /\ q.token = t /\ ~q.ran /\ q.out = 0
    BY DEF IsAsk
  <1> QED BY <1>1, <1>2

-----------------------------------------------------------------------------
(* The steps.                                                              *)

\* Rows stay where they are: what comes and goes on the pool has none.
LEMMA RowsStay ==
  ASSUME Rows, missed' = missed, undone' = undone, ns'.taken = ns.taken, db'.row = db.row,
         Back(line') = Back(line),
         \A q \in asked' : q \in asked \/ (/\ \A r \in Row : ~Claims(q, r)
                                           /\ ~(q.kind = "ack" /\ q.ran)),
         \A q \in asked : q \in asked' \/ \A r \in Row : ~Claims(q, r)
  PROVE  Rows'
  <1> SUFFICES ASSUME missed = 0 PROVE Rows' BY DEF Rows
  <1>1. \A r \in Row : Leased(r) BY DEF Rows
  <1>2. ASSUME NEW r \in Row PROVE Leased(r)'
    <2>1. Leased(r) BY <1>1
    <2>2. \A q : q \in asked' /\ Claims(q, r) <=> q \in asked /\ Claims(q, r) OBVIOUS
    <2> QED BY <2>1, <2>2 DEF Leased
  <1>3. \A q \in asked' : q.kind = "ack" /\ q.ran => q.out = 1 BY DEF Rows
  <1>4. undone' = {} BY DEF Rows
  <1> QED BY <1>2, <1>3, <1>4 DEF Rows

\* A step of the subscriber that has no row and no number to do with.
LEMMA QuietStep ==
  ASSUME Inv, ns' \in Subscriber, ns'.number = ns.number, ns'.seen = ns.seen,
         ns'.taken = ns.taken, ns.draining => ns'.draining,
         UNCHANGED <<work, db, now, gapped, undone, missed>>,
         \/ line' = line
         \/ \E s \in LineStatement :
              /\ ~s.ran /\ s.kind # "stop"
              /\ s.kind = "subscribe" => ~Holds(line, "subscribe")
              /\ s.kind = "heartbeat" => s.n # 0
              /\ line' = Append(line, s),
         \A q \in asked' : q \in asked \/ (IsAsk(q) /\ ~q.ran /\ q.kind \in {"sweep", "take"}),
         asked \subseteq asked',
         InOrder(line') => Attends'
  PROVE  Inv'
  <1>1. line \in Seq(LineStatement) /\ InOrder(line) BY DEF Inv, Types, Attends
  <1>2. /\ line' \in Seq(LineStatement) /\ InOrder(line')
        /\ HeadRan(line') <=> HeadRan(line)
        /\ HeadRan(line) => line'[1] = line[1]
        /\ Leaving(line') = Leaving(line) /\ Back(line') = Back(line)
    <2>1. CASE line' = line BY <1>1, <2>1
    <2>2. ASSUME NEW s \in LineStatement, ~s.ran, s.kind # "stop",
                 s.kind = "subscribe" => ~Holds(line, "subscribe"),
                 s.kind = "heartbeat" => s.n # 0, line' = Append(line, s)
          PROVE  /\ line' \in Seq(LineStatement) /\ InOrder(line')
                 /\ HeadRan(line') <=> HeadRan(line)
                 /\ HeadRan(line) => line'[1] = line[1]
                 /\ Leaving(line') = Leaving(line) /\ Back(line') = Back(line)
      BY <1>1, <2>2, JoinIs
    <2> QED BY <2>1, <2>2
  <1>3. Types' BY <1>2 DEF Inv, Types
  <1>4. Attends' BY <1>2
  <1>5. Times' BY <1>2 DEF Inv, Times
  <1>6. Registered' BY <1>2 DEF Inv, Registered
  <1>7. Rows'
    <2>1. \A q \in asked' : q \in asked \/ (/\ \A r \in Row : ~Claims(q, r)
                                            /\ ~(q.kind = "ack" /\ q.ran))
      BY DEF Claims
    <2> QED BY <1>2, <2>1, RowsStay DEF Inv
  <1> QED BY <1>3, <1>4, <1>5, <1>6, <1>7 DEF Inv

\* start(), and the retry timer.
LEMMA SubscribeStep ==
  ASSUME Inv, Start \/ RetryTimer
  PROVE  Inv'
  <1> DEFINE x == IF Start THEN [ns EXCEPT !.started = TRUE] ELSE [ns EXCEPT !.retry = FALSE]
             s == Statement("subscribe", 0, {})
  <1>1. ns \in Subscriber /\ Attends /\ line \in Seq(LineStatement) BY DEF Inv, Types
  <1>2. /\ x \in Subscriber /\ x.started /\ (~x.retry \/ x.retry = ns.retry)
        /\ x.number = ns.number /\ x.seen = ns.seen /\ x.taken = ns.taken
        /\ x.draining = ns.draining /\ x.stopped = ns.stopped /\ x.beating = ns.beating
        /\ x.beat = ns.beat /\ x.sweep = ns.sweep /\ x.subscribing = ns.subscribing
        /\ ns.number = 0 /\ ~x.retry
    <2>1. CASE Start BY <1>1, <2>1 DEF Subscriber, Start, Attends
    <2>2. CASE ~Start /\ RetryTimer BY <1>1, <2>2 DEF Subscriber, RetryTimer, Attends
    <2> QED BY <2>1, <2>2
  <1>3. /\ ns' = Subscribing(x) /\ line' = SubscribeLine(ns, line)
        /\ UNCHANGED <<asked, work, db, now, gapped, undone, missed>>
    BY DEF Start, RetryTimer
  <1> HIDE DEF x
  <1>4. MaySubscribe(ns) <=> MaySubscribe(x) BY <1>2 DEF MaySubscribe
  <1>5. s \in LineStatement /\ ~s.ran /\ s.kind = "subscribe" BY StatementIs
  <1>6. line' = IF MaySubscribe(x) THEN Append(line, s) ELSE line
    BY <1>3, <1>4 DEF SubscribeLine, OnLine
  <1> HIDE DEF s
  <1>7. MaySubscribe(x) => ~Holds(line, "subscribe")
    BY <1>1, <1>2 DEF MaySubscribe, Attends
  <1>8. /\ ns' \in Subscriber /\ Settled(x, ns')
        /\ ns'.subscribing <=> ns.subscribing \/ MaySubscribe(x)
        /\ ns'.beating = ns.beating /\ ns'.beat = ns.beat /\ ns'.sweep = ns.sweep
        /\ ~ns'.retry
    BY <1>2, <1>3, SubscribingIs
  <1>9. \A kind : Holds(line', kind) <=> Holds(line, kind)
                                         \/ (MaySubscribe(x) /\ kind = "subscribe")
    <2>1. CASE MaySubscribe(x)
      BY <1>1, <1>5, <1>6, <1>7, <2>1, JoinIs DEF Attends
    <2>2. CASE ~MaySubscribe(x) BY <1>6, <2>2
    <2> QED BY <2>1, <2>2
  <1>10. HeadRan(line') => HeadRan(line) /\ line'[1] = line[1]
    <2>1. CASE MaySubscribe(x)
      BY <1>1, <1>5, <1>6, <1>7, <2>1, JoinIs DEF Attends
    <2>2. CASE ~MaySubscribe(x) BY <1>6, <2>2
    <2> QED BY <2>1, <2>2
  <1>11. InOrder(line') => Attends'
    BY <1>1, <1>2, <1>8, <1>9, <1>10 DEF Attends, Settled, MaySubscribe
  <1> QED BY <1>2, <1>3, <1>5, <1>6, <1>7, <1>8, <1>11, QuietStep DEF Settled

\* A wake-up.
LEMMA WakeStep ==
  ASSUME Inv, NEW r \in Row, Wake(r)
  PROVE  Inv'
  <1>1. PICK q : Ask("take", r, 0) = {q} /\ IsAsk(q) /\ q.kind = "take" /\ ~q.ran
    BY AskIs
  <1>2. asked' = asked \cup {q} /\ UNCHANGED <<ns, line, work, db, now, gapped, undone, missed>>
    BY <1>1 DEF Wake
  <1>3. Attends' BY <1>2 DEF Inv, Attends
  <1> QED BY <1>1, <1>2, <1>3, QuietStep DEF Inv, Types

\* What sweep_now() and heartbeat_now() put out, from a timer or a LISTEN confirmed.
LEMMA BeatAndSweepStep ==
  ASSUME Inv, ListenReady \/ HeartbeatTimer \/ SweepTimer
  PROVE  Inv'
  <1> DEFINE s == Statement("heartbeat", ns.number, {})
  <1>1. ns \in Subscriber /\ Attends /\ line \in Seq(LineStatement) BY DEF Inv, Types
  <1>2. /\ ns' \in Subscriber /\ Settled(ns, ns')
        /\ ns'.subscribing = ns.subscribing /\ ns'.retry = ns.retry
        /\ ns'.beat = ns.beat \/ (ns'.beat <=> ~ns.stopped)
        /\ ns'.sweep = ns.sweep \/ (ns'.sweep <=> ~ns.draining /\ ~ns.stopped)
        /\ \/ line' = line /\ ns'.beating = ns.beating
           \/ /\ line' = BeatLine(ns, line)
              /\ ns'.beating <=> ns.beating \/ MayBeat(ns)
    <2>1. CASE ListenReady
      <3> DEFINE y == Sweeping(ns)
      <3>1. y \in Subscriber /\ Settled(ns, y) /\ y.beating = ns.beating
            /\ y.subscribing = ns.subscribing /\ y.beat = ns.beat /\ y.sweep = ns.sweep
            /\ y.retry = ns.retry
        BY <1>1, SweepingIs
      <3>2. ns' = Beating(y) /\ line' = BeatLine(ns, line) BY <2>1 DEF ListenReady
      <3> HIDE DEF y
      <3>3. MayBeat(y) <=> MayBeat(ns) BY <3>1 DEF MayBeat, Settled
      <3> QED BY <3>1, <3>2, <3>3, BeatingIs DEF Settled
    <2>2. CASE HeartbeatTimer
      <3> DEFINE y == Beating(ns)
      <3>1. y \in Subscriber /\ Settled(ns, y) /\ (y.beating <=> ns.beating \/ MayBeat(ns))
            /\ y.subscribing = ns.subscribing /\ y.beat = ns.beat /\ y.sweep = ns.sweep
            /\ y.retry = ns.retry
        BY <1>1, BeatingIs
      <3>2. ns' = ArmHeartbeat(y) /\ line' = BeatLine(ns, line) BY <2>2 DEF HeartbeatTimer
      <3> HIDE DEF y
      <3> QED BY <3>1, <3>2, ArmsAre DEF Settled
    <2>3. CASE SweepTimer
      <3> DEFINE y == Sweeping(ns)
      <3>1. y \in Subscriber /\ Settled(ns, y) /\ y.beating = ns.beating
            /\ y.subscribing = ns.subscribing /\ y.beat = ns.beat /\ y.sweep = ns.sweep
            /\ y.retry = ns.retry
        BY <1>1, SweepingIs
      <3>2. ns' = ArmSweep(y) /\ line' = line BY <2>3 DEF SweepTimer
      <3> HIDE DEF y
      <3> QED BY <3>1, <3>2, ArmsAre DEF Settled
    <2> QED BY <2>1, <2>2, <2>3
  <1>3. /\ UNCHANGED <<work, db, now, gapped, undone, missed>>
        /\ asked' = asked \/ asked' = asked \cup SweepAsk(ns)
    BY DEF ListenReady, HeartbeatTimer, SweepTimer
  <1>4. PICK q : Ask("sweep", AnyRow, 0) = {q} /\ IsAsk(q) /\ q.kind = "sweep" /\ ~q.ran
    BY AskIs
  <1>5. /\ asked \subseteq asked'
        /\ \A p \in asked' : p \in asked \/ p = q
    BY <1>3, <1>4 DEF SweepAsk
  <1>6. s \in LineStatement /\ ~s.ran /\ s.kind = "heartbeat" /\ s.n = ns.number
    BY <1>1, StatementIs DEF Subscriber
  <1> HIDE DEF s
  <1>7. \/ line' = line /\ (ns'.beating => ns.beating)
        \/ line' = Append(line, s) /\ ns.number # 0
    BY <1>2 DEF BeatLine, OnLine, MayBeat, s
  <1>8. CASE line' = line /\ (ns'.beating => ns.beating)
    <2>1. Attends' BY <1>1, <1>2, <1>8 DEF Attends, Settled
    <2> QED BY <1>2, <1>3, <1>4, <1>5, <1>8, <2>1, QuietStep DEF Settled
  <1>9. CASE line' = Append(line, s) /\ ns.number # 0
    <2>1. /\ HeadRan(line') => HeadRan(line) /\ line'[1] = line[1]
          /\ \A kind : Holds(line', kind) <=> Holds(line, kind) \/ kind = "heartbeat"
      BY <1>1, <1>6, <1>9, JoinIs DEF Attends
    <2>2. InOrder(line') => Attends' BY <1>1, <1>2, <1>9, <2>1 DEF Attends, Settled
    <2> QED BY <1>2, <1>3, <1>4, <1>5, <1>6, <1>9, <2>2, QuietStep DEF Settled
  <1> QED BY <1>7, <1>8, <1>9

\* What a step that is not the line's leaves of the subscriber.
Same(x, y) ==
    /\ y.number = x.number /\ y.seen = x.seen /\ y.started = x.started
    /\ y.draining = x.draining /\ y.stopped = x.stopped /\ y.subscribing = x.subscribing
    /\ y.beating = x.beating /\ y.beat = x.beat /\ y.sweep = x.sweep /\ y.retry = x.retry

\* A step that has to do with rows alone.
LEMMA RowStep ==
  ASSUME Inv, Types', Same(ns, ns'), UNCHANGED <<line, now, gapped>>,
         db'.reg = db.reg, db'.seen = db.seen, missed' = missed \/ missed' # 0, Rows',
         ns'.stopped => \A r \in Row : ns'.taken[r] = 0
  PROVE  Inv'
  <1>1. Attends' BY DEF Inv, Attends, Same
  <1>2. Times' BY DEF Inv, Times, Same
  <1>3. Registered' BY DEF Inv, Registered, Same
  <1> QED BY <1>1, <1>2, <1>3 DEF Inv

\* drain()
LEMMA DrainStep ==
  ASSUME Inv, Drain
  PROVE  Inv'
  <1> DEFINE s == Statement("drain", ns.number, {})
  <1>1. ns \in Subscriber /\ Attends /\ line \in Seq(LineStatement) BY DEF Inv, Types
  <1>2. /\ ns' \in Subscriber /\ ns'.number = ns.number /\ ns'.seen = ns.seen
        /\ ns'.taken = ns.taken /\ ns'.draining /\ ns'.stopped = ns.stopped
        /\ ns'.started = ns.started /\ ns'.subscribing = ns.subscribing
        /\ ns'.beating = ns.beating /\ ns'.beat = ns.beat /\ ~ns'.retry
    BY <1>1 DEF Drain, Subscriber
  <1>3. s \in LineStatement /\ ~s.ran /\ s.kind = "drain" /\ s.n = ns.number
    BY <1>1, StatementIs DEF Subscriber
  <1>4. line' = line \/ line' = Append(line, s) BY DEF Drain, OnLine
  <1> HIDE DEF s
  <1>5. UNCHANGED <<asked, work, db, now, gapped, undone, missed>> BY DEF Drain
  <1>6. CASE line' = line
    <2>1. Attends' BY <1>1, <1>2, <1>6 DEF Attends
    <2> QED BY <1>2, <1>5, <1>6, <2>1, QuietStep
  <1>7. CASE line' = Append(line, s)
    <2>1. /\ HeadRan(line') => HeadRan(line) /\ line'[1] = line[1]
          /\ \A kind : Holds(line', kind) <=> Holds(line, kind) \/ kind = "drain"
      BY <1>1, <1>3, <1>7, JoinIs DEF Attends
    <2>2. InOrder(line') => Attends' BY <1>1, <1>2, <2>1 DEF Attends
    <2> QED BY <1>2, <1>3, <1>5, <1>7, <2>2, QuietStep
  <1> QED BY <1>4, <1>6, <1>7

LEMMA HeldIs ==
  ASSUME NEW s \in Subscriber
  PROVE  /\ Held(s) \in SUBSET (Row \X Nat)
         /\ \A r \in Row : \A t : <<r, t>> \in Held(s) <=> s.taken[r] = t /\ t # 0
         /\ \A w \in Held(s) : w[2] = s.taken[w[1]] /\ s.taken[w[1]] # 0 /\ w[1] \in Row
  BY DEF Held, Subscriber

LEMMA StoppingIs ==
  ASSUME NEW x \in Subscriber
  PROVE  LET y == Stopping(x) IN
         /\ y \in Subscriber /\ y.number = 0 /\ y.seen = x.seen /\ y.stopped /\ y.draining
         /\ \A r \in Row : y.taken[r] = 0
         /\ y.started = x.started /\ y.subscribing = x.subscribing /\ y.beating = x.beating
         /\ ~y.retry
  BY DEF Stopping, Subscriber

\* stop()
LEMMA StopStep ==
  ASSUME Inv, Stop
  PROVE  Inv'
  <1> DEFINE s == Statement("stop", ns.number, Held(ns))
  <1>1. ns \in Subscriber /\ Attends /\ line \in Seq(LineStatement) /\ InOrder(line)
    BY DEF Inv, Types, Attends
  <1>2. /\ ns' \in Subscriber /\ ns'.number = 0 /\ ns'.seen = ns.seen
        /\ ns'.stopped /\ ns'.draining /\ ~ns'.retry
        /\ ns'.started = ns.started /\ ns'.subscribing = ns.subscribing
        /\ ns'.beating = ns.beating /\ \A r \in Row : ns'.taken[r] = 0
    BY <1>1, StoppingIs DEF Stop
  <1>3. /\ s \in LineStatement /\ ~s.ran /\ s.kind = "stop" /\ s.n = ns.number
        /\ s.rows = Held(ns)
    BY <1>1, HeldIs, StatementIs DEF Subscriber
  <1>4. \/ line' = Append(line, s)
        \/ line' = line /\ ns.number = 0 /\ Held(ns) = {}
    BY DEF Stop, StopLine, StopSpeaks, OnLine
  <1> HIDE DEF s
  <1>5. UNCHANGED <<asked, work, db, now, gapped, undone, missed>> BY DEF Stop
  <1>6. /\ line' \in Seq(LineStatement) /\ InOrder(line')
        /\ HeadRan(line') <=> HeadRan(line)
        /\ HeadRan(line) => line'[1] = line[1]
        /\ \A kind : kind # "stop" => (Holds(line', kind) <=> Holds(line, kind))
        /\ Leaving(line) \subseteq Leaving(line')
        /\ ns.number # 0 => ns.number \in Leaving(line')
        /\ Back(line') = Back(line) \cup Held(ns)
    <2>1. CASE line' = Append(line, s) BY <1>1, <1>3, <2>1, JoinIs
    <2>2. CASE line' = line /\ ns.number = 0 /\ Held(ns) = {} BY <1>1, <2>2
    <2> QED BY <1>4, <2>1, <2>2
  <1>7. Types' BY <1>2, <1>5, <1>6 DEF Inv, Types
  <1>8. Attends' BY <1>1, <1>2, <1>6 DEF Attends
  <1>9. Times' BY <1>2, <1>5, <1>6 DEF Inv, Times
  <1>10. Registered'
    <2>1. 0 \notin db.reg BY DEF Inv, Types, Database
    <2> QED BY <1>5, <1>6, <2>1 DEF Inv, Registered
  <1>11. Rows'
    <2> SUFFICES ASSUME missed = 0 PROVE Rows' BY <1>5 DEF Rows
    <2>1. \A r \in Row : Leased(r) BY DEF Inv, Rows
    <2>2. ASSUME NEW r \in Row PROVE Leased(r)'
      <3>1. Leased(r) BY <2>1
      <3>2. \A t : <<r, t>> \in Back(line')
                     <=> <<r, t>> \in Back(line) \/ (ns.taken[r] = t /\ t # 0)
        BY <1>1, <1>6, HeldIs
      <3>3. \A w \in Back(line') : w[1] = r => w \in Back(line) \/ (ns.taken[r] = w[2] /\ w[2] # 0)
        BY <1>1, <1>6, HeldIs
      <3>4. db.row[r].token \in Nat BY DEF Inv, Types, Database
      <3>5. ns'.taken[r] = 0 BY <1>2
      <3>6. \A q \in asked : Claims(q, r) => <<r, TokenOf(q)>> \notin Back(line')
        BY <3>1, <3>2 DEF Leased
      <3>7. \A w \in Back(line') : w[1] = r => w[2] <= db.row[r].token
        BY <3>1, <3>3, <3>4 DEF Leased
      <3>8. db.row[r].held => \/ \E q \in asked : Claims(q, r)
                              \/ <<r, db.row[r].token>> \in Back(line')
        BY <3>1, <3>2 DEF Leased
      <3> QED BY <1>5, <3>1, <3>5, <3>6, <3>7, <3>8 DEF Leased
    <2> QED BY <1>5, <2>2 DEF Inv, Rows
  <1> QED BY <1>7, <1>8, <1>9, <1>10, <1>11 DEF Inv

\* complete() and refuse(): the row goes from the module to the statement that gives it back.
LEMMA ReleaseStep ==
  ASSUME Inv, NEW kind \in {"ack", "nack"}, NEW r \in Row, NEW t \in Nat \ {0},
         ns.taken[r] = t, ns' = [ns EXCEPT !.taken[r] = 0],
         asked' = asked \cup Ask(kind, r, t), work' = work \ {<<r, t>>},
         UNCHANGED <<line, db, now, gapped, undone, missed>>
  PROVE  Inv'
  <1>1. PICK q : /\ Ask(kind, r, t) = {q} /\ IsAsk(q) /\ q.kind = kind /\ q.row = r
                 /\ q.token = t /\ ~q.ran
    BY AskIs
  <1>2. ns \in Subscriber BY DEF Inv, Types
  <1>3. /\ ns' \in Subscriber /\ Same(ns, ns') /\ ns'.taken[r] = 0
        /\ \A o \in Row : o # r => ns'.taken[o] = ns.taken[o]
    BY <1>2 DEF Subscriber, Same
  <1>4. Types' BY <1>1, <1>3 DEF Inv, Types
  <1>5. ns'.stopped => \A o \in Row : ns'.taken[o] = 0
    BY <1>3 DEF Inv, Attends, Same
  <1>6. Rows'
    <2> SUFFICES ASSUME missed = 0 PROVE Rows' BY DEF Rows
    <2>1. \A o \in Row : Leased(o) BY DEF Inv, Rows
    <2>2. Claims(q, r) /\ TokenOf(q) = t /\ \A o \in Row : o # r => ~Claims(q, o)
      BY <1>1 DEF Claims, TokenOf
    <2>3. \A p : p \in asked' <=> p \in asked \/ p = q BY <1>1
    <2>4. Leased(r)'
      <3>1. /\ db.row[r].held /\ db.row[r].token = t /\ <<r, t>> \notin Back(line)
            /\ \A p \in asked : ~Claims(p, r)
        BY <2>1 DEF Leased
      <3>2. \A w \in Back(line) : w[1] = r => w[2] <= db.row[r].token BY <2>1 DEF Leased
      <3> QED BY <1>3, <2>2, <2>3, <3>1, <3>2 DEF Leased
    <2>5. ASSUME NEW o \in Row, o # r PROVE Leased(o)'
      <3>1. Leased(o) BY <2>1
      <3>2. \A p : p \in asked' /\ Claims(p, o) <=> p \in asked /\ Claims(p, o)
        BY <2>2, <2>3, <2>5
      <3> QED BY <1>3, <2>5, <3>1, <3>2 DEF Leased
    <2>6. \A p \in asked' : p.kind = "ack" /\ p.ran => p.out = 1 BY <1>1, <2>3 DEF Inv, Rows
    <2> QED BY <2>4, <2>5, <2>6 DEF Inv, Rows
  <1> QED BY <1>3, <1>4, <1>5, <1>6, RowStep

LEMMA AnswerStep ==
  ASSUME Inv, NEW w \in work, Complete(w[1], w[2]) \/ Refuse(w[1], w[2])
  PROVE  Inv'
  <1>1. PICK r \in Row, t \in Nat \ {0} : w = <<r, t>> BY DEF Inv, Types
  <1>2. Complete(r, t) \/ Refuse(r, t) BY <1>1
  <1>3. CASE ns.taken[r] = t
    <2>1. CASE Complete(r, t) BY <1>3, <2>1, ReleaseStep DEF Complete
    <2>2. CASE Refuse(r, t) BY <1>3, <2>2, ReleaseStep DEF Refuse
    <2> QED BY <1>2, <2>1, <2>2
  <1>4. CASE ns.taken[r] # t
    <2>1. /\ work' = work \ {<<r, t>>}
          /\ UNCHANGED <<ns, asked, line, db, now, gapped, undone, missed>>
      BY <1>2, <1>4 DEF Complete, Refuse
    <2>2. Types' BY <2>1 DEF Inv, Types
    <2>3. Rows' BY <2>1, RowsStay DEF Inv
    <2>4. Same(ns, ns') BY <2>1 DEF Same
    <2> QED BY <2>1, <2>2, <2>3, <2>4, RowStep DEF Inv, Attends
  <1> QED BY <1>3, <1>4

\* What a row becomes.
LEMMA RowIs ==
  ASSUME NEW d \in Database, NEW r \in Row, NEW x \in [held : BOOLEAN, token : Nat, closed : BOOLEAN]
  PROVE  LET e == [d EXCEPT !.row[r] = x] IN
         /\ e \in Database /\ e.given = d.given /\ e.reg = d.reg /\ e.seen = d.seen
         /\ e.row[r] = x /\ \A o \in Row : o # r => e.row[o] = d.row[o]
  BY DEF Database

LEMMA LeaseEndsStep ==
  ASSUME Inv, NEW r \in Row, LeaseEnds(r)
  PROVE  Inv'
  <1> DEFINE x == [db.row[r] EXCEPT !.held = FALSE]
  <1>1. db \in Database /\ missed \in Nat BY DEF Inv, Types
  <1>2. x \in [held : BOOLEAN, token : Nat, closed : BOOLEAN] BY <1>1 DEF Database
  <1>3. db' = [db EXCEPT !.row[r] = x] BY DEF LeaseEnds
  <1> HIDE DEF x
  <1>4. db' \in Database /\ db'.given = db.given /\ db'.reg = db.reg /\ db'.seen = db.seen
    BY <1>1, <1>2, <1>3, RowIs
  <1>5. /\ UNCHANGED <<ns, line, asked, work, now, gapped, undone>>
        /\ missed' = missed + 1 /\ missed' # 0 /\ missed' \in Nat
    BY <1>1 DEF LeaseEnds
  <1>6. Types' BY <1>4, <1>5 DEF Inv, Types
  <1>7. Rows' BY <1>5 DEF Rows
  <1>8. Same(ns, ns') BY <1>5 DEF Same
  <1>9. ns'.stopped => \A o \in Row : ns'.taken[o] = 0 BY <1>5 DEF Inv, Attends
  <1> QED BY <1>4, <1>5, <1>6, <1>7, <1>8, <1>9, RowStep

LEMMA ForgottenStep ==
  ASSUME Inv, Forgotten
  PROVE  Inv'
  <1>1. db \in Database /\ missed \in Nat BY DEF Inv, Types
  <1>2. /\ UNCHANGED <<ns, line, asked, work, now, gapped, undone>>
        /\ missed' = missed + 1 /\ missed' # 0 /\ missed' \in Nat
    BY <1>1 DEF Forgotten
  <1>3. /\ db' \in Database /\ db'.given = db.given /\ db'.reg = {} /\ db'.seen = db.seen
    BY <1>1 DEF Forgotten, Database
  <1>4. Types' BY <1>2, <1>3 DEF Inv, Types
  <1>5. Attends' BY <1>2 DEF Inv, Attends
  <1>6. Times' BY <1>2, <1>3 DEF Inv, Times
  <1>7. Registered' BY <1>2, <1>3 DEF Registered
  <1>8. Rows' BY <1>2 DEF Rows
  <1> QED BY <1>4, <1>5, <1>6, <1>7, <1>8 DEF Inv

LEMMA TickStep ==
  ASSUME Inv, Tick
  PROVE  Inv'
  <1>1. /\ UNCHANGED <<ns, line, asked, work, db, undone, missed>> /\ now' = now + 1
        /\ gapped' = (gapped \/ (ns.number \in db.reg /\ now' - db.seen >= Alive))
    BY DEF Tick
  <1>2. /\ now \in Nat /\ ns.seen \in Nat /\ db.seen \in Nat /\ Alive \in Nat
        /\ line # <<>> => line[1].at \in Nat
    <2>1. now \in Nat /\ ns.seen \in Nat /\ db.seen \in Nat
      BY DEF Inv, Types, Subscriber, Database
    <2>2. line # <<>> => line[1].at \in Nat
      BY EmptySeq, DropIs DEF Inv, Types, Attends, LineStatement
    <2> QED BY <2>1, <2>2, SubscriberConstants
  <1>3. Types' BY <1>1, <1>2 DEF Inv, Types
  <1>4. Attends' BY <1>1 DEF Inv, Attends
  <1>5. Times'
    <2>1. Times BY DEF Inv
    <2>2. gapped' => gapped \/ now' - db.seen >= Alive BY <1>1
    <2>3. HeadRan(line) => line # <<>> BY DEF HeadRan
    <2>4. gapped' /\ ns.number # 0 /\ ~ns.draining => now' - ns.seen >= Alive
      BY <1>1, <1>2, <2>1, <2>2 DEF Times
    <2>5. /\ gapped' /\ ns.number # 0 /\ ~ns.draining
          /\ HeadRan(line) /\ line[1].kind = "heartbeat" /\ line[1].out # 0
          /\ line[1].n = ns.number
          => line[1].at - ns.seen >= Alive \/ now' - line[1].at >= Alive
      BY <1>1, <1>2, <2>1, <2>2, <2>3 DEF Times
    <2>6. db.seen <= now' /\ 1 <= now' BY <1>1, <1>2, <2>1 DEF Times
    <2> QED BY <1>1, <2>1, <2>4, <2>5, <2>6 DEF Times
  <1>6. Registered' BY <1>1 DEF Inv, Registered
  <1>7. Rows' BY <1>1, RowsStay DEF Inv
  <1> QED BY <1>3, <1>4, <1>5, <1>6, <1>7 DEF Inv

LEMMA RefusedIs ==
  ASSUME NEW d \in Database, NEW S
  PROVE  LET e == Refused(d, S) IN
         /\ e \in Database /\ e.given = d.given /\ e.reg = d.reg /\ e.seen = d.seen
         /\ \A r \in Row : /\ e.row[r].token = d.row[r].token
                           /\ e.row[r].held <=> d.row[r].held /\ <<r, d.row[r].token>> \notin S
  <1> DEFINE row == [r \in Row |-> IF d.row[r].held /\ <<r, d.row[r].token>> \in S
                                   THEN [d.row[r] EXCEPT !.held = FALSE] ELSE d.row[r]]
  <1>1. \A r \in Row : d.row[r] \in [held : BOOLEAN, token : Nat, closed : BOOLEAN]
    BY DEF Database
  <1>2. ASSUME NEW r \in Row
        PROVE  /\ row[r] \in [held : BOOLEAN, token : Nat, closed : BOOLEAN]
               /\ row[r].token = d.row[r].token
               /\ row[r].held <=> d.row[r].held /\ <<r, d.row[r].token>> \notin S
    BY <1>1
  <1>3. row \in [Row -> [held : BOOLEAN, token : Nat, closed : BOOLEAN]] BY <1>2
  <1>4. Refused(d, S) = [d EXCEPT !.row = row] BY DEF Refused
  <1> HIDE DEF row
  <1>5. /\ Refused(d, S) \in Database /\ Refused(d, S).given = d.given
        /\ Refused(d, S).reg = d.reg /\ Refused(d, S).seen = d.seen /\ Refused(d, S).row = row
    BY <1>3, <1>4 DEF Database
  <1> QED BY <1>2, <1>5

\* stop()'s statement runs: what it gives back is nobody's else.
LEMMA GivenBack ==
  ASSUME NEW S, NEW q \in Seq(LineStatement), Rows, db \in Database, missed' = missed,
         undone' = undone, asked' = asked, ns'.taken = ns.taken,
         db'.row = Refused(db, S).row, line' = q, Back(line) = Back(q) \cup S
  PROVE  Rows'
  <1> SUFFICES ASSUME missed = 0 PROVE Rows' BY DEF Rows
  <1>1. \A r \in Row : Leased(r) BY DEF Rows
  <1>2. ASSUME NEW r \in Row PROVE Leased(r)'
    <2>1. Leased(r) BY <1>1
    <2>2. /\ db'.row[r].token = db.row[r].token
          /\ db'.row[r].held <=> db.row[r].held /\ <<r, db.row[r].token>> \notin S
      BY RefusedIs
    <2>3. ns.taken[r] # 0 => db'.row[r].held BY <2>1, <2>2 DEF Leased
    <2>4. \A p \in asked : Claims(p, r) => db'.row[r].held BY <2>1, <2>2 DEF Leased
    <2> QED BY <2>1, <2>2, <2>3, <2>4 DEF Leased
  <1> QED BY <1>2 DEF Rows

LEMMA LineRunsStep ==
  ASSUME Inv, LineRuns
  PROVE  Inv'
  <1> DEFINE s == line[1]
             n == Cardinality(db.given) + 1
             known == s.n \in db.reg
             out == CASE s.kind = "subscribe"           -> n
                      [] s.kind = "heartbeat" /\ known -> 1
                      [] OTHER                          -> 0
  <1>1. /\ line \in Seq(LineStatement) /\ InOrder(line) /\ line # <<>> /\ now \in Nat
        /\ db \in Database /\ IsFiniteSet(db.given)
    BY DEF Inv, Types, Attends, LineRuns
  <1>2. Head(line) = s /\ s \in LineStatement BY <1>1, DropIs
  <1>3. ~s.ran BY <1>2 DEF LineRuns
  <1>4. n \in Nat /\ n # 0 BY <1>1, FS_CardinalityType
  <1>5. line' = [line EXCEPT ![1].ran = TRUE, ![1].at = now, ![1].out = out]
    BY <1>2 DEF LineRuns
  <1>6. UNCHANGED <<ns, asked, work, now, gapped, undone, missed>> BY DEF LineRuns
  <1>7. db' = CASE s.kind = "subscribe" -> [db EXCEPT !.given = @ \cup {n}, !.reg = @ \cup {n},
                                                      !.seen = now]
                [] s.kind = "heartbeat" -> [db EXCEPT !.seen = IF known THEN now ELSE @]
                [] s.kind = "stop"      -> [Refused(db, s.rows) EXCEPT !.reg = @ \ {s.n}]
                [] s.kind = "drain"     -> db
    BY <1>2 DEF LineRuns
  <1>8. s.kind \in {"subscribe", "heartbeat", "drain", "stop"} /\ s.rows \in SUBSET (Row \X Nat)
    BY <1>2 DEF LineStatement
  <1>9. /\ out \in Nat
        /\ s.kind = "subscribe" => out # 0
        /\ s.kind = "heartbeat" => (out # 0 <=> known)
    BY <1>4
  <1> HIDE DEF n, out, s
  <1>10. /\ line' \in Seq(LineStatement) /\ InOrder(line') /\ HeadRan(line') /\ ~HeadRan(line)
         /\ line'[1].kind = s.kind /\ line'[1].n = s.n /\ line'[1].at = now /\ line'[1].out = out
         /\ \A kind : Holds(line', kind) <=> Holds(line, kind)
         /\ Leaving(line) = Leaving(line') \cup (IF s.kind = "stop" THEN {s.n} ELSE {})
         /\ Back(line) = Back(line') \cup (IF s.kind = "stop" THEN s.rows ELSE {})
    <2> DEFINE h == [s EXCEPT !.ran = TRUE, !.at = now, !.out = out]
    <2>1. /\ h \in LineStatement /\ h.ran /\ h.kind = s.kind /\ h.n = s.n /\ h.rows = s.rows
          /\ h.at = now /\ h.out = out
      BY <1>1, <1>2, <1>9 DEF LineStatement
    <2>2. 1 \in DOMAIN line BY <1>1, EmptySeq, HeadTailProperties
    <2> DEFINE p == [line EXCEPT ![1] = h]
    <2>3. line' = p BY <1>5, <2>2 DEF s
    <2> HIDE DEF h
    <2>4. ~line[1].ran /\ line[1].kind = s.kind /\ line[1].n = s.n /\ line[1].rows = s.rows
      BY <1>3 DEF s
    <2>5. /\ p \in Seq(LineStatement) /\ InOrder(p) /\ HeadRan(p) /\ p[1] = h
          /\ \A kind : Holds(p, kind) <=> Holds(line, kind)
          /\ Leaving(line) = Leaving(p) \cup (IF h.kind = "stop" THEN {h.n} ELSE {})
          /\ Back(line) = Back(p) \cup (IF h.kind = "stop" THEN h.rows ELSE {})
      BY ZenonT(60), <1>1, <2>1, <2>4, MarkIs
    <2> HIDE DEF p
    <2> QED BY <2>1, <2>3, <2>4, <2>5 DEF HeadRan
  <1>11. Attends' BY <1>6, <1>9, <1>10 DEF Inv, Attends
  <1>12. db.seen \in Nat /\ db.seen <= now /\ ns.seen \in Nat /\ ns.seen <= db.seen /\ Times
    BY DEF Inv, Types, Database, Subscriber, Times
  <1>13. CASE s.kind = "subscribe"
    <2>1. out = n BY <1>13 DEF out
    <2>2. db' = [db EXCEPT !.given = @ \cup {n}, !.reg = @ \cup {n}, !.seen = now]
      BY <1>7, <1>13
    <2>3. /\ db' \in Database /\ db'.given = db.given \cup {n} /\ db'.reg = db.reg \cup {n}
          /\ db'.seen = now /\ db'.row = db.row
      BY <1>1, <1>4, <2>2 DEF Database
    <2>4. IsFiniteSet(db'.given)
      <3>1. IsFiniteSet(db.given \cup {n}) BY <1>1, FS_AddElement
      <3> QED BY <2>3, <3>1
    <2>5. Types' BY <1>6, <1>10, <2>3, <2>4 DEF Inv, Types
    <2>6. Times' BY <1>1, <1>6, <1>10, <1>12, <1>13, <2>3 DEF Times
    <2>7. Leaving(line') = Leaving(line) /\ Back(line') = Back(line) BY <1>10, <1>13
    <2>8. Registered' BY <1>6, <1>10, <1>13, <2>1, <2>3, <2>7 DEF Inv, Registered
    <2>9. Rows' BY <1>6, <2>3, <2>7, RowsStay DEF Inv
    <2> QED BY <1>11, <2>5, <2>6, <2>8, <2>9 DEF Inv
  <1>14. CASE s.kind = "heartbeat"
    <2>1. db' = [db EXCEPT !.seen = IF known THEN now ELSE @] BY <1>7, <1>14
    <2>2. /\ db' \in Database /\ db'.given = db.given /\ db'.reg = db.reg /\ db'.row = db.row
          /\ db'.seen = IF known THEN now ELSE db.seen
      BY <1>1, <2>1 DEF Database
    <2>3. Types' BY <1>6, <1>10, <2>2 DEF Inv, Types
    <2>4. Times' BY <1>1, <1>6, <1>9, <1>10, <1>12, <1>14, <2>2 DEF Times
    <2>5. Leaving(line') = Leaving(line) /\ Back(line') = Back(line) BY <1>10, <1>14
    <2>6. Registered' BY <1>6, <1>9, <1>10, <1>14, <2>2, <2>5 DEF Inv, Registered
    <2>7. Rows' BY <1>6, <2>2, <2>5, RowsStay DEF Inv
    <2> QED BY <1>11, <2>3, <2>4, <2>6, <2>7 DEF Inv
  <1>15. CASE s.kind = "stop"
    <2> DEFINE e == Refused(db, s.rows)
    <2>1. db' = [e EXCEPT !.reg = @ \ {s.n}] BY <1>7, <1>15
    <2>2. e \in Database /\ e.given = db.given /\ e.reg = db.reg /\ e.seen = db.seen
      BY <1>1, RefusedIs
    <2> HIDE DEF e
    <2>3. /\ db' \in Database /\ db'.given = db.given /\ db'.reg = db.reg \ {s.n}
          /\ db'.seen = db.seen /\ db'.row = e.row
      BY <2>1, <2>2 DEF Database
    <2>4. Types' BY <1>6, <1>10, <2>3 DEF Inv, Types
    <2>5. Times' BY <1>1, <1>6, <1>10, <1>12, <1>15, <2>3 DEF Times
    <2>6. Registered' BY <1>6, <1>10, <1>15, <2>3 DEF Inv, Registered
    <2>7. Back(line) = Back(line') \cup s.rows BY <1>10, <1>15
    <2>8. Rows' BY <1>1, <1>6, <1>10, <2>3, <2>7, GivenBack DEF Inv, e
    <2> QED BY <1>11, <2>4, <2>5, <2>6, <2>8 DEF Inv
  <1>16. CASE s.kind = "drain"
    <2>1. db' = db BY <1>7, <1>16
    <2>2. Types' BY <1>6, <1>10, <2>1 DEF Inv, Types
    <2>3. Times' BY <1>1, <1>6, <1>10, <1>12, <1>16, <2>1 DEF Times
    <2>4. Leaving(line') = Leaving(line) /\ Back(line') = Back(line) BY <1>10, <1>16
    <2>5. Registered' BY <1>6, <1>10, <1>16, <2>1, <2>4 DEF Inv, Registered
    <2>6. Rows' BY <1>6, <2>1, <2>4, RowsStay DEF Inv
    <2> QED BY <1>11, <2>2, <2>3, <2>5, <2>6 DEF Inv
  <1> QED BY <1>8, <1>13, <1>14, <1>15, <1>16

\* The head of the line is answered.
LEMMA LineAnsweredStep ==
  ASSUME Inv, LineAnswered
  PROVE  Inv'
  <1> DEFINE s == line[1]
             rest == Tail(line)
             free == [ns EXCEPT !.subscribing = FALSE]
             beaten == [ns EXCEPT !.beating = FALSE]
             lost == [beaten EXCEPT !.number = 0, !.seen = 0]
  <1>1. /\ line \in Seq(LineStatement) /\ InOrder(line) /\ line # <<>> /\ ns \in Subscriber
        /\ db \in Database
    BY DEF Inv, Types, Attends, LineAnswered
  <1>2. Head(line) = s /\ s \in LineStatement BY <1>1, DropIs
  <1>3. s.ran BY <1>2 DEF LineAnswered
  <1>4. UNCHANGED <<asked, work, db, now, undone, missed>> BY DEF LineAnswered
  <1>5. \/ /\ s.kind = "subscribe"
           /\ ns' = OnSubscribed([free EXCEPT !.seen = s.at], s.out)
           /\ line' = OnSubscribedLine(free, s.out, rest)
           /\ gapped' = (now - s.at >= Alive)
        \/ /\ s.kind = "heartbeat" /\ (s.n # ns.number \/ ns.stopped)
           /\ ns' = beaten /\ line' = rest /\ UNCHANGED gapped
        \/ /\ s.kind = "heartbeat" /\ s.n = ns.number /\ ~ns.stopped /\ s.out = 0
           /\ ns' = Subscribing(lost) /\ line' = SubscribeLine(lost, rest)
           /\ gapped' = FALSE
        \/ /\ s.kind = "heartbeat" /\ s.n = ns.number /\ ~ns.stopped /\ s.out # 0
           /\ ns' = [beaten EXCEPT !.seen = s.at] /\ line' = rest
           /\ gapped' = (now - s.at >= Alive \/ (gapped /\ ~Lapses(ns, s.at)))
        \/ /\ s.kind \in {"drain", "stop"}
           /\ ns' = ns /\ line' = rest /\ UNCHANGED gapped
    BY <1>2 DEF LineAnswered
  <1>6. s.at \in Nat /\ s.out \in Nat /\ s.n \in Nat BY <1>2 DEF LineStatement
  <1>7. /\ rest \in Seq(LineStatement) /\ InOrder(rest) /\ ~HeadRan(rest)
        /\ \A kind : Holds(line, kind) <=> Holds(rest, kind) \/ s.kind = kind
        /\ s.kind = "subscribe" => ~Holds(rest, "subscribe")
        /\ Leaving(rest) = Leaving(line) /\ Back(rest) = Back(line)
    BY <1>1, <1>3, DropIs
  <1>8. HeadRan(line) BY <1>1, <1>3 DEF HeadRan
  <1>9. Attends /\ Times /\ Registered BY DEF Inv
  <1>10. /\ s.kind = "subscribe" =>
              ns.subscribing /\ s.out # 0 /\ ns.number = 0 /\ ~ns.retry /\ ns.started
         /\ s.kind = "heartbeat" => s.n # 0
         /\ s.kind = "heartbeat" /\ s.out = 0 => s.n \notin db.reg
         /\ s.kind = "subscribe" \/ (s.kind = "heartbeat" /\ s.out # 0) =>
              1 <= s.at /\ s.at <= db.seen
    <2>1. 1 \in DOMAIN line BY <1>1, EmptySeq, HeadTailProperties
    <2>2. s.kind = "heartbeat" => s.n # 0 BY <1>9, <2>1 DEF Attends, InOrder
    <2>3. s.kind = "subscribe" =>
            ns.subscribing /\ s.out # 0 /\ ns.number = 0 /\ ~ns.retry /\ ns.started
      BY <1>7, <1>8, <1>9 DEF Attends
    <2> QED BY <1>8, <1>9, <2>2, <2>3 DEF Times, Registered
  <1>11. /\ now \in Nat /\ ns.seen \in Nat /\ db.seen \in Nat /\ ns.seen <= db.seen
         /\ db.seen <= now /\ 1 <= now /\ gapped \in BOOLEAN
    BY <1>9 DEF Inv, Types, Subscriber, Database, Times
  <1>12. 0 \notin db.reg BY <1>1 DEF Database
  <1>13. ASSUME ns' \in Subscriber, line' \in Seq(LineStatement), gapped' \in BOOLEAN PROVE Types'
    BY <1>4, <1>13 DEF Inv, Types
  <1>14. ASSUME ns'.taken = ns.taken, Back(line') = Back(line) PROVE Rows'
    BY <1>4, <1>14, RowsStay DEF Inv
  <1>15. CASE s.kind = "subscribe" /\ ns.stopped
    <2> DEFINE x == [[free EXCEPT !.seen = s.at] EXCEPT !.number = s.out]
               y == [free EXCEPT !.number = s.out]
               q == Statement("stop", s.out, Held(y))
    <2>1. /\ x \in Subscriber /\ x.seen = s.at /\ x.stopped /\ x.number = s.out
          /\ x.started = ns.started /\ x.subscribing = FALSE /\ x.beating = ns.beating
      BY <1>1, <1>6, <1>15 DEF Subscriber
    <2>2. /\ y \in Subscriber /\ y.number = s.out /\ y.taken = ns.taken
      BY <1>1, <1>6 DEF Subscriber
    <2>3. ns' = Stopping(x) /\ line' = StopLine(y, rest) /\ gapped' = (now - s.at >= Alive)
      <3>1. free.stopped /\ [free EXCEPT !.seen = s.at].stopped BY <1>1, <1>15 DEF Subscriber
      <3> QED BY <1>5, <1>15, <3>1 DEF OnSubscribed, OnSubscribedLine
    <2> HIDE DEF x, y
    <2>4. line' = Append(rest, q)
      BY <1>10, <1>15, <2>2, <2>3 DEF StopLine, StopSpeaks, OnLine
    <2>5. Held(y) = {}
      <3>1. \A r \in Row : y.taken[r] = 0 BY <1>9, <1>15, <2>2 DEF Attends
      <3> QED BY <2>2, <3>1, HeldIs
    <2>6. q \in LineStatement /\ ~q.ran /\ q.kind = "stop" /\ q.n = s.out /\ q.rows = {}
      BY <1>6, <2>5, StatementIs
    <2> HIDE DEF q
    <2>7. /\ line' \in Seq(LineStatement) /\ InOrder(line') /\ ~HeadRan(line')
          /\ \A kind : Holds(line', kind) <=> Holds(rest, kind) \/ kind = "stop"
          /\ Leaving(line') = Leaving(line) \cup {s.out} /\ Back(line') = Back(line)
      <3>1. /\ line' \in Seq(LineStatement) /\ InOrder(line') /\ (HeadRan(line') <=> HeadRan(rest))
            /\ \A kind : Holds(line', kind) <=> Holds(rest, kind) \/ q.kind = kind
            /\ Leaving(line') = Leaving(rest) \cup (IF q.kind = "stop" THEN {q.n} ELSE {})
            /\ Back(line') = Back(rest) \cup (IF q.kind = "stop" THEN q.rows ELSE {})
        BY <1>7, <2>4, <2>6, JoinIs
      <3> QED BY <1>7, <2>6, <3>1
    <2>8. /\ ns' \in Subscriber /\ ns'.number = 0 /\ ns'.seen = s.at /\ ns'.stopped /\ ns'.draining
          /\ \A r \in Row : ns'.taken[r] = 0
          /\ ns'.started = ns.started /\ ~ns'.subscribing /\ ns'.beating = ns.beating /\ ~ns'.retry
      BY <2>1, <2>3, StoppingIs
    <2>9. Types' BY <1>13, <2>3, <2>7, <2>8
    <2>10. Attends' BY <1>7, <1>9, <1>10, <1>15, <2>7, <2>8 DEF Attends
    <2>11. Times' BY <1>4, <1>6, <1>10, <1>11, <1>15, <2>7, <2>8 DEF Times
    <2>12. Registered'
      BY <1>4, <1>8, <1>9, <1>10, <1>12, <1>15, <2>7, <2>8 DEF Registered
    <2>13. Rows'
      <3>1. \A r \in Row : ns'.taken[r] = ns.taken[r] BY <1>9, <1>15, <2>8 DEF Attends
      <3>2. ns'.taken = ns.taken BY <1>1, <2>8, <3>1 DEF Subscriber
      <3> QED BY <1>14, <2>7, <3>2
    <2> QED BY <2>9, <2>10, <2>11, <2>12, <2>13 DEF Inv
  <1>16. CASE s.kind = "subscribe" /\ ~ns.stopped
    <2> DEFINE x == [[free EXCEPT !.seen = s.at] EXCEPT !.number = s.out, !.listening = s.out]
               u == ArmHeartbeat(x)
               q == Statement("drain", s.out, {})
    <2>1. /\ x \in Subscriber /\ x.seen = s.at /\ ~x.stopped /\ x.number = s.out
          /\ x.started = ns.started /\ x.subscribing = FALSE /\ x.beating = ns.beating
          /\ x.draining = ns.draining /\ x.retry = ns.retry /\ x.taken = ns.taken
      BY <1>1, <1>6, <1>16 DEF Subscriber
    <2>2. ~free.stopped /\ ~[free EXCEPT !.seen = s.at].stopped /\ free.draining = ns.draining
      BY <1>1, <1>16 DEF Subscriber
    <2>3. ns' = IF ns.draining THEN u ELSE ArmSweep(u)
      <3>1. u.draining = x.draining BY <2>1, ArmsAre DEF Settled
      <3>2. [free EXCEPT !.seen = s.at].draining = ns.draining BY <1>1 DEF Subscriber
      <3> QED BY <1>5, <1>16, <2>1, <2>2, <3>1, <3>2 DEF OnSubscribed
    <2>4. line' = (IF ns.draining THEN Append(rest, q) ELSE rest) /\ gapped' = (now - s.at >= Alive)
      BY <1>5, <1>16, <2>2 DEF OnSubscribedLine, OnLine
    <2> HIDE DEF x
    <2>5. /\ u \in Subscriber /\ Settled(x, u) /\ u.beat /\ ~u.subscribing
          /\ u.beating = ns.beating /\ u.retry = ns.retry
      BY <2>1, ArmsAre
    <2> HIDE DEF u
    <2>6. /\ ns' \in Subscriber /\ Settled(x, ns') /\ ns'.beat /\ ~ns'.subscribing
          /\ ns'.beating = ns.beating /\ ns'.retry = ns.retry
          /\ ~ns.draining => ns'.sweep
      <3>1. ~u.stopped /\ u.draining = ns.draining BY <2>1, <2>5 DEF Settled
      <3> QED BY <2>3, <2>5, <3>1, ArmsAre DEF Settled
    <2>7. q \in LineStatement /\ ~q.ran /\ q.kind = "drain" BY <1>6, StatementIs
    <2> HIDE DEF q
    <2>8. /\ line' \in Seq(LineStatement) /\ InOrder(line') /\ ~HeadRan(line')
          /\ \A kind \in {"subscribe", "heartbeat"} : Holds(line', kind) <=> Holds(rest, kind)
          /\ Leaving(line') = Leaving(line) /\ Back(line') = Back(line)
      <3>1. CASE ns.draining
        <4>1. line' = Append(rest, q) BY <2>4, <3>1
        <4>2. /\ line' \in Seq(LineStatement) /\ InOrder(line') /\ (HeadRan(line') <=> HeadRan(rest))
              /\ \A kind : Holds(line', kind) <=> Holds(rest, kind) \/ q.kind = kind
              /\ Leaving(line') = Leaving(rest) /\ Back(line') = Back(rest)
          BY ZenonT(60), <1>7, <2>7, <4>1, JoinIs
        <4> QED BY <1>7, <2>7, <4>2
      <3>2. CASE ~ns.draining BY <1>7, <2>4, <3>2
      <3> QED BY <3>1, <3>2
    <2>9. /\ ns'.seen = s.at /\ ~ns'.stopped /\ ns'.number = s.out /\ ns'.started = ns.started
          /\ ns'.draining = ns.draining /\ ns'.taken = ns.taken
      BY <2>1, <2>6 DEF Settled
    <2>10. Types' BY <1>13, <2>4, <2>6, <2>8
    <2>11. Attends' BY <1>7, <1>9, <1>10, <1>16, <2>6, <2>8, <2>9 DEF Attends
    <2>12. Times' BY <1>4, <1>6, <1>10, <1>11, <1>16, <2>4, <2>8, <2>9 DEF Times
    <2>13. Registered' BY <1>4, <1>8, <1>9, <1>10, <1>12, <1>16, <2>8, <2>9 DEF Registered
    <2>14. Rows' BY <1>14, <2>8, <2>9
    <2> QED BY <2>10, <2>11, <2>12, <2>13, <2>14 DEF Inv
  <1>17. CASE s.kind = "heartbeat" /\ (s.n # ns.number \/ ns.stopped)
    <2>1. ns' = beaten /\ line' = rest /\ UNCHANGED gapped BY <1>5, <1>10, <1>17
    <2>2. ns' \in Subscriber /\ Settled(ns, ns') /\ ~ns'.beating
          /\ ns'.subscribing = ns.subscribing /\ ns'.beat = ns.beat /\ ns'.sweep = ns.sweep
          /\ ns'.retry = ns.retry
      BY <1>1, <2>1 DEF Subscriber, Settled
    <2>3. Types' BY <1>7, <1>11, <1>13, <2>1, <2>2
    <2>4. Attends' BY <1>7, <1>9, <1>17, <2>1, <2>2 DEF Attends, Settled
    <2>5. Times' BY <1>4, <1>7, <1>9, <2>1, <2>2 DEF Times, Settled
    <2>6. Registered' BY <1>4, <1>7, <1>9, <1>17, <2>1, <2>2 DEF Registered, Settled
    <2>7. Rows' BY <1>7, <1>14, <2>1, <2>2 DEF Settled
    <2> QED BY <2>3, <2>4, <2>5, <2>6, <2>7 DEF Inv
  <1>18. CASE s.kind = "heartbeat" /\ s.n = ns.number /\ ~ns.stopped /\ s.out = 0
    <2> DEFINE q == Statement("subscribe", 0, {})
    <2>1. ns' = Subscribing(lost) /\ line' = SubscribeLine(lost, rest) /\ gapped' = FALSE
      BY <1>5, <1>18
    <2>2. /\ lost \in Subscriber /\ lost.number = 0 /\ lost.seen = 0 /\ ~lost.beating
          /\ lost.taken = ns.taken /\ lost.started = ns.started /\ lost.draining = ns.draining
          /\ lost.stopped = ns.stopped /\ lost.subscribing = ns.subscribing
          /\ lost.retry = ns.retry
      BY <1>1 DEF Subscriber
    <2> HIDE DEF lost
    <2>3. ns.number # 0 /\ ~ns.subscribing /\ ~ns.retry /\ ns.started
      BY <1>9, <1>10, <1>18 DEF Attends
    <2>4. MaySubscribe(lost) <=> ~ns.draining BY <1>18, <2>2, <2>3 DEF MaySubscribe
    <2>5. /\ ns' \in Subscriber /\ Settled(lost, ns') /\ (ns'.subscribing <=> ~ns.draining)
          /\ ~ns'.beating /\ ~ns'.retry
      BY <2>1, <2>2, <2>3, <2>4, SubscribingIs
    <2>6. q \in LineStatement /\ ~q.ran /\ q.kind = "subscribe" BY StatementIs
    <2>7. line' = IF ns.draining THEN rest ELSE Append(rest, q)
      BY <2>1, <2>4 DEF SubscribeLine, OnLine
    <2> HIDE DEF q
    <2>8. ~Holds(rest, "subscribe") BY <1>7, <1>9, <1>18, <2>3 DEF Attends
    <2>9. /\ line' \in Seq(LineStatement) /\ InOrder(line') /\ ~HeadRan(line')
          /\ Holds(line', "subscribe") <=> ~ns.draining
          /\ Leaving(line') = Leaving(line) /\ Back(line') = Back(line)
      <3>1. CASE ns.draining BY <1>7, <2>7, <2>8, <3>1
      <3>2. CASE ~ns.draining BY ZenonT(60), <1>7, <2>6, <2>7, <2>8, <3>2, JoinIs
      <3> QED BY <3>1, <3>2
    <2>10. /\ ns'.number = 0 /\ ns'.seen = 0 /\ ~ns'.stopped /\ ns'.started
           /\ ns'.draining = ns.draining /\ ns'.taken = ns.taken
      BY <1>18, <2>2, <2>3, <2>5 DEF Settled
    <2>11. Types' BY <1>13, <2>1, <2>5, <2>9
    <2>12. Attends' BY <2>5, <2>9, <2>10 DEF Attends
    <2>13. Times' BY <1>4, <1>11, <2>1, <2>9, <2>10 DEF Times
    <2>14. Registered' BY <1>4, <1>8, <1>9, <1>10, <1>18, <2>9 DEF Registered
    <2>15. Rows' BY <1>14, <2>9, <2>10
    <2> QED BY <2>11, <2>12, <2>13, <2>14, <2>15 DEF Inv
  <1>19. CASE s.kind = "heartbeat" /\ s.n = ns.number /\ ~ns.stopped /\ s.out # 0
    <2>1. /\ ns' = [beaten EXCEPT !.seen = s.at] /\ line' = rest
          /\ gapped' = (now - s.at >= Alive \/ (gapped /\ ~Lapses(ns, s.at)))
      BY <1>5, <1>19
    <2>2. /\ ns' \in Subscriber /\ ns'.number = ns.number /\ ns'.seen = s.at
          /\ ns'.taken = ns.taken /\ ns'.started = ns.started /\ ns'.draining = ns.draining
          /\ ns'.stopped = ns.stopped /\ ~ns'.beating
          /\ ns'.subscribing = ns.subscribing /\ ns'.beat = ns.beat /\ ns'.sweep = ns.sweep
          /\ ns'.retry = ns.retry
      BY <1>1, <1>6, <2>1 DEF Subscriber
    <2>3. ns.number # 0 BY <1>10, <1>19
    <2>4. Types' BY <1>7, <1>13, <2>1, <2>2
    <2>5. Attends' BY <1>7, <1>9, <1>19, <2>1, <2>2 DEF Attends
    <2>6. gapped' /\ ~ns.draining => now - s.at >= Alive
      <3> SUFFICES ASSUME gapped, ~Lapses(ns, s.at), ~ns.draining PROVE now - s.at >= Alive
        BY <2>1
      <3>1. s.at - ns.seen >= Alive \/ now - s.at >= Alive BY <1>8, <1>9, <1>19, <2>3 DEF Times
      <3>2. ns.seen > 0 BY <1>9, <1>11, <2>3 DEF Times
      <3> QED BY <3>1, <3>2 DEF Lapses
    <2>7. Times' BY <1>4, <1>7, <1>10, <1>11, <1>19, <2>1, <2>2, <2>6 DEF Times
    <2>8. Registered' BY <1>4, <1>7, <1>8, <1>9, <1>19, <2>1, <2>2 DEF Registered
    <2>9. Rows' BY <1>7, <1>14, <2>1, <2>2
    <2> QED BY <2>4, <2>5, <2>7, <2>8, <2>9 DEF Inv
  <1>20. CASE s.kind \in {"drain", "stop"}
    <2>1. ns' = ns /\ line' = rest /\ UNCHANGED gapped BY <1>5, <1>20
    <2>2. Types' BY <1>1, <1>7, <1>11, <1>13, <2>1
    <2>3. Attends' BY <1>7, <1>9, <1>20, <2>1 DEF Attends
    <2>4. Times' BY <1>4, <1>7, <1>9, <2>1 DEF Times
    <2>5. Registered' BY <1>4, <1>7, <1>8, <1>9, <1>20, <2>1 DEF Registered
    <2>6. Rows' BY <1>7, <1>14, <2>1
    <2> QED BY <2>2, <2>3, <2>4, <2>5, <2>6 DEF Inv
  <1> QED BY <1>5, <1>15, <1>16, <1>17, <1>18, <1>19, <1>20

\* The head of the line is lost with the listener.
LEMMA LineFailsStep ==
  ASSUME Inv, LineFails
  PROVE  Inv'
  <1> DEFINE s == line[1]
             rest == Tail(line)
             free == [ns EXCEPT !.subscribing = FALSE]
  <1>1. /\ line \in Seq(LineStatement) /\ InOrder(line) /\ line # <<>> /\ ns \in Subscriber
        /\ missed \in Nat
    BY DEF Inv, Types, Attends, LineFails
  <1>2. Head(line) = s /\ s \in LineStatement BY <1>1, DropIs
  <1>3. /\ UNCHANGED <<asked, work, db, now, gapped, undone>> /\ line' = rest
        /\ missed' \in Nat /\ missed' # 0
    BY <1>1 DEF LineFails
  <1>4. ns' = CASE s.kind = "subscribe" -> ArmRetry(free)
                [] s.kind = "heartbeat" -> [ns EXCEPT !.beating = FALSE]
                [] OTHER                -> ns
    BY <1>2 DEF LineFails
  <1>5. /\ rest \in Seq(LineStatement) /\ InOrder(rest) /\ ~HeadRan(rest)
        /\ \A kind : Holds(line, kind) <=> Holds(rest, kind) \/ s.kind = kind
        /\ s.kind = "subscribe" => ~Holds(rest, "subscribe")
    BY <1>1, DropIs
  <1>6. Attends /\ Times BY DEF Inv
  <1>7. /\ ns' \in Subscriber /\ Settled(ns, ns') /\ Attends'
    <2>1. CASE s.kind = "subscribe"
      <3>1. free \in Subscriber /\ Settled(ns, free) /\ ~free.subscribing
            /\ free.beating = ns.beating
        BY <1>1 DEF Subscriber, Settled
      <3>2. ns' = ArmRetry(free) BY <1>4, <2>1
      <3> HIDE DEF free
      <3>3. /\ ns' \in Subscriber /\ Settled(ns, ns')
            /\ ns'.retry <=> ~ns.draining /\ ~ns.stopped
            /\ ~ns'.subscribing /\ ns'.beating = ns.beating
        BY <3>1, <3>2, ArmsAre DEF Settled
      <3>4. ns.subscribing /\ ns.number = 0 /\ ns.started BY <1>5, <1>6, <2>1 DEF Attends
      <3> QED BY <1>3, <1>5, <1>6, <2>1, <3>3, <3>4 DEF Attends, Settled
    <2>2. CASE s.kind = "heartbeat"
      <3>1. ns' = [ns EXCEPT !.beating = FALSE] BY <1>4, <2>2
      <3>2. /\ ns' \in Subscriber /\ Settled(ns, ns') /\ ~ns'.beating
            /\ ns'.subscribing = ns.subscribing /\ ns'.beat = ns.beat /\ ns'.sweep = ns.sweep
            /\ ns'.retry = ns.retry
        BY <1>1, <3>1 DEF Subscriber, Settled
      <3> QED BY <1>3, <1>5, <1>6, <2>2, <3>2 DEF Attends, Settled
    <2>3. CASE s.kind \notin {"subscribe", "heartbeat"}
      <3>1. ns' = ns BY <1>4, <2>3
      <3> QED BY <1>1, <1>3, <1>5, <1>6, <2>3, <3>1 DEF Attends, Settled
    <2> QED BY <2>1, <2>2, <2>3
  <1>8. Types' BY <1>3, <1>5, <1>7 DEF Inv, Types
  <1>9. Times' BY <1>3, <1>5, <1>6, <1>7 DEF Times, Settled
  <1>10. Registered' BY <1>3, <1>5 DEF Registered
  <1>11. Rows' BY <1>3 DEF Rows
  <1> QED BY <1>7, <1>8, <1>9, <1>10, <1>11 DEF Inv

LEMMA AskRanIs ==
  ASSUME NEW q, IsAsk(q), NEW out \in Nat
  PROVE  LET p == [q EXCEPT !.ran = TRUE, !.out = out] IN
         IsAsk(p) /\ p.kind = q.kind /\ p.row = q.row /\ p.token = q.token /\ p.ran /\ p.out = out
  BY DEF IsAsk

LEMMA RowTakenIs ==
  ASSUME NEW d \in [held : BOOLEAN, token : Nat, closed : BOOLEAN], NEW t \in Nat
  PROVE  LET x == [d EXCEPT !.held = TRUE, !.token = t] IN
         x \in [held : BOOLEAN, token : Nat, closed : BOOLEAN] /\ x.held /\ x.token = t
  OBVIOUS

LEMMA BackType ==
  ASSUME NEW q \in Seq(LineStatement)
  PROVE  Back(q) \subseteq Row \X Nat
  <1>1. \A i \in DOMAIN q : q[i] \in LineStatement BY ElementOfSeq, LenProperties
  <1>2. \A i \in DOMAIN q : q[i].rows \subseteq Row \X Nat BY <1>1 DEF LineStatement
  <1> QED BY <1>2 DEF Back, Stops

\* A row is taken.
LEMMA TakenRuns ==
  ASSUME Inv, NEW q \in asked, ~q.ran, q.kind = "take", ~db.row[q.row].held,
         db' = [db EXCEPT !.row[q.row] =
                  [db.row[q.row] EXCEPT !.held = TRUE, !.token = db.row[q.row].token + 1]],
         asked' = (asked \ {q}) \cup {[q EXCEPT !.ran = TRUE, !.out = db.row[q.row].token + 1]},
         UNCHANGED <<ns, line, work, now, gapped, undone, missed>>
  PROVE  Inv'
  <1> DEFINE r == q.row
             d == db.row[r]
             t == d.token + 1
             x == [d EXCEPT !.held = TRUE, !.token = t]
             p == [q EXCEPT !.ran = TRUE, !.out = t]
             e == [db EXCEPT !.row[r] = x]
  <1>1. IsAsk(q) /\ r \in Row /\ db \in Database BY DEF Inv, Types, IsAsk
  <1>2. d \in [held : BOOLEAN, token : Nat, closed : BOOLEAN] BY <1>1 DEF Database
  <1>3. t \in Nat /\ t # 0 /\ t = d.token + 1 BY <1>2
  <1>4. db' = e /\ asked' = (asked \ {q}) \cup {p} OBVIOUS
  <1> HIDE DEF t
  <1>5. /\ x \in [held : BOOLEAN, token : Nat, closed : BOOLEAN]
        /\ x.held /\ x.token = t
    BY <1>2, <1>3, RowTakenIs
  <1>6. IsAsk(p) /\ p.kind = "take" /\ p.row = r /\ p.ran /\ p.out = t
    BY <1>1, <1>3, AskRanIs
  <1>7. d.token \in Nat BY <1>2
  <1>8. ~db.row[r].held OBVIOUS
  <1> HIDE DEF x, p
  <1>9. /\ db' \in Database /\ db'.given = db.given /\ db'.reg = db.reg /\ db'.seen = db.seen
        /\ db'.row[r] = x /\ \A o \in Row : o # r => db'.row[o] = db.row[o]
    <2>1. /\ e \in Database /\ e.given = db.given /\ e.reg = db.reg /\ e.seen = db.seen
          /\ e.row[r] = x /\ \A o \in Row : o # r => e.row[o] = db.row[o]
      BY <1>1, <1>5, RowIs
    <2> HIDE DEF e
    <2> QED BY <1>4, <2>1
  <1>10. Types' BY <1>6, <1>4, <1>9 DEF Inv, Types
  <1>11. Rows'
    <2> SUFFICES ASSUME missed = 0 PROVE Rows' BY DEF Rows
    <2>1. \A o \in Row : Leased(o) BY DEF Inv, Rows
    <2>2. /\ Claims(p, r) /\ TokenOf(p) = t
          /\ \A o \in Row : o # r => ~Claims(p, o)
          /\ \A o \in Row : ~Claims(q, o)
      BY <1>6, <1>3 DEF Claims, TokenOf
    <2>3. \A a : a \in asked' <=> (a \in asked /\ a # q) \/ a = p BY <1>4
    <2>4. Leased(r)'
      <3>1. ns.taken[r] = 0 /\ \A a \in asked : ~Claims(a, r) BY <1>1, <1>8, <2>1 DEF Leased
      <3>2. \A w \in Back(line) : w[1] = r => w[2] <= d.token BY <1>1, <2>1 DEF Leased
      <3>3. <<r, t>> \notin Back(line) BY <1>7, <1>3, <3>2
      <3>4. \A w \in Back(line) : w[1] = r => w[2] <= t
        <4>1. Back(line) \subseteq Row \X Nat BY BackType DEF Inv, Types
        <4> QED BY <1>7, <1>3, <3>2, <4>1
      <3> QED BY <1>5, <1>9, <2>2, <2>3, <3>1, <3>3, <3>4 DEF Leased
    <2>5. ASSUME NEW o \in Row, o # r PROVE Leased(o)'
      <3>1. Leased(o) BY <2>1
      <3>2. \A a : a \in asked' /\ Claims(a, o) <=> a \in asked /\ Claims(a, o)
        BY <2>2, <2>3, <2>5
      <3> QED BY <1>9, <2>5, <3>1, <3>2 DEF Leased
    <2>6. \A a \in asked' : a.kind = "ack" /\ a.ran => a.out = 1
      BY <1>6, <2>3 DEF Inv, Rows
    <2> QED BY <2>4, <2>5, <2>6 DEF Inv, Rows
  <1>12. Same(ns, ns') BY DEF Same
  <1> QED BY <1>9, <1>10, <1>11, <1>12, RowStep DEF Inv, Attends

\* A row is given back, or found not to be the statement's any more.
LEMMA GivenRuns ==
  ASSUME Inv, NEW q \in asked, ~q.ran, q.kind \in {"ack", "nack"},
         NEW current \in BOOLEAN,
         current <=> db.row[q.row].held /\ db.row[q.row].token = q.token,
         db' = [db EXCEPT !.row[q.row] =
                  IF current THEN [db.row[q.row] EXCEPT !.held = FALSE, !.closed = (q.kind = "ack")]
                  ELSE db.row[q.row]],
         asked' = (asked \ {q}) \cup {[q EXCEPT !.ran = TRUE, !.out = IF current THEN 1 ELSE 0]},
         UNCHANGED <<ns, line, work, now, gapped, undone, missed>>
  PROVE  Inv'
  <1> DEFINE r == q.row
             d == db.row[r]
             x == IF current THEN [d EXCEPT !.held = FALSE, !.closed = (q.kind = "ack")] ELSE d
             p == [q EXCEPT !.ran = TRUE, !.out = IF current THEN 1 ELSE 0]
             e == [db EXCEPT !.row[r] = x]
  <1>1. IsAsk(q) /\ r \in Row /\ db \in Database BY DEF Inv, Types, IsAsk
  <1>2. d \in [held : BOOLEAN, token : Nat, closed : BOOLEAN] BY <1>1 DEF Database
  <1>3. /\ x \in [held : BOOLEAN, token : Nat, closed : BOOLEAN]
        /\ x.token = d.token /\ (current => ~x.held)
    BY <1>2
  <1>4. IsAsk(p) /\ p.kind = q.kind /\ p.row = r /\ p.ran /\ p.out = IF current THEN 1 ELSE 0
    BY <1>1 DEF IsAsk
  <1>5. db' = e /\ asked' = (asked \ {q}) \cup {p} OBVIOUS
  <1>6. current <=> d.held /\ d.token = q.token OBVIOUS
  <1> HIDE DEF x, p
  <1>7. /\ db' \in Database /\ db'.given = db.given /\ db'.reg = db.reg /\ db'.seen = db.seen
        /\ db'.row[r] = x /\ \A o \in Row : o # r => db'.row[o] = db.row[o]
    <2>1. /\ e \in Database /\ e.given = db.given /\ e.reg = db.reg /\ e.seen = db.seen
          /\ e.row[r] = x /\ \A o \in Row : o # r => e.row[o] = db.row[o]
      BY <1>1, <1>3, RowIs
    <2> HIDE DEF e
    <2> QED BY <1>5, <2>1
  <1>8. Types' BY <1>4, <1>5, <1>7 DEF Inv, Types
  <1>9. Rows'
    <2> SUFFICES ASSUME missed = 0 PROVE Rows' BY DEF Rows
    <2>1. \A o \in Row : Leased(o) BY DEF Inv, Rows
    <2>2. /\ Claims(q, r) /\ TokenOf(q) = q.token
          /\ \A o \in Row : o # r => ~Claims(q, o)
          /\ \A o \in Row : ~Claims(p, o)
      BY <1>4 DEF Claims, TokenOf
    <2>3. \A a : a \in asked' <=> (a \in asked /\ a # q) \/ a = p BY <1>5
    <2>4. current BY <1>1, <1>6, <2>1, <2>2 DEF Leased
    <2>5. Leased(r)'
      <3>1. /\ ns.taken[r] = 0
            /\ \A a \in asked : Claims(a, r) => a = q
            /\ \A w \in Back(line) : w[1] = r => w[2] <= d.token
        BY <1>1, <2>1, <2>2 DEF Leased
      <3>2. ~db'.row[r].held /\ db'.row[r].token = d.token BY <1>3, <1>7, <2>4
      <3> QED BY <1>1, <2>2, <2>3, <3>1, <3>2 DEF Leased
    <2>6. ASSUME NEW o \in Row, o # r PROVE Leased(o)'
      <3>1. Leased(o) BY <2>1
      <3>2. \A a : a \in asked' /\ Claims(a, o) <=> a \in asked /\ Claims(a, o)
        BY <2>2, <2>3, <2>6
      <3> QED BY <1>7, <2>6, <3>1, <3>2 DEF Leased
    <2>7. \A a \in asked' : a.kind = "ack" /\ a.ran => a.out = 1
      BY <1>4, <2>3, <2>4 DEF Inv, Rows
    <2> QED BY <2>5, <2>6, <2>7 DEF Inv, Rows
  <1>10. Same(ns, ns') BY DEF Same
  <1> QED BY <1>7, <1>8, <1>9, <1>10, RowStep DEF Inv, Attends

LEMMA AskedRunsStep ==
  ASSUME Inv, NEW q \in asked, AskedRuns(q)
  PROVE  Inv'
  <1> DEFINE d == db.row[q.row]
             current == d.held /\ d.token = q.token
  <1>1. IsAsk(q) /\ db \in Database /\ ~q.ran BY DEF Inv, Types, AskedRuns
  <1>2. UNCHANGED <<ns, line, work, now, gapped, undone, missed>> BY DEF AskedRuns
  \* What changes no row.
  <1>3. ASSUME NEW out \in Nat, q.kind \in {"take", "sweep"}, q.kind = "take" => out = 0,
               db'.row = db.row, db' \in Database, db'.given = db.given, db'.reg = db.reg,
               db'.seen = db.seen, asked' = (asked \ {q}) \cup {[q EXCEPT !.ran = TRUE, !.out = out]}
        PROVE  Inv'
    <2> DEFINE p == [q EXCEPT !.ran = TRUE, !.out = out]
    <2>1. IsAsk(p) /\ p.kind = q.kind /\ p.out = out BY <1>1, AskRanIs
    <2>2. asked' = (asked \ {q}) \cup {p} BY <1>3
    <2> HIDE DEF p
    <2>3. /\ \A r \in Row : ~Claims(q, r) /\ ~Claims(p, r)
          /\ ~(p.kind = "ack" /\ p.ran)
      BY <1>1, <1>3, <2>1 DEF Claims
    <2>4. Types' BY <1>2, <1>3, <2>1, <2>2 DEF Inv, Types
    <2>5. Rows' BY <1>2, <1>3, <2>2, <2>3, RowsStay DEF Inv
    <2>6. Same(ns, ns') BY <1>2 DEF Same
    <2> QED BY <1>2, <1>3, <2>4, <2>5, <2>6, RowStep DEF Inv, Attends
  <1>4. CASE q.kind = "take"
    <2>1. q.row \in Row BY <1>1, <1>4 DEF IsAsk
    <2>2. d \in [held : BOOLEAN, token : Nat, closed : BOOLEAN] BY <1>1, <2>1 DEF Database
    <2>3. \/ /\ ~d.held
             /\ db' = [db EXCEPT !.row[q.row] = [d EXCEPT !.held = TRUE, !.token = d.token + 1]]
             /\ asked' = (asked \ {q}) \cup {[q EXCEPT !.ran = TRUE, !.out = d.token + 1]}
          \/ /\ db' = [db EXCEPT !.row[q.row] = d]
             /\ asked' = (asked \ {q}) \cup {[q EXCEPT !.ran = TRUE, !.out = 0]}
      BY <1>4 DEF AskedRuns
    <2>4. CASE /\ ~d.held
               /\ db' = [db EXCEPT !.row[q.row] = [d EXCEPT !.held = TRUE, !.token = d.token + 1]]
               /\ asked' = (asked \ {q}) \cup {[q EXCEPT !.ran = TRUE, !.out = d.token + 1]}
      BY <1>1, <1>2, <1>4, <2>4, TakenRuns
    <2>5. CASE /\ db' = [db EXCEPT !.row[q.row] = d]
               /\ asked' = (asked \ {q}) \cup {[q EXCEPT !.ran = TRUE, !.out = 0]}
      <3>1. db' = db BY <1>1, <2>5 DEF Database
      <3> QED BY <1>1, <1>3, <1>4, <2>5, <3>1
    <2> QED BY <2>3, <2>4, <2>5
  <1>5. CASE q.kind \in {"ack", "nack"}
    <2>1. q.row \in Row BY <1>1, <1>5 DEF IsAsk
    <2>2. /\ db' = [db EXCEPT !.row[q.row] =
                      IF current THEN [d EXCEPT !.held = FALSE, !.closed = (q.kind = "ack")] ELSE d]
          /\ asked' = (asked \ {q}) \cup {[q EXCEPT !.ran = TRUE, !.out = IF current THEN 1 ELSE 0]}
      BY <1>5 DEF AskedRuns
    <2>3. current \in BOOLEAN OBVIOUS
    <2> QED BY <1>1, <1>2, <1>5, <2>2, <2>3, GivenRuns
  <1>6. CASE q.kind = "sweep"
    <2>1. db' = db /\ asked' = (asked \ {q}) \cup {[q EXCEPT !.ran = TRUE, !.out = 1]}
      BY <1>6 DEF AskedRuns
    <2> QED BY <1>1, <1>3, <1>6, <2>1
  <1> QED BY <1>1, <1>4, <1>5, <1>6 DEF IsAsk

\* take's answer: the row goes to the module, or straight back.
LEMMA TakenStep ==
  ASSUME Inv, NEW q \in asked, q.ran, q.kind = "take", q.out # 0, Taken(q),
         UNCHANGED <<line, db, now, gapped, undone, missed>>
  PROVE  Inv'
  <1> DEFINE r == q.row
             t == q.out
             kept == IF ns.taken[r] = 0 THEN [ns EXCEPT !.taken[r] = t] ELSE ns
  <1>1. IsAsk(q) /\ r \in Row /\ ns \in Subscriber /\ t \in Nat BY DEF Inv, Types, IsAsk
  <1>2. /\ kept \in Subscriber /\ Same(ns, kept)
        /\ kept.taken[r] = IF ns.taken[r] = 0 THEN t ELSE ns.taken[r]
        /\ \A o \in Row : o # r => kept.taken[o] = ns.taken[o]
    BY <1>1 DEF Subscriber, Same
  <1>3. \/ /\ ~ns.stopped /\ ns' = kept /\ work' = work \cup {<<r, t>>} /\ asked' = asked \ {q}
        \/ /\ ns.stopped
           /\ ns' = IF kept.taken[r] = t THEN [kept EXCEPT !.taken[r] = 0] ELSE kept
           /\ asked' = (asked \ {q}) \cup (IF kept.taken[r] = t THEN Ask("nack", r, t) ELSE {})
           /\ work' = work
    BY DEF Taken
  <1> HIDE DEF kept
  <1>4. /\ Claims(q, r) /\ TokenOf(q) = t /\ \A o \in Row : o # r => ~Claims(q, o)
    BY DEF Claims, TokenOf
  <1>5. ASSUME missed = 0
        PROVE  /\ \A o \in Row : Leased(o)
               /\ ns.taken[r] = 0 /\ db.row[r].held /\ db.row[r].token = t
               /\ <<r, t>> \notin Back(line) /\ \A a \in asked : Claims(a, r) => a = q
               /\ \A w \in Back(line) : w[1] = r => w[2] <= db.row[r].token
    <2>1. \A o \in Row : Leased(o) BY <1>5 DEF Inv, Rows
    <2>2. Leased(r) BY <1>1, <2>1
    <2> QED BY <1>4, <2>1, <2>2 DEF Leased
  <1>6. CASE ~ns.stopped
    <2>1. ns' = kept /\ work' = work \cup {<<r, t>>} /\ asked' = asked \ {q} BY <1>3, <1>6
    <2>2. Types' BY <1>1, <1>2, <2>1 DEF Inv, Types
    <2>3. Rows'
      <3> SUFFICES ASSUME missed = 0 PROVE Rows' BY DEF Rows
      <3>1. Leased(r)' BY <1>1, <1>2, <1>5, <2>1 DEF Leased
      <3>2. ASSUME NEW o \in Row, o # r PROVE Leased(o)'
        <4>1. Leased(o) BY <1>5
        <4>2. \A a : a \in asked' /\ Claims(a, o) <=> a \in asked /\ Claims(a, o)
          BY <1>4, <2>1, <3>2
        <4>3. ns'.taken[o] = ns.taken[o] BY <1>2, <2>1, <3>2
        <4> QED BY <4>1, <4>2, <4>3 DEF Leased
      <3>3. \A a \in asked' : a.kind = "ack" /\ a.ran => a.out = 1 BY <2>1 DEF Inv, Rows
      <3> QED BY <3>1, <3>2, <3>3 DEF Inv, Rows
    <2>4. Same(ns, ns') /\ ~ns'.stopped BY <1>2, <1>6, <2>1 DEF Same
    <2> QED BY <2>2, <2>3, <2>4, RowStep
  <1>7. CASE ns.stopped
    <2>1. \A o \in Row : ns.taken[o] = 0 BY <1>7 DEF Inv, Attends
    <2>2. kept.taken[r] = t BY <1>1, <1>2, <2>1
    <2>3. PICK p : /\ Ask("nack", r, t) = {p} /\ IsAsk(p) /\ p.kind = "nack" /\ p.row = r
                   /\ p.token = t /\ ~p.ran
      BY <1>1, AskIs
    <2>4. /\ ns' = [kept EXCEPT !.taken[r] = 0] /\ asked' = (asked \ {q}) \cup {p}
          /\ work' = work
      BY <1>3, <1>7, <2>2, <2>3
    <2>5. /\ ns' \in Subscriber /\ Same(ns, ns') /\ \A o \in Row : ns'.taken[o] = 0
      BY <1>1, <1>2, <2>1, <2>4 DEF Subscriber, Same
    <2>6. Types' BY <2>3, <2>4, <2>5 DEF Inv, Types
    <2>7. Rows'
      <3> SUFFICES ASSUME missed = 0 PROVE Rows' BY DEF Rows
      <3>1. Claims(p, r) /\ TokenOf(p) = t /\ \A o \in Row : o # r => ~Claims(p, o)
        BY <2>3 DEF Claims, TokenOf
      <3>2. \A a : a \in asked' <=> (a \in asked /\ a # q) \/ a = p BY <2>4
      <3>3. Leased(r)' BY <1>1, <1>5, <2>5, <3>1, <3>2 DEF Leased
      <3>4. ASSUME NEW o \in Row, o # r PROVE Leased(o)'
        <4>1. Leased(o) BY <1>5
        <4>2. \A a : a \in asked' /\ Claims(a, o) <=> a \in asked /\ Claims(a, o)
          BY <1>4, <3>1, <3>2, <3>4
        <4>3. ns'.taken[o] = ns.taken[o] BY <2>1, <2>5
        <4> QED BY <4>1, <4>2, <4>3 DEF Leased
      <3>5. \A a \in asked' : a.kind = "ack" /\ a.ran => a.out = 1
        BY <2>3, <3>2 DEF Inv, Rows
      <3> QED BY <3>3, <3>4, <3>5 DEF Inv, Rows
    <2> QED BY <2>5, <2>6, <2>7, RowStep
  <1> QED BY <1>6, <1>7

\* A statement that has no row leaves the pool, answered or lost.
LEMMA AskedLeaves ==
  ASSUME Inv, NEW q \in asked, asked' = asked \ {q},
         ns' = ns \/ ns' = [ns EXCEPT !.sweeping = FALSE],
         UNCHANGED <<line, work, db, now, gapped, undone>>,
         \/ missed' = missed /\ \A r \in Row : ~Claims(q, r)
         \/ missed' \in Nat /\ missed' # 0
  PROVE  Inv'
  <1>1. ns \in Subscriber /\ missed' \in Nat BY DEF Inv, Types
  <1>2. ns' \in Subscriber /\ Same(ns, ns') /\ ns'.taken = ns.taken
    BY <1>1 DEF Subscriber, Same
  <1>3. Types' BY <1>1, <1>2 DEF Inv, Types
  <1>4. Rows'
    <2>1. CASE missed' = missed /\ \A r \in Row : ~Claims(q, r)
      BY <1>2, <2>1, RowsStay DEF Inv
    <2>2. CASE missed' # 0 BY <2>2 DEF Rows
    <2> QED BY <2>1, <2>2
  <1> QED BY <1>2, <1>3, <1>4, RowStep DEF Inv, Attends, Same

LEMMA AskedAnsweredStep ==
  ASSUME Inv, NEW q \in asked, AskedAnswered(q) \/ AskedFails(q)
  PROVE  Inv'
  <1>1. IsAsk(q) /\ missed \in Nat BY DEF Inv, Types
  <1>2. CASE AskedAnswered(q)
    <2>1. q.ran /\ UNCHANGED <<line, db, now, gapped, missed>> BY <1>2 DEF AskedAnswered
    <2>2. CASE q.kind = "take" /\ q.out # 0
      BY <1>2, <2>1, <2>2, TakenStep DEF AskedAnswered
    <2>3. CASE q.kind = "take" /\ q.out = 0
      <3>1. asked' = asked \ {q} /\ UNCHANGED <<ns, work, undone>>
        BY <1>2, <2>3 DEF AskedAnswered, Taken
      <3>2. \A r \in Row : ~Claims(q, r) BY <2>3 DEF Claims
      <3> QED BY <2>1, <3>1, <3>2, AskedLeaves
    <2>4. CASE q.kind = "sweep"
      <3>1. /\ asked' = asked \ {q} /\ UNCHANGED <<work, undone>>
            /\ ns' = [ns EXCEPT !.sweeping = FALSE]
        BY <1>2, <2>4 DEF AskedAnswered
      <3>2. \A r \in Row : ~Claims(q, r) BY <2>4 DEF Claims
      <3> QED BY <2>1, <3>1, <3>2, AskedLeaves
    <2>5. CASE q.kind \in {"ack", "nack"}
      <3>1. /\ asked' = asked \ {q} /\ UNCHANGED <<ns, work>>
            /\ undone' = IF q.kind = "ack" /\ q.out = 0 THEN undone \cup {q.row} ELSE undone
        BY <1>2, <2>5 DEF AskedAnswered
      <3>2. \A r \in Row : ~Claims(q, r) BY <2>1, <2>5 DEF Claims
      <3>3. q.row \in Row BY <1>1, <2>5 DEF IsAsk
      <3>4. Types' BY <2>1, <3>1, <3>3 DEF Inv, Types
      <3>5. Rows'
        <4>1. CASE missed = 0
          <5>1. undone' = undone BY <2>1, <3>1, <4>1 DEF Inv, Rows
          <5> QED BY <2>1, <3>1, <3>2, <5>1, RowsStay DEF Inv
        <4>2. CASE missed # 0 BY <2>1, <4>2 DEF Rows
        <4> QED BY <4>1, <4>2
      <3>6. Same(ns, ns') BY <3>1 DEF Same
      <3> QED BY <2>1, <3>1, <3>4, <3>5, <3>6, RowStep DEF Inv, Attends
    <2> QED BY <1>1, <2>2, <2>3, <2>4, <2>5 DEF IsAsk
  <1>3. CASE AskedFails(q)
    BY <1>1, <1>3, AskedLeaves DEF AskedFails
  <1> QED BY <1>2, <1>3

-----------------------------------------------------------------------------
(* The theorems.                                                           *)

LEMMA Nothing ==
  DOMAIN <<>> = {} /\ Leaving(<<>>) = {} /\ Back(<<>>) = {} /\ ~HeadRan(<<>>)
  <1>1. DOMAIN <<>> = {} OBVIOUS
  <1>2. Stops(<<>>) = {} BY <1>1 DEF Stops
  <1> QED BY <1>1, <1>2 DEF Leaving, Back, HeadRan

LEMMA InitInv == SubscriberInit => Inv
  <1> SUFFICES ASSUME SubscriberInit PROVE Inv OBVIOUS
  <1>1. /\ ns.number = 0 /\ ~ns.subscribing /\ ~ns.retry /\ ~ns.beating /\ ~ns.started
        /\ ~ns.stopped /\ ns.seen = 0 /\ ns.taken = [r \in Row |-> 0] /\ ns \in Subscriber
    BY DEF SubscriberInit, Subscriber
  <1>2. line = <<>> /\ asked = {} /\ work = {} /\ now = 1 /\ gapped = FALSE /\ undone = {}
        /\ missed = 0
    BY DEF SubscriberInit
  <1>3. /\ db.given = {} /\ db.reg = {} /\ db.seen = 0 /\ db \in Database
        /\ \A r \in Row : ~db.row[r].held
    BY DEF SubscriberInit, Database
  <1>4. line \in Seq(LineStatement) BY <1>2
  <1>5. Types BY <1>1, <1>2, <1>3, <1>4, FS_EmptySet DEF Types
  <1>6. Attends BY <1>1, <1>2, Nothing DEF Attends, InOrder, Holds
  <1>7. Times BY <1>1, <1>2, <1>3, Nothing, SubscriberConstants DEF Times
  <1>8. Registered BY <1>2, <1>3, Nothing DEF Registered
  <1>9. Rows
    <2>1. \A r \in Row : ns.taken[r] = 0 BY <1>1
    <2> QED BY <1>2, <1>3, <2>1, Nothing DEF Rows, Leased
  <1> QED BY <1>5, <1>6, <1>7, <1>8, <1>9 DEF Inv

LEMMA InvNext == Inv /\ [SubscriberNext]_nsVars => Inv'
  <1> SUFFICES ASSUME Inv, [SubscriberNext]_nsVars PROVE Inv' OBVIOUS
  <1>1. CASE Start \/ RetryTimer BY <1>1, SubscribeStep
  <1>2. CASE Drain BY <1>2, DrainStep
  <1>3. CASE Stop BY <1>3, StopStep
  <1>4. CASE \E w \in work : Complete(w[1], w[2]) \/ Refuse(w[1], w[2]) BY <1>4, AnswerStep
  <1>5. CASE \E r \in Row : Wake(r) BY <1>5, WakeStep
  <1>6. CASE ListenReady \/ HeartbeatTimer \/ SweepTimer BY <1>6, BeatAndSweepStep
  <1>7. CASE LineRuns BY <1>7, LineRunsStep
  <1>8. CASE LineAnswered BY <1>8, LineAnsweredStep
  <1>9. CASE LineFails BY <1>9, LineFailsStep
  <1>10. CASE \E q \in asked : AskedRuns(q) \/ AskedAnswered(q) \/ AskedFails(q)
    BY <1>10, AskedRunsStep, AskedAnsweredStep
  <1>11. CASE \E r \in Row : LeaseEnds(r) BY <1>11, LeaseEndsStep
  <1>12. CASE Forgotten BY <1>12, ForgottenStep
  <1>13. CASE Tick BY <1>13, TickStep
  <1>14. CASE UNCHANGED nsVars
    <2>1. UNCHANGED <<ns, line, asked, work, db, now, gapped, undone, missed>>
      BY <1>14 DEF nsVars
    <2>2. Types' BY <2>1 DEF Inv, Types
    <2>3. Rows' BY <2>1, RowsStay DEF Inv
    <2>4. Same(ns, ns') BY <2>1 DEF Same
    <2> QED BY <2>1, <2>2, <2>3, <2>4, RowStep DEF Inv, Attends
  <1> QED BY <1>1, <1>2, <1>3, <1>4, <1>5, <1>6, <1>7, <1>8, <1>9, <1>10, <1>11, <1>12, <1>13,
             <1>14 DEF SubscriberNext

\* The inductive invariant: a leased row is with the module, with one statement of the
\* pool or in what stop() gives back; a registration is the subscriber's, on its way to
\* it, or given back; and what the timers and statements on the line say of both.
THEOREM Invariant == SubscriberSpec => []Inv
  <1>1. SubscriberInit => Inv BY InitInv
  <1>2. Inv /\ [SubscriberNext]_nsVars => Inv' BY InvNext
  <1> QED BY <1>1, <1>2, PTL DEF SubscriberSpec

\* What a subscriber has taken it gives back or completes, and it goes on (the whole of
\* notify_subscriber.cpp): a stop leaves no registration and no row behind, no completion
\* is taken back while its lease runs, it is subscribed or about to ask for it, and a gap
\* the database saw is told.
THEOREM SubscriberKeepsHolds == SubscriberSpec => []SubscriberKeeps
  <1>1. Inv => SubscriberKeeps
    <2> SUFFICES ASSUME Inv PROVE SubscriberKeeps OBVIOUS
    <2>1. StopGivesBack
      <3> SUFFICES ASSUME ns.stopped, line = <<>>, asked = {}, missed = 0
                   PROVE  db.reg = {} /\ \A r \in Row : ~db.row[r].held
        BY DEF StopGivesBack
      <3>1. 0 \notin db.reg BY DEF Inv, Types, Database
      <3>2. ns.number = 0 /\ \A r \in Row : ns.taken[r] = 0 BY DEF Inv, Attends
      <3>3. db.reg = {} BY <3>1, <3>2, Nothing DEF Inv, Registered
      <3>4. \A r \in Row : ~db.row[r].held BY <3>2, Nothing DEF Inv, Rows, Leased
      <3> QED BY <3>3, <3>4
    <2>2. CompletedStays BY DEF Inv, Rows, CompletedStays
    <2>3. KeepsAtIt BY DEF Inv, Attends, Holds, KeepsAtIt
    <2>4. LapseTold BY DEF Inv, Times, LapseTold
    <2> QED BY <2>1, <2>2, <2>3, <2>4 DEF SubscriberKeeps
  <1>2. SubscriberSpec => []Inv BY Invariant
  <1> QED BY <1>1, <1>2, PTL

-----------------------------------------------------------------------------
(* The pool's size: what a step may leave of the members counted.          *)

PoolStates == {"none", "Connecting", "Ready", "Busy", "Error"}
Live == {"Connecting", "Ready", "Busy"}
Counted == {"Connecting", "Ready", "Busy", "Error"}

Pools ==
    [ st : [Conn -> PoolStates], round : [Conn -> {"min", "growth", "successor"}],
      block : [Conn -> {"none", "open", "aborted"}],
      old : SUBSET Conn, idle : SUBSET Conn, fresh : SUBSET Conn,
      retiring : Conn \cup {NoConn}, successor : Conn \cup {NoConn}, up : BOOLEAN,
      backoff : BOOLEAN, timer : BOOLEAN, failing : BOOLEAN,
      growthPaused : BOOLEAN, retirePaused : BOOLEAN,
      queued : Nat, asked : Nat, aged : Nat, faults : Nat ]

\* One connection more than the pool's size: while both sides of a retirement are
\* up or on their way.
Both(x) ==
    x.retiring # NoConn /\ x.st[x.retiring] \in Live /\ x.st[x.successor] \in Live

Paired(x) ==
    /\ (x.retiring = NoConn) <=> (x.successor = NoConn)
    /\ x.retiring # NoConn =>
          /\ x.st[x.retiring] # "none" /\ x.st[x.successor] # "none"
          /\ x.retiring # x.successor

InSize(x) ==
    /\ P!Size(x) <= MaxConns + MinConns
    /\ P!Healthy(x) <= MaxConns + IF Both(x) THEN 1 ELSE 0

GoodPools == {x \in Pools : Paired(x) /\ InSize(x)}

\* The members of y that the sizes depend on are those of x.
Alike(y, x) == y.st = x.st /\ y.retiring = x.retiring /\ y.successor = x.successor

LEMMA CardinalityIs == \A S : P!Cardinality(S) = Cardinality(S)
  BY DEF P!Cardinality, Cardinality

LEMMA CountTyped ==
    ASSUME NEW x \in Pools, NEW A
    PROVE  IsFiniteSet(P!At(x, A)) /\ Cardinality(P!At(x, A)) \in Nat
  BY PoolConstants, FS_Subset, FS_CardinalityType DEF P!At

LEMMA SizesTyped ==
    ASSUME NEW x \in Pools
    PROVE  /\ P!Size(x) \in Nat /\ P!Healthy(x) \in Nat /\ P!Connecting(x) \in Nat
           /\ P!Size(x) = Cardinality(P!At(x, Counted))
           /\ P!Healthy(x) = Cardinality(P!At(x, Live))
  <1>1. /\ P!Size(x) = Cardinality(P!At(x, Counted))
        /\ P!Healthy(x) = Cardinality(P!At(x, Live))
    BY CardinalityIs DEF P!Size, P!Healthy, Live, Counted
  <1>2. P!Connecting(x) = Cardinality(P!At(x, {"Connecting"}))
    BY CardinalityIs DEF P!Connecting
  <1> QED
    BY <1>1, <1>2, CountTyped

\* One connection changes its state.
LEMMA CountMoved ==
    ASSUME NEW x \in Pools, NEW y \in Pools, NEW c \in Conn, NEW v \in PoolStates, NEW A,
           y.st = [x.st EXCEPT ![c] = v]
    PROVE  Cardinality(P!At(y, A)) =
             Cardinality(P!At(x, A)) + (IF v \in A THEN 1 ELSE 0)
                                     - (IF x.st[c] \in A THEN 1 ELSE 0)
  <1> DEFINE X == P!At(x, A)
             Y == P!At(y, A)
  <1>1. IsFiniteSet(X) /\ IsFiniteSet(Y) /\ Cardinality(X) \in Nat /\ Cardinality(Y) \in Nat
    BY CountTyped
  <1>2. x.st \in [Conn -> PoolStates]
    BY DEF Pools
  <1>3. \A d \in Conn : y.st[d] = IF d = c THEN v ELSE x.st[d]
    BY <1>2
  <1>4. Y \ {c} = X \ {c}
    BY <1>3 DEF P!At
  <1>5. (c \in X <=> x.st[c] \in A) /\ (c \in Y <=> v \in A)
    BY <1>3 DEF P!At
  <1>6. /\ Cardinality(X \ {c}) = IF c \in X THEN Cardinality(X) - 1 ELSE Cardinality(X)
        /\ Cardinality(Y \ {c}) = IF c \in Y THEN Cardinality(Y) - 1 ELSE Cardinality(Y)
    BY <1>1, FS_RemoveElement
  <1> HIDE DEF X, Y
  <1>7. Cardinality(Y) = Cardinality(X) + (IF v \in A THEN 1 ELSE 0)
                                        - (IF x.st[c] \in A THEN 1 ELSE 0)
    <2>1. Cardinality(Y \ {c}) = Cardinality(X \ {c})
      BY <1>4
    <2>2. /\ Cardinality(Y) = Cardinality(Y \ {c}) + IF v \in A THEN 1 ELSE 0
          /\ Cardinality(X) = Cardinality(X \ {c}) + IF x.st[c] \in A THEN 1 ELSE 0
      BY <1>1, <1>5, <1>6
    <2>3. Cardinality(X \ {c}) \in Int
      BY <1>1, <1>6
    <2> QED
      BY <2>1, <2>2, <2>3
  <1> QED
    BY <1>7 DEF X, Y

LEMMA SizesMoved ==
    ASSUME NEW x \in Pools, NEW y \in Pools, NEW c \in Conn, NEW v \in PoolStates,
           y.st = [x.st EXCEPT ![c] = v]
    PROVE  /\ P!Size(y) = P!Size(x) + (IF v = "none" THEN 0 ELSE 1)
                                    - (IF x.st[c] = "none" THEN 0 ELSE 1)
           /\ P!Healthy(y) = P!Healthy(x) + (IF v \in Live THEN 1 ELSE 0)
                                          - (IF x.st[c] \in Live THEN 1 ELSE 0)
  <1>1. x.st[c] \in PoolStates
    BY DEF Pools
  <1>2. (v \in Counted <=> v # "none") /\ (x.st[c] \in Counted <=> x.st[c] # "none")
    BY <1>1 DEF PoolStates, Counted
  <1>3. /\ P!Size(x) = Cardinality(P!At(x, Counted)) /\ P!Size(y) = Cardinality(P!At(y, Counted))
        /\ P!Healthy(x) = Cardinality(P!At(x, Live)) /\ P!Healthy(y) = Cardinality(P!At(y, Live))
    BY SizesTyped
  <1>4. Cardinality(P!At(y, Counted)) =
             Cardinality(P!At(x, Counted)) + (IF v \in Counted THEN 1 ELSE 0)
                                     - (IF x.st[c] \in Counted THEN 1 ELSE 0)
    BY CountMoved
  <1>5. Cardinality(P!At(y, Live)) =
             Cardinality(P!At(x, Live)) + (IF v \in Live THEN 1 ELSE 0)
                                     - (IF x.st[c] \in Live THEN 1 ELSE 0)
    BY CountMoved
  <1> QED
    BY <1>2, <1>3, <1>4, <1>5

LEMMA AlikeSizes ==
    ASSUME NEW x \in Pools, NEW y \in Pools, Alike(y, x)
    PROVE  /\ P!Size(y) = P!Size(x) /\ P!Healthy(y) = P!Healthy(x)
           /\ P!Connecting(y) = P!Connecting(x)
           /\ Both(y) <=> Both(x)
           /\ Paired(y) <=> Paired(x)
           /\ x \in GoodPools => y \in GoodPools
  <1>1. /\ P!Size(y) = P!Size(x) /\ P!Healthy(y) = P!Healthy(x)
        /\ P!Connecting(y) = P!Connecting(x)
    BY DEF Alike, P!Size, P!Healthy, P!Connecting, P!At
  <1>2. (Both(y) <=> Both(x)) /\ (Paired(y) <=> Paired(x))
    BY DEF Alike, Both, Paired
  <1> QED
    BY <1>1, <1>2 DEF GoodPools, InSize

-----------------------------------------------------------------------------
(* Opening and closing.                                                    *)

LEMMA PoolFault ==
    ASSUME NEW x \in Pools
    PROVE  P!Fault(x) \in Pools /\ Alike(P!Fault(x), x)
  BY DEF Pools, P!Fault, Alike

LEMMA PoolFailure ==
    ASSUME NEW x \in Pools, NEW round, NEW counts \in BOOLEAN
    PROVE  P!ConnectFailure(x, round, counts) \in Pools /\ Alike(P!ConnectFailure(x, round, counts), x)
  BY DEF Pools, P!ConnectFailure, Alike

\* While there is room there is a name.
LEMMA NamesSuffice ==
    ASSUME NEW x \in Pools, P!HasRoom(x)
    PROVE  \E c \in Conn : x.st[c] = "none"
  <1>1. P!Size(x) < MaxConns + MinConns
    BY DEF P!HasRoom
  <1>2. P!Size(x) = Cardinality(P!At(x, Counted)) /\ P!Size(x) \in Nat
    BY SizesTyped
  <1>3. P!At(x, Counted) # Conn
    BY <1>1, <1>2, PoolConstants, FS_CardinalityType
  <1>4. \A c \in Conn : x.st[c] \in PoolStates
    BY DEF Pools
  <1> QED
    BY <1>3, <1>4 DEF P!At, PoolStates, Counted

\* A connect refused or put off, or one connection more.
Opened(y, x) ==
    /\ y \in Pools /\ y.retiring = x.retiring /\ y.successor = x.successor
    /\ \/ y.st = x.st
       \/ \E c \in Conn : x.st[c] = "none" /\ y.st = [x.st EXCEPT ![c] = "Connecting"]

LEMMA NewConnectionOpens ==
    ASSUME NEW x \in Pools, P!HasRoom(x), NEW why \in {"min", "growth", "successor"}
    PROVE  \A y \in P!NewConnection(x, why) : Opened(y, x)
  <1> SUFFICES ASSUME NEW y \in P!NewConnection(x, why) PROVE Opened(y, x)
    OBVIOUS
  <1> DEFINE c == CHOOSE c \in Conn : x.st[c] = "none"
             put == [x EXCEPT !.timer = @ \/ why = "min"]
             new == [x EXCEPT !.st[c] = "Connecting", !.round[c] = why,
                              !.fresh = IF why = "min" THEN @ \cup {c} ELSE @]
             ref == P!Fault(P!ConnectFailure(x, why, TRUE))
  <1>1. c \in Conn /\ x.st[c] = "none"
    BY NamesSuffice
  <1>2. y \in {put, new, ref}
    BY DEF P!NewConnection
  <1>3. Opened(put, x)
    BY DEF Opened, Pools
  <1>4. Opened(ref, x)
    <2> DEFINE z == P!ConnectFailure(x, why, TRUE)
    <2>1. z \in Pools /\ Alike(z, x)
      BY PoolFailure
    <2> HIDE DEF z
    <2>2. P!Fault(z) \in Pools /\ Alike(P!Fault(z), z)
      BY <2>1, PoolFault
    <2>3. Opened(P!Fault(z), x)
      BY <2>1, <2>2 DEF Opened, Alike
    <2> QED
      BY <2>3 DEF z
  <1>5. Opened(new, x)
    <2> HIDE DEF c
    <2> DEFINE f == IF why = "min" THEN x.fresh \cup {c} ELSE x.fresh
    <2>1. f \in SUBSET Conn
      BY <1>1 DEF Pools
    <2>2. new = [x EXCEPT !.st = [x.st EXCEPT ![c] = "Connecting"],
                          !.round = [x.round EXCEPT ![c] = why], !.fresh = f]
      BY DEF Pools
    <2> HIDE DEF f
    <2>3. /\ [x.st EXCEPT ![c] = "Connecting"] \in [Conn -> PoolStates]
          /\ [x.round EXCEPT ![c] = why] \in [Conn -> {"min", "growth", "successor"}]
      BY <1>1 DEF Pools, PoolStates
    <2> DEFINE s == [x.st EXCEPT ![c] = "Connecting"]
               r == [x.round EXCEPT ![c] = why]
    <2>4. new = [x EXCEPT !.st = s, !.round = r, !.fresh = f]
      BY <2>2
    <2>5. s \in [Conn -> PoolStates] /\ r \in [Conn -> {"min", "growth", "successor"}]
      BY <2>3
    <2> HIDE DEF new, s, r
    <2>6. /\ new \in Pools /\ new.st = s
          /\ new.retiring = x.retiring /\ new.successor = x.successor
      BY <2>1, <2>4, <2>5 DEF Pools
    <2>7. new.st = [x.st EXCEPT ![c] = "Connecting"]
      BY <2>6 DEF s
    <2> QED
      BY <1>1, <2>6, <2>7 DEF Opened
  <1> QED
    BY <1>2, <1>3, <1>4, <1>5

\* It fits: where there is room, and the healthy ones are fewer than they may be.
LEMMA OpenedFits ==
    ASSUME NEW x \in GoodPools, P!HasRoom(x), NEW y, Opened(y, x)
    PROVE  /\ P!Healthy(y) <= P!Healthy(x) + 1
           /\ P!Size(y) <= MaxConns + MinConns
           /\ Paired(y)
           /\ Both(x) => Both(y)
           /\ P!Healthy(x) < MaxConns => y \in GoodPools
  <1>0. x \in Pools /\ y \in Pools
    BY DEF GoodPools, Opened
  <1>1. CASE y.st = x.st
    <2>1. Alike(y, x)
      BY <1>1 DEF Alike, Opened
    <2> QED
      BY <1>0, <2>1, AlikeSizes, SizesTyped DEF GoodPools, InSize
  <1>2. ASSUME NEW c \in Conn, x.st[c] = "none", y.st = [x.st EXCEPT ![c] = "Connecting"]
        PROVE  /\ P!Healthy(y) <= P!Healthy(x) + 1
               /\ P!Size(y) <= MaxConns + MinConns
               /\ Paired(y)
               /\ Both(x) => Both(y)
               /\ P!Healthy(x) < MaxConns => y \in GoodPools
    <2>1. P!Healthy(y) = P!Healthy(x) + 1 /\ P!Size(y) = P!Size(x) + 1
      <3>1. "Connecting" \in PoolStates /\ "Connecting" \in Live /\ "none" \notin Live
        BY DEF PoolStates, Live
      <3>2. /\ P!Size(y) = P!Size(x) + (IF "Connecting" = "none" THEN 0 ELSE 1)
                                    - (IF x.st[c] = "none" THEN 0 ELSE 1)
            /\ P!Healthy(y) = P!Healthy(x) + (IF "Connecting" \in Live THEN 1 ELSE 0)
                                          - (IF x.st[c] \in Live THEN 1 ELSE 0)
        BY <1>0, <1>2, <3>1, SizesMoved
      <3> QED
        BY <1>0, <1>2, <3>1, <3>2, SizesTyped
    <2>2. P!Size(y) <= MaxConns + MinConns
      BY <1>0, <2>1, SizesTyped, PoolConstants DEF P!HasRoom
    <2>3. \A d \in Conn : x.st[d] # "none" => y.st[d] = x.st[d]
      BY <1>0, <1>2 DEF Pools
    <2>4. Paired(x) /\ x.retiring \in Conn \cup {NoConn} /\ x.successor \in Conn \cup {NoConn}
      BY <1>0 DEF GoodPools, Pools
    <2>5. y.retiring = x.retiring /\ y.successor = x.successor
      BY DEF Opened
    <2>6. Paired(y) /\ (Both(x) => Both(y))
      BY <2>3, <2>4, <2>5 DEF Paired, Both
    <2>7. P!Healthy(x) < MaxConns => y \in GoodPools
      BY <1>0, <2>1, <2>2, <2>6, SizesTyped, PoolConstants DEF GoodPools, InSize
    <2> QED
      BY <1>0, <2>1, <2>2, <2>6, <2>7, SizesTyped
  <1> QED
    BY <1>1, <1>2 DEF Opened

LEMMA RemovalIs ==
    ASSUME NEW x \in Pools, NEW c \in Conn
    PROVE  LET y == P!RemoveConnection(x, c)
           IN  /\ y \in Pools
               /\ y.st = [x.st EXCEPT ![c] = "none"]
               /\ c \notin {x.retiring, x.successor} =>
                     y.retiring = x.retiring /\ y.successor = x.successor
               /\ c \in {x.retiring, x.successor} =>
                     y.retiring = NoConn /\ y.successor = NoConn
  <1> DEFINE s == [x.st EXCEPT ![c] = "none"]
             r == [x.round EXCEPT ![c] = "min"]
             b == [x.block EXCEPT ![c] = "none"]
             u == [x EXCEPT !.st = s, !.round = r, !.block = b, !.old = @ \ {c},
                            !.idle = @ \ {c}, !.fresh = @ \ {c}]
             v == [u EXCEPT !.retiring = NoConn, !.successor = NoConn, !.up = FALSE,
                            !.retirePaused = @ \/ c = x.successor]
  <1>1. /\ s \in [Conn -> PoolStates]
        /\ r \in [Conn -> {"min", "growth", "successor"}]
        /\ b \in [Conn -> {"none", "open", "aborted"}]
    BY DEF Pools, PoolStates
  <1>2. P!RemoveConnection(x, c) = IF c \notin {x.retiring, x.successor} THEN u ELSE v
    BY DEF P!RemoveConnection
  <1>3. x.old \ {c} \in SUBSET Conn /\ x.idle \ {c} \in SUBSET Conn /\ x.fresh \ {c} \in SUBSET Conn
    BY DEF Pools
  <1> HIDE DEF s, r, b
  <1>4. u \in Pools /\ u.st = s /\ u.retiring = x.retiring /\ u.successor = x.successor
    BY <1>1, <1>3 DEF Pools
  <1> HIDE DEF u
  <1>5. v \in Pools /\ v.st = s /\ v.retiring = NoConn /\ v.successor = NoConn
    BY <1>4 DEF Pools
  <1> HIDE DEF v
  <1> QED
    BY <1>2, <1>4, <1>5 DEF s

LEMMA RemovalFits ==
    ASSUME NEW x \in GoodPools, NEW c \in Conn
    PROVE  P!RemoveConnection(x, c) \in GoodPools
  <1> DEFINE y == P!RemoveConnection(x, c)
  <1>0. x \in Pools /\ Paired(x) /\ InSize(x) /\ NoConn \notin Conn
    BY PoolConstants DEF GoodPools
  <1>1. /\ y \in Pools
        /\ y.st = [x.st EXCEPT ![c] = "none"]
        /\ c \notin {x.retiring, x.successor} =>
              y.retiring = x.retiring /\ y.successor = x.successor
        /\ c \in {x.retiring, x.successor} => y.retiring = NoConn /\ y.successor = NoConn
    BY <1>0, RemovalIs
  <1> SUFFICES y \in GoodPools
    OBVIOUS
  <1> HIDE DEF y
  <1>2. /\ P!Size(y) <= P!Size(x)
        /\ P!Healthy(y) = P!Healthy(x) - IF x.st[c] \in Live THEN 1 ELSE 0
    <2>1. "none" \in PoolStates /\ "none" \notin Live
      BY DEF PoolStates, Live
    <2>2. /\ P!Size(y) = P!Size(x) + (IF "none" = "none" THEN 0 ELSE 1)
                                    - (IF x.st[c] = "none" THEN 0 ELSE 1)
          /\ P!Healthy(y) = P!Healthy(x) + (IF "none" \in Live THEN 1 ELSE 0)
                                          - (IF x.st[c] \in Live THEN 1 ELSE 0)
      BY <1>0, <1>1, <2>1, SizesMoved
    <2> QED
      BY <1>0, <1>1, <2>1, <2>2, SizesTyped
  <1>3. \A d \in Conn : d # c => y.st[d] = x.st[d]
    BY <1>0, <1>1 DEF Pools
  <1>4. x.retiring \in Conn \cup {NoConn} /\ x.successor \in Conn \cup {NoConn}
    BY <1>0 DEF Pools
  <1>5. CASE c \notin {x.retiring, x.successor}
    <2>1. Paired(y) /\ (Both(y) <=> Both(x))
      BY <1>0, <1>1, <1>3, <1>4, <1>5 DEF Paired, Both
    <2> QED
      BY <1>0, <1>1, <1>2, <2>1, SizesTyped, PoolConstants DEF GoodPools, InSize
  <1>6. CASE c \in {x.retiring, x.successor}
    <2>1. Paired(y) /\ ~Both(y)
      BY <1>1, <1>6 DEF Paired, Both
    <2>2. Both(x) => x.st[c] \in Live
      BY <1>6 DEF Both
    <2>3. P!Healthy(y) <= MaxConns
      BY <1>0, <1>1, <1>2, <2>2, SizesTyped, PoolConstants DEF InSize
    <2> QED
      BY <1>0, <1>1, <1>2, <2>1, <2>3, SizesTyped, PoolConstants DEF GoodPools, InSize
  <1> QED
    BY <1>5, <1>6

\* A live connection stays one, or goes to Error.
LEMMA StaysFits ==
    ASSUME NEW x \in GoodPools, NEW c \in Conn, x.st[c] \in Live, NEW v \in Counted,
           NEW y \in Pools, y.st = [x.st EXCEPT ![c] = v],
           y.retiring = x.retiring, y.successor = x.successor
    PROVE  y \in GoodPools
  <1>0. x \in Pools /\ Paired(x) /\ InSize(x)
    BY DEF GoodPools
  <1>1. v \in PoolStates /\ v # "none" /\ x.st[c] # "none"
    BY DEF Counted, PoolStates, Live
  <1>2. /\ P!Size(y) = P!Size(x)
        /\ P!Healthy(y) = P!Healthy(x) - IF v \in Live THEN 0 ELSE 1
    <2>1. /\ P!Size(y) = P!Size(x) + (IF v = "none" THEN 0 ELSE 1)
                                    - (IF x.st[c] = "none" THEN 0 ELSE 1)
          /\ P!Healthy(y) = P!Healthy(x) + (IF v \in Live THEN 1 ELSE 0)
                                          - (IF x.st[c] \in Live THEN 1 ELSE 0)
      BY <1>0, <1>1, SizesMoved
    <2> QED
      BY <1>0, <1>1, <2>1, SizesTyped
  <1>3. \A d \in Conn : y.st[d] = IF d = c THEN v ELSE x.st[d]
    BY <1>0 DEF Pools
  <1>4. x.retiring \in Conn \cup {NoConn} /\ x.successor \in Conn \cup {NoConn}
    BY <1>0 DEF Pools
  <1>5. Paired(y)
    BY <1>0, <1>1, <1>3, <1>4 DEF Paired
  <1>6. v \in Live => (Both(y) <=> Both(x))
    BY <1>0, <1>3, <1>4 DEF Both, Paired
  <1>7. P!Healthy(y) <= MaxConns + IF Both(y) THEN 1 ELSE 0
    BY <1>0, <1>2, <1>6, SizesTyped, PoolConstants DEF InSize
  <1> QED
    BY <1>0, <1>2, <1>5, <1>7 DEF GoodPools, InSize

LEMMA ReconnectFits ==
    ASSUME NEW x \in GoodPools, NEW c \in Conn, x.st[c] \in Live
    PROVE  P!TryReconnect(x, c) \subseteq GoodPools
  <1> SUFFICES ASSUME NEW y \in P!TryReconnect(x, c) PROVE y \in GoodPools
    OBVIOUS
  <1>0. x \in Pools
    BY DEF GoodPools
  <1> DEFINE b == [x.block EXCEPT ![c] = "none"]
             r == [x.round EXCEPT ![c] = "min"]
             st(v) == [x.st EXCEPT ![c] = v]
             again == [x EXCEPT !.block = b, !.idle = @ \ {c}, !.st = st("Connecting"),
                                !.round = r, !.fresh = @ \cup {c}]
             broken == [x EXCEPT !.block = b, !.idle = @ \ {c}, !.st = st("Error")]
  <1>1. y \in {again, P!Fault(broken)}
    BY DEF P!TryReconnect
  <1>2. /\ b \in [Conn -> {"none", "open", "aborted"}]
        /\ r \in [Conn -> {"min", "growth", "successor"}]
        /\ st("Connecting") \in [Conn -> PoolStates] /\ st("Error") \in [Conn -> PoolStates]
        /\ x.idle \ {c} \in SUBSET Conn /\ x.fresh \cup {c} \in SUBSET Conn
    BY <1>0 DEF Pools, PoolStates
  <1> HIDE DEF b, r, st
  <1>3. /\ again \in Pools /\ again.st = st("Connecting")
        /\ again.retiring = x.retiring /\ again.successor = x.successor
    BY <1>0, <1>2 DEF Pools
  <1>4. /\ broken \in Pools /\ broken.st = st("Error")
        /\ broken.retiring = x.retiring /\ broken.successor = x.successor
    BY <1>0, <1>2 DEF Pools
  <1> HIDE DEF again, broken
  <1>5. again \in GoodPools
    BY <1>3, StaysFits DEF Counted, st
  <1>6. broken \in GoodPools
    BY <1>4, StaysFits DEF Counted, st
  <1>7. P!Fault(broken) \in GoodPools
    BY <1>4, <1>6, PoolFault, AlikeSizes
  <1> QED
    BY <1>1, <1>5, <1>7

-----------------------------------------------------------------------------
(* Loops: what the rounds leave stays where every round keeps it.          *)

LEMMA LeastNumber ==
    ASSUME NEW A, A \subseteq Nat, A # {}
    PROVE  \E i \in A : \A j \in A : i <= j
  <1>1. PICK x \in A : \A y \in A : ~ (<<y, x>> \in OpToRel(<, Nat))
    BY NatLessThanWellFounded, WFMin, Zenon
  <1>2. \A y \in A : y \in Nat /\ x \in Nat /\ ~(y < x)
    BY <1>1, Zenon DEF OpToRel
  <1> QED
    BY <1>2

\* The rounds of a loop as a function, and where they lead.
IsLoop(g, n, x, H) ==
    g = [k \in 0 .. n |-> IF k = 0 THEN {x} ELSE UNION {H[k][u] : u \in g[k - 1]}]

RoundsKeep(n, x, H, W) ==
    /\ n \in Nat /\ x \in W[0]
    /\ \A k \in 1 .. n : \A u \in W[k - 1] : H[k][u] \subseteq W[k]

LEMMA LoopExists ==
    ASSUME NEW n, NEW x, NEW H, NEW W, RoundsKeep(n, x, H, W)
    PROVE  \E g : IsLoop(g, n, x, H) /\ \A k \in 0 .. n : g[k] \subseteq W[k]
  <1> DEFINE Reaches(g, m) == IsLoop(g, m, x, H) /\ \A k \in 0 .. m : g[k] \subseteq W[k]
             A == {m \in 0 .. n : ~ \E g : Reaches(g, m)}
  <1> USE DEF RoundsKeep
  <1>0. n \in 0 .. n /\ A \subseteq Nat
    OBVIOUS
  <1>1. SUFFICES ASSUME A # {} PROVE FALSE
    <2>1. ASSUME A = {} PROVE \E g : Reaches(g, n)
      <3> HIDE DEF Reaches
      <3> QED
        BY <1>0, <2>1
    <2> QED
      BY <2>1
  <1> HIDE DEF A
  <1>2. PICK m \in A : \A j \in A : m <= j
    BY <1>0, <1>1, LeastNumber
  <1>3. m \in 0 .. n /\ ~ \E g : Reaches(g, m)
    <2> HIDE DEF Reaches
    <2> QED
      BY DEF A
  <1>4. m # 0
    <2> DEFINE g == [k \in 0 .. 0 |-> {x}]
    <2>1. g = [k \in 0 .. 0 |-> IF k = 0 THEN {x} ELSE UNION {H[k][u] : u \in g[k - 1]}]
      OBVIOUS
    <2>2. \A k \in 0 .. 0 : g[k] \subseteq W[k]
      OBVIOUS
    <2>3. Reaches(g, 0)
      BY <2>1, <2>2 DEF IsLoop
    <2> QED
      BY <1>3, <2>3
  <1>5. m - 1 \in 0 .. n /\ m - 1 \notin A
    BY <1>2, <1>3, <1>4
  <1>6. PICK g : Reaches(g, m - 1)
    <2> HIDE DEF Reaches
    <2> QED
      BY <1>5 DEF A
  <1> DEFINE Led(d) == UNION {H[m][u] : u \in d}
             h == [k \in 0 .. m |-> IF k = m THEN Led(g[m - 1]) ELSE g[k]]
  <1>7. g = [k \in 0 .. m - 1 |-> IF k = 0 THEN {x} ELSE UNION {H[k][u] : u \in g[k - 1]}]
    BY <1>6 DEF IsLoop
  <1>8. \A k \in 0 .. m - 1 : h[k] = g[k]
    BY <1>3
  <1>9. h[m] = Led(h[m - 1])
    <2>1. m \in 0 .. m /\ m - 1 \in 0 .. m - 1
      BY <1>3, <1>4
    <2>2. h[m - 1] = g[m - 1]
      BY <1>8, <2>1
    <2>3. h[m] = Led(g[m - 1])
      <3> HIDE DEF Led
      <3> QED
        BY <2>1
    <2> HIDE DEF h, Led
    <2> QED
      BY <2>2, <2>3
  <1>10. ASSUME NEW k \in 0 .. m
         PROVE  h[k] = IF k = 0 THEN {x} ELSE UNION {H[k][u] : u \in h[k - 1]}
    <2>1. CASE k = m
      <3> HIDE DEF h
      <3>1. h[k] = Led(h[k - 1])
        BY <1>9, <2>1
      <3> QED
        BY <1>4, <2>1, <3>1
    <2>2. CASE k # m
      <3>1. k \in 0 .. m - 1 /\ (k # 0 => k - 1 \in 0 .. m - 1)
        BY <1>3, <2>2
      <3>2. h[k] = g[k] /\ (k # 0 => h[k - 1] = g[k - 1])
        BY <1>8, <3>1
      <3>3. g[k] = IF k = 0 THEN {x} ELSE UNION {H[k][u] : u \in g[k - 1]}
        BY <1>7, <3>1
      <3> HIDE DEF h
      <3> QED
        BY <3>2, <3>3
    <2> QED
      BY <2>1, <2>2
  <1>11. h = [k \in 0 .. m |-> IF k = 0 THEN {x} ELSE UNION {H[k][u] : u \in h[k - 1]}]
    <2> DEFINE e == [k \in 0 .. m |-> IF k = 0 THEN {x} ELSE UNION {H[k][u] : u \in h[k - 1]}]
    <2>1. h = [k \in 0 .. m |-> h[k]]
      OBVIOUS
    <2> HIDE DEF h
    <2>2. \A k \in 0 .. m : h[k] = e[k]
      BY <1>10
    <2> HIDE DEF e
    <2>3. [k \in 0 .. m |-> h[k]] = [k \in 0 .. m |-> e[k]]
      BY <2>2
    <2>4. e = [k \in 0 .. m |-> e[k]]
      BY DEF e
    <2>5. h = e
      BY <2>1, <2>3, <2>4
    <2> QED
      BY <2>5 DEF e
  <1>12. \A k \in 0 .. m : h[k] \subseteq W[k]
    <2>1. \A k \in 0 .. m - 1 : g[k] \subseteq W[k]
      BY <1>6
    <2>2. g[m - 1] \subseteq W[m - 1] /\ m \in 1 .. n
      BY <1>3, <1>4, <2>1
    <2>3. Led(g[m - 1]) \subseteq W[m]
      BY <2>2
    <2> HIDE DEF Led
    <2> QED
      BY <1>3, <2>1, <2>3
  <1> HIDE DEF h
  <1>13. Reaches(h, m)
    BY <1>11, <1>12 DEF IsLoop
  <1> QED
    BY <1>3, <1>13

LEMMA LoopStays ==
    ASSUME NEW n \in Nat, NEW f, NEW W, f[0] \subseteq W[0],
           \A k \in 1 .. n : f[k - 1] \subseteq W[k - 1] => f[k] \subseteq W[k]
    PROVE  f[n] \subseteq W[n]
  <1> DEFINE A == {m \in 0 .. n : ~ (f[m] \subseteq W[m])}
  <1>0. A \subseteq Nat
    OBVIOUS
  <1>1. SUFFICES ASSUME A # {} PROVE FALSE
    OBVIOUS
  <1>2. PICK m \in A : \A j \in A : m <= j
    <2> HIDE DEF A
    <2> QED
      BY <1>0, <1>1, LeastNumber
  <1>3. m \in 0 .. n /\ ~ (f[m] \subseteq W[m])
    OBVIOUS
  <1>4. m # 0
    BY <1>3
  <1>5. m - 1 \in 0 .. n /\ m - 1 \notin A /\ m \in 1 .. n
    BY <1>2, <1>3, <1>4
  <1>6. f[m - 1] \subseteq W[m - 1]
    BY <1>5
  <1> QED
    BY <1>3, <1>5, <1>6

\* ensure_min_connections()
LEMMA EnsureMinFits == ASSUME NEW x \in GoodPools PROVE P!EnsureMin(x) \subseteq GoodPools
  <1> DEFINE n == IF P!Healthy(x) < MinConns THEN MinConns - P!Healthy(x) ELSE 0
             Op(u, k) == IF P!HasRoom(u) THEN P!NewConnection(u, "min") ELSE {u}
             W == [k \in 0 .. n |-> {u \in GoodPools : P!Healthy(u) <= P!Healthy(x) + k}]
             H == [k \in 1 .. n |-> [u \in GoodPools |-> Op(u, k)]]
             f == CHOOSE f : f = [k \in 0 .. n |->
                                    IF k = 0 THEN {x} ELSE UNION {Op(u, k) : u \in f[k - 1]}]
  <1>1. P!EnsureMin(x) = f[n]
    BY DEF P!EnsureMin, P!Rounds, P!Each
  <1>2. n \in Nat /\ P!Healthy(x) \in Nat
    BY SizesTyped, PoolConstants DEF GoodPools
  <1>3. x \in W[0]
    BY <1>2
  <1>4. ASSUME NEW k \in 1 .. n, NEW u \in W[k - 1]
        PROVE  Op(u, k) \subseteq W[k] /\ Op(u, k) = H[k][u]
    <2>1. u \in GoodPools /\ P!Healthy(u) <= P!Healthy(x) + (k - 1) /\ k \in 0 .. n
      BY <1>2
    <2>2. u \in Pools /\ P!Healthy(u) \in Nat
      BY <2>1, SizesTyped DEF GoodPools
    <2>3. P!Healthy(u) < MaxConns
      BY <1>2, <2>1, <2>2, PoolConstants
    <2>4. ASSUME NEW y \in Op(u, k) PROVE y \in GoodPools /\ P!Healthy(y) <= P!Healthy(x) + k
      <3>1. CASE P!HasRoom(u)
        <4>1. Opened(y, u)
          BY <2>2, <3>1, NewConnectionOpens
        <4>2. P!Healthy(y) <= P!Healthy(u) + 1 /\ y \in GoodPools
          BY <2>1, <2>3, <3>1, <4>1, OpenedFits
        <4>3. P!Healthy(y) \in Nat
          BY <4>2, SizesTyped DEF GoodPools
        <4> QED
          BY <1>2, <2>1, <2>2, <4>2, <4>3
      <3>2. CASE ~P!HasRoom(u)
        BY <1>2, <2>1, <2>2, <3>2
      <3> QED
        BY <3>1, <3>2
    <2> HIDE DEF Op
    <2> QED
      BY <2>1, <2>4
  <1>5. f[n] \subseteq W[n]
    <2> HIDE DEF Op
    <2>1. PICK g : IsLoop(g, n, x, H) /\ \A k \in 0 .. n : g[k] \subseteq W[k]
      <3> HIDE DEF W, H, n, f
      <3>1. RoundsKeep(n, x, H, W)
        BY <1>2, <1>3, <1>4 DEF RoundsKeep
      <3> QED
        BY <3>1, LoopExists
    <2> HIDE DEF W, H
    <2>2. g = [k \in 0 .. n |-> IF k = 0 THEN {x} ELSE UNION {Op(u, k) : u \in g[k - 1]}]
      <3> HIDE DEF n
      <3>1. g = [k \in 0 .. n |-> IF k = 0 THEN {x} ELSE UNION {H[k][u] : u \in g[k - 1]}]
        BY <2>1 DEF IsLoop
      <3>2. ASSUME NEW k \in 1 .. n
            PROVE  UNION {H[k][u] : u \in g[k - 1]} = UNION {Op(u, k) : u \in g[k - 1]}
        <4>1. k - 1 \in 0 .. n
          BY <1>2
        <4>2. \A u \in g[k - 1] : H[k][u] = Op(u, k)
          BY <1>4, <2>1, <4>1
        <4> QED
          BY <4>2
      <3>3. ASSUME NEW k \in 0 .. n
            PROVE  (IF k = 0 THEN {x} ELSE UNION {H[k][u] : u \in g[k - 1]})
                 = (IF k = 0 THEN {x} ELSE UNION {Op(u, k) : u \in g[k - 1]})
        <4>1. k = 0 \/ k \in 1 .. n
          BY <1>2
        <4> QED
          BY <3>2, <4>1
      <3> QED
        BY <3>1, <3>3
    <2>3. f = [k \in 0 .. n |-> IF k = 0 THEN {x} ELSE UNION {Op(u, k) : u \in f[k - 1]}]
      BY <2>2
    <2> HIDE DEF f, n
    <2>4. f[0] \subseteq W[0]
      <3>1. f[0] = {x}
        BY <1>2, <2>3
      <3> QED
        BY <1>3, <3>1
    <2>5. ASSUME NEW k \in 1 .. n, f[k - 1] \subseteq W[k - 1]
          PROVE  f[k] \subseteq W[k]
      <3>1. f[k] = UNION {Op(u, k) : u \in f[k - 1]}
        <4>1. k \in 0 .. n /\ k # 0
          BY <1>2
        <4> QED
          BY <2>3, <4>1
      <3>2. \A u \in f[k - 1] : Op(u, k) \subseteq W[k]
        BY <1>4, <2>5
      <3> QED
        BY <3>1, <3>2
    <2> QED
      BY <1>2, <2>4, <2>5, LoopStays
  <1>6. n \in 0 .. n
    BY <1>2
  <1> HIDE DEF f, n
  <1> QED
    BY <1>1, <1>5, <1>6

\* A loop over connections names members of the set.
LEMMA NamesOf ==
    ASSUME NEW S, IsFiniteSet(S)
    PROVE  P!SetToSeq(S) \in [1 .. P!Cardinality(S) -> S]
  <1>1. PICK q : q \in Bijection(1 .. Cardinality(S), S)
    BY FS_CardinalityType DEF ExistsBijection
  <1>2. q \in [1 .. P!Cardinality(S) -> S] /\ P!IsInjective(q)
    BY <1>1, CardinalityIs DEF Bijection, Injection, IsInjective, P!IsInjective
  <1> QED
    BY <1>2 DEF P!SetToSeq

\* grow_for_queue()
LEMMA GrowFits ==
    ASSUME NEW x \in GoodPools, NEW demand
    PROVE  P!Grow(x, demand) \subseteq GoodPools
  <1> DEFINE n == MaxConns
             Op(u, k) == IF /\ ~u.growthPaused /\ P!HasRoom(u)
                            /\ P!Healthy(u) < MaxConns /\ P!Connecting(u) < demand
                         THEN P!NewConnection(u, "growth") ELSE {u}
             W == [k \in 0 .. n |-> GoodPools]
             H == [k \in 1 .. n |-> [u \in GoodPools |-> Op(u, k)]]
             f == CHOOSE f : f = [k \in 0 .. n |->
                                    IF k = 0 THEN {x} ELSE UNION {Op(u, k) : u \in f[k - 1]}]
  <1>1. P!Grow(x, demand) \in {{x}, f[n]}
    BY DEF P!Grow, P!Rounds, P!Each
  <1>2. n \in Nat
    BY PoolConstants
  <1>3. ASSUME NEW k \in 1 .. n, NEW u \in GoodPools PROVE Op(u, k) \subseteq GoodPools
    <2>1. u \in Pools
      BY DEF GoodPools
    <2>2. CASE P!HasRoom(u) /\ P!Healthy(u) < MaxConns
      <3>1. \A y \in P!NewConnection(u, "growth") : y \in GoodPools
        BY <2>1, <2>2, NewConnectionOpens, OpenedFits
      <3> QED
        BY <3>1
    <2> QED
      BY <2>2
  <1> HIDE DEF Op
  <1>4. PICK g : IsLoop(g, n, x, H) /\ \A k \in 0 .. n : g[k] \subseteq GoodPools
    <2>1. RoundsKeep(n, x, H, W)
      BY <1>2, <1>3 DEF RoundsKeep
    <2>2. \A k \in 0 .. n : W[k] = GoodPools
      OBVIOUS
    <2> HIDE DEF W, H, n, f
    <2> QED
      BY <2>1, <2>2, LoopExists
  <1>5. \A k \in 1 .. n : \A u \in GoodPools : H[k][u] = Op(u, k)
    OBVIOUS
  <1> HIDE DEF H, n
  <1>6. g = [k \in 0 .. n |-> IF k = 0 THEN {x} ELSE UNION {Op(u, k) : u \in g[k - 1]}]
    <2>1. ASSUME NEW k \in 0 .. n
          PROVE  (IF k = 0 THEN {x} ELSE UNION {H[k][u] : u \in g[k - 1]})
               = (IF k = 0 THEN {x} ELSE UNION {Op(u, k) : u \in g[k - 1]})
      <3>1. k = 0 \/ (k \in 1 .. n /\ k - 1 \in 0 .. n)
        BY <1>2
      <3>2. k \in 1 .. n => \A u \in g[k - 1] : H[k][u] = Op(u, k)
        BY <1>4, <1>5, <3>1
      <3> QED
        BY <3>1, <3>2
    <2>2. g = [k \in 0 .. n |-> IF k = 0 THEN {x} ELSE UNION {H[k][u] : u \in g[k - 1]}]
      BY <1>4 DEF IsLoop
    <2> QED
      BY <2>1, <2>2
  <1>7. f = [k \in 0 .. n |-> IF k = 0 THEN {x} ELSE UNION {Op(u, k) : u \in f[k - 1]}]
    BY <1>6
  <1> HIDE DEF f, W
  <1>8. f[n] \subseteq GoodPools
    <2>1. f[0] = {x} /\ \A k \in 1 .. n : f[k] = UNION {Op(u, k) : u \in f[k - 1]}
      <3>1. 0 \in 0 .. n /\ \A k \in 1 .. n : k \in 0 .. n /\ k # 0
        BY <1>2
      <3> QED
        BY <1>7, <3>1
    <2>2. W[0] = GoodPools /\ \A k \in 1 .. n : W[k] = GoodPools /\ W[k - 1] = GoodPools
      BY <1>2 DEF W
    <2>3. f[0] \subseteq W[0]
      BY <2>1, <2>2
    <2>4. \A k \in 1 .. n : f[k - 1] \subseteq W[k - 1] => f[k] \subseteq W[k]
      BY <1>3, <2>1, <2>2
    <2>5. f[n] \subseteq W[n]
      BY <1>2, <2>3, <2>4, LoopStays
    <2> QED
      BY <1>2, <2>5 DEF W
  <1> QED
    BY <1>1, <1>8

LEMMA ReplaceFits ==
    ASSUME NEW x \in GoodPools, NEW c \in Conn
    PROVE  P!Replace(x, c) \subseteq GoodPools
  BY RemovalFits, EnsureMinFits DEF P!Replace

LEMMA LoseFits ==
    ASSUME NEW x \in GoodPools, NEW c \in Conn, x.st[c] \in Live
    PROVE  P!Lose(x, c) \subseteq GoodPools
  <1>1. ASSUME NEW u \in P!TryReconnect(x, c)
        PROVE  (IF u.st[c] = "Error" THEN P!Replace(u, c) ELSE {u}) \subseteq GoodPools
    <2>1. u \in GoodPools
      BY ReconnectFits
    <2> QED
      BY <2>1, ReplaceFits
  <1>2. P!Lose(x, c) = UNION {IF u.st[c] = "Error" THEN P!Replace(u, c) ELSE {u} :
                              u \in P!TryReconnect(x, c)}
    BY DEF P!Lose, P!Each
  <1> QED
    BY <1>1, <1>2

-----------------------------------------------------------------------------
(* Retirement: the successor is the one that was opened, and it is not the *)
(* one being retired.                                                      *)

LEMMA RetirementFits ==
    ASSUME NEW x \in GoodPools, NEW c \in Conn
    PROVE  P!StartRetirement(x, c) \subseteq GoodPools
  <1>0. x \in Pools /\ Paired(x) /\ InSize(x) /\ NoConn \notin Conn
    BY PoolConstants DEF GoodPools
  <1>1. CASE ~P!MayRetire(x, c)
    BY <1>1 DEF P!StartRetirement
  <1>2. CASE P!MayRetire(x, c)
    <2>1. x.retiring = NoConn /\ x.st[c] = "Ready" /\ P!HasRoom(x)
      BY <1>2 DEF P!MayRetire
    <2>2. ~Both(x) /\ P!Healthy(x) <= MaxConns
      BY <1>0, <2>1, SizesTyped, PoolConstants DEF Both, InSize
    <2> DEFINE opened(u) == P!At(u, {"Connecting"}) \ P!At(x, {"Connecting"})
               after(u) == IF opened(u) = {} THEN [u EXCEPT !.retirePaused = TRUE]
                           ELSE [u EXCEPT !.retiring = c, !.up = FALSE,
                                          !.successor = CHOOSE n \in opened(u) : TRUE]
    <2>3. P!StartRetirement(x, c) = {after(u) : u \in P!NewConnection(x, "successor")}
      BY <1>2 DEF P!StartRetirement
    <2>4. ASSUME NEW u \in P!NewConnection(x, "successor") PROVE after(u) \in GoodPools
      <3>1. Opened(u, x)
        BY <1>0, <2>1, NewConnectionOpens
      <3>2. /\ u \in Pools /\ Paired(u)
            /\ P!Healthy(u) <= MaxConns + 1 /\ P!Size(u) <= MaxConns + MinConns
        <4>1. u \in Pools
          BY <3>1 DEF Opened
        <4>2. /\ P!Healthy(u) <= P!Healthy(x) + 1 /\ P!Size(u) <= MaxConns + MinConns
              /\ Paired(u)
          BY <2>1, <3>1, OpenedFits
        <4> QED
          BY <1>0, <2>2, <4>1, <4>2, SizesTyped, PoolConstants
      <3>3. u.st[c] = "Ready" /\ u.retiring = NoConn
        BY <1>0, <2>1, <3>1 DEF Opened, Pools
      <3>4. CASE opened(u) = {}
        <4>1. u.st = x.st
          <5>1. ASSUME NEW d \in Conn, x.st[d] = "none", u.st = [x.st EXCEPT ![d] = "Connecting"]
                PROVE  d \in opened(u)
            BY <1>0, <5>1 DEF P!At, Pools
          <5> QED
            BY <3>1, <3>4, <5>1 DEF Opened
        <4>2. Alike(u, x)
          BY <3>1, <4>1 DEF Alike, Opened
        <4>3. u \in GoodPools
          BY <1>0, <3>2, <4>2, AlikeSizes
        <4>4. [u EXCEPT !.retirePaused = TRUE] \in Pools
              /\ Alike([u EXCEPT !.retirePaused = TRUE], u)
          BY <3>2 DEF Pools, Alike
        <4>5. [u EXCEPT !.retirePaused = TRUE] \in GoodPools
          BY <3>2, <4>3, <4>4, AlikeSizes
        <4> QED
          BY <3>4, <4>5
      <3>5. CASE opened(u) # {}
        <4> DEFINE s == CHOOSE n \in opened(u) : TRUE
                   y == [u EXCEPT !.retiring = c, !.up = FALSE, !.successor = s]
        <4>1. s \in opened(u)
          BY <3>5
        <4>2. s \in Conn /\ u.st[s] = "Connecting" /\ s # c
          BY <3>3, <4>1 DEF P!At
        <4> HIDE DEF s
        <4>3. /\ y \in Pools /\ y.st = u.st /\ y.retiring = c /\ y.successor = s
          BY <3>2, <4>2 DEF Pools
        <4> HIDE DEF y
        <4>4. P!Size(y) = P!Size(u) /\ P!Healthy(y) = P!Healthy(u)
          BY <4>3 DEF P!Size, P!Healthy, P!At
        <4>5. Both(y) /\ Paired(y)
          BY <1>0, <3>3, <4>2, <4>3 DEF Both, Paired, Live
        <4>6. y \in GoodPools
          BY <3>2, <4>3, <4>4, <4>5 DEF GoodPools, InSize
        <4>7. after(u) = y
          BY <3>5 DEF y, s
        <4> QED
          BY <4>6, <4>7
      <3> QED
        BY <3>4, <3>5
    <2> HIDE DEF after
    <2> QED
      BY <2>3, <2>4
  <1> QED
    BY <1>1, <1>2

LEMMA FinishFits == ASSUME NEW x \in GoodPools PROVE P!FinishRetirement(x) \in GoodPools
  <1>1. P!Finishes(x) => x.retiring \in Conn
    BY DEF P!Finishes, GoodPools, Pools
  <1> QED
    BY <1>1, RemovalFits DEF P!FinishRetirement

-----------------------------------------------------------------------------
(* Queries.                                                                *)

LEMMA SendFits ==
    ASSUME NEW x \in GoodPools, NEW c \in Conn, x.st[c] = "Ready"
    PROVE  P!Send(x, c) \in GoodPools
  <1>0. x \in Pools /\ x.st[c] \in Live /\ "Busy" \in Counted
    BY DEF GoodPools, Live, Counted
  <1> DEFINE s == [x.st EXCEPT ![c] = "Busy"]
             y == [x EXCEPT !.st = s, !.idle = @ \ {c}]
  <1>1. s \in [Conn -> PoolStates] /\ x.idle \ {c} \in SUBSET Conn
    BY <1>0 DEF Pools, PoolStates
  <1>2. P!Send(x, c) = y
    BY DEF P!Send
  <1> HIDE DEF s
  <1>3. y \in Pools /\ y.st = s /\ y.retiring = x.retiring /\ y.successor = x.successor
    BY <1>0, <1>1 DEF Pools
  <1> HIDE DEF y
  <1> QED
    BY <1>0, <1>2, <1>3, StaysFits DEF s

LEMMA FaultFits == ASSUME NEW x \in GoodPools PROVE P!Fault(x) \in GoodPools
  BY PoolFault, AlikeSizes DEF GoodPools

LEMMA QueuedFits ==
    ASSUME NEW x \in GoodPools, NEW n \in Nat, NEW m \in Nat
    PROVE  [x EXCEPT !.queued = n] \in GoodPools /\ [x EXCEPT !.asked = m] \in GoodPools
  <1>1. x \in Pools
    BY DEF GoodPools
  <1>2. /\ [x EXCEPT !.queued = n] \in Pools /\ Alike([x EXCEPT !.queued = n], x)
        /\ [x EXCEPT !.asked = m] \in Pools /\ Alike([x EXCEPT !.asked = m], x)
    BY <1>1 DEF Pools, Alike
  <1> QED
    BY <1>1, <1>2, AlikeSizes

LEMMA AskedFits == ASSUME NEW S, S \subseteq GoodPools PROVE P!Asked(S) \subseteq GoodPools
  <1>1. ASSUME NEW x \in S PROVE [x EXCEPT !.asked = @ + 1] \in GoodPools
    <2>1. x \in GoodPools /\ x.asked + 1 \in Nat /\ 0 \in Nat
      BY DEF GoodPools, Pools
    <2>2. [x EXCEPT !.asked = x.asked + 1] \in GoodPools
      BY <2>1, QueuedFits
    <2> QED
      BY <2>2
  <1> QED
    BY <1>1 DEF P!Asked

LEMMA DispatchFits ==
    ASSUME NEW x \in GoodPools, NEW c \in Conn
    PROVE  P!Dispatch(x, c) \subseteq GoodPools
  <1>1. CASE x.queued = 0 \/ x.st[c] # "Ready"
    BY <1>1 DEF P!Dispatch
  <1>2. CASE x.queued # 0 /\ x.st[c] = "Ready"
    <2>1. P!Send(x, c) \in GoodPools
      BY <1>2, SendFits
    <2>2. [P!Send(x, c) EXCEPT !.queued = @ - 1] \in GoodPools
      <3> DEFINE y == P!Send(x, c)
      <3>1. y.queued = x.queued /\ x.queued \in Nat
        BY DEF P!Send, GoodPools, Pools
      <3>2. y.queued - 1 \in Nat /\ 0 \in Nat
        BY <1>2, <3>1
      <3>3. y \in GoodPools
        BY <2>1
      <3> HIDE DEF y
      <3>4. [y EXCEPT !.queued = y.queued - 1] \in GoodPools
        BY <3>2, <3>3, QueuedFits
      <3>5. [y EXCEPT !.queued = @ - 1] \in GoodPools
        BY <3>4
      <3> QED
        BY <3>5 DEF y
    <2>3. P!TryReconnect(P!Fault(x), c) \subseteq GoodPools
      <3>1. P!Fault(x) \in GoodPools /\ P!Fault(x).st = x.st
        BY FaultFits, PoolFault DEF Alike, GoodPools
      <3> QED
        BY <1>2, <3>1, ReconnectFits DEF Live
    <2> QED
      BY <1>2, <2>2, <2>3 DEF P!Dispatch
  <1> QED
    BY <1>1, <1>2

LEMMA ReadyFinite == \A x, A : P!At(x, A) \subseteq Conn /\ IsFiniteSet(P!At(x, A))
  BY PoolConstants, FS_Subset DEF P!At

\* A connection of the set at a time, each given its query.
LEMMA DispatchAllFits ==
    ASSUME NEW x \in GoodPools
    PROVE  P!DispatchAll(x) \subseteq GoodPools
  <1> DEFINE S == P!At(x, {"Ready"})
  <1>0. IsFiniteSet(S) /\ S \subseteq Conn
    BY ReadyFinite
  <1>q. P!SetToSeq(S) \in [1 .. P!Cardinality(S) -> S]
    BY <1>0, NamesOf
  <1> HIDE DEF S
  <1> DEFINE n == P!Cardinality(S)
             Op(u, k) == P!Dispatch(u, P!SetToSeq(S)[k])
             W == [k \in 0 .. n |-> GoodPools]
             H == [k \in 1 .. n |-> [u \in GoodPools |-> Op(u, k)]]
             f == CHOOSE f : f = [k \in 0 .. n |->
                                    IF k = 0 THEN {x} ELSE UNION {Op(u, k) : u \in f[k - 1]}]
  <1>1. P!DispatchAll(x) = f[n]
    BY DEF P!DispatchAll, P!ForEach, P!Rounds, P!Each, S
  <1>2. n \in Nat
    BY <1>0, CardinalityIs, FS_CardinalityType
  <1>3. ASSUME NEW k \in 1 .. n, NEW u \in GoodPools PROVE Op(u, k) \subseteq GoodPools
    <2>1. P!SetToSeq(S)[k] \in Conn
      BY <1>0, <1>q
    <2> QED
      BY <2>1, DispatchFits
  <1> HIDE DEF Op
  <1>4. PICK g : IsLoop(g, n, x, H) /\ \A k \in 0 .. n : g[k] \subseteq GoodPools
    <2>1. RoundsKeep(n, x, H, W)
      BY <1>2, <1>3 DEF RoundsKeep
    <2>2. \A k \in 0 .. n : W[k] = GoodPools
      OBVIOUS
    <2> HIDE DEF W, H, n, f
    <2> QED
      BY <2>1, <2>2, LoopExists
  <1>5. \A k \in 1 .. n : \A u \in GoodPools : H[k][u] = Op(u, k)
    OBVIOUS
  <1> HIDE DEF H, n
  <1>6. g = [k \in 0 .. n |-> IF k = 0 THEN {x} ELSE UNION {Op(u, k) : u \in g[k - 1]}]
    <2>1. ASSUME NEW k \in 0 .. n
          PROVE  (IF k = 0 THEN {x} ELSE UNION {H[k][u] : u \in g[k - 1]})
               = (IF k = 0 THEN {x} ELSE UNION {Op(u, k) : u \in g[k - 1]})
      <3>1. k = 0 \/ (k \in 1 .. n /\ k - 1 \in 0 .. n)
        BY <1>2
      <3>2. k \in 1 .. n => \A u \in g[k - 1] : H[k][u] = Op(u, k)
        BY <1>4, <1>5, <3>1
      <3> QED
        BY <3>1, <3>2
    <2>2. g = [k \in 0 .. n |-> IF k = 0 THEN {x} ELSE UNION {H[k][u] : u \in g[k - 1]}]
      BY <1>4 DEF IsLoop
    <2> QED
      BY <2>1, <2>2
  <1>7. f = [k \in 0 .. n |-> IF k = 0 THEN {x} ELSE UNION {Op(u, k) : u \in f[k - 1]}]
    BY <1>6
  <1> HIDE DEF f, W
  <1>8. f[n] \subseteq GoodPools
    <2>1. f[0] = {x} /\ \A k \in 1 .. n : f[k] = UNION {Op(u, k) : u \in f[k - 1]}
      <3>1. 0 \in 0 .. n /\ \A k \in 1 .. n : k \in 0 .. n /\ k # 0
        BY <1>2
      <3> QED
        BY <1>7, <3>1
    <2>2. W[0] = GoodPools /\ \A k \in 1 .. n : W[k] = GoodPools /\ W[k - 1] = GoodPools
      BY <1>2 DEF W
    <2>3. f[0] \subseteq W[0]
      BY <2>1, <2>2
    <2>4. \A k \in 1 .. n : f[k - 1] \subseteq W[k - 1] => f[k] \subseteq W[k]
      BY <1>3, <2>1, <2>2
    <2>5. f[n] \subseteq W[n]
      BY <1>2, <2>3, <2>4, LoopStays
    <2> QED
      BY <1>2, <2>5 DEF W
  <1> QED
    BY <1>1, <1>8

LEMMA QueueFits == ASSUME NEW x \in GoodPools PROVE P!Queue(x) \subseteq GoodPools
  <1> DEFINE V == P!Each(P!EnsureMin(x), LAMBDA u : P!Grow(u, x.queued + 1))
  <1>1. V \subseteq GoodPools
    <2>1. V = UNION {P!Grow(u, x.queued + 1) : u \in P!EnsureMin(x)}
      BY DEF P!Each
    <2>2. \A u \in P!EnsureMin(x) : P!Grow(u, x.queued + 1) \subseteq GoodPools
      BY EnsureMinFits, GrowFits
    <2> HIDE DEF V
    <2> QED
      BY <2>1, <2>2
  <1>2. P!Queue(x) = {[v EXCEPT !.queued = @ + 1] : v \in V}
    BY DEF P!Queue
  <1> HIDE DEF V
  <1>3. ASSUME NEW v \in V PROVE [v EXCEPT !.queued = @ + 1] \in GoodPools
    <2>1. v \in GoodPools /\ v.queued + 1 \in Nat /\ 0 \in Nat
      BY <1>1 DEF GoodPools, Pools
    <2>2. [v EXCEPT !.queued = v.queued + 1] \in GoodPools
      BY <2>1, QueuedFits
    <2> QED
      BY <2>2
  <1> QED
    BY <1>2, <1>3

LEMMA BestReady ==
    ASSUME NEW x, NEW c \in P!Best(x)
    PROVE  c \in Conn /\ x.st[c] = "Ready"
  BY DEF P!Best, P!At

LEMMA ExecuteFits == ASSUME NEW x \in GoodPools PROVE P!Execute(x) \subseteq GoodPools
  <1> DEFINE sent(u) == IF P!Best(u) = {} THEN P!Queue(u) ELSE {P!Send(u, c) : c \in P!Best(u)}
             broken(c) == IF P!MayFail(x)
                          THEN UNION {sent(u) : u \in P!TryReconnect(P!Fault(x), c)} ELSE {}
  <1>1. P!Execute(x) = sent(x) \cup UNION {broken(c) : c \in P!Best(x)}
    BY DEF P!Execute, P!Each
  <1>2. ASSUME NEW u \in GoodPools PROVE sent(u) \subseteq GoodPools
    <2>1. \A c \in P!Best(u) : P!Send(u, c) \in GoodPools
      BY BestReady, SendFits
    <2> QED
      BY <2>1, QueueFits
  <1> HIDE DEF sent
  <1>3. ASSUME NEW c \in P!Best(x) PROVE broken(c) \subseteq GoodPools
    <2>1. c \in Conn /\ x.st[c] = "Ready"
      BY BestReady
    <2>2. P!Fault(x) \in GoodPools /\ P!Fault(x).st = x.st
      BY FaultFits, PoolFault DEF Alike, GoodPools
    <2>3. P!TryReconnect(P!Fault(x), c) \subseteq GoodPools
      BY <2>1, <2>2, ReconnectFits DEF Live
    <2> QED
      BY <1>2, <2>3
  <1> HIDE DEF broken
  <1> QED
    BY <1>1, <1>2, <1>3

\* A connection of the set at a time, each replaced.
LEMMA ReplaceErrorsFits ==
    ASSUME NEW x \in GoodPools
    PROVE  P!ReplaceErrors(x) \subseteq GoodPools
  <1> DEFINE S == P!At(x, {"Error"})
  <1>0. IsFiniteSet(S) /\ S \subseteq Conn
    BY ReadyFinite
  <1>q. P!SetToSeq(S) \in [1 .. P!Cardinality(S) -> S]
    BY <1>0, NamesOf
  <1> HIDE DEF S
  <1> DEFINE n == P!Cardinality(S)
             Op(u, k) == P!Replace(u, P!SetToSeq(S)[k])
             W == [k \in 0 .. n |-> GoodPools]
             H == [k \in 1 .. n |-> [u \in GoodPools |-> Op(u, k)]]
             f == CHOOSE f : f = [k \in 0 .. n |->
                                    IF k = 0 THEN {x} ELSE UNION {Op(u, k) : u \in f[k - 1]}]
  <1>1. P!ReplaceErrors(x) = f[n]
    BY DEF P!ReplaceErrors, P!ForEach, P!Rounds, P!Each, S
  <1>2. n \in Nat
    BY <1>0, CardinalityIs, FS_CardinalityType
  <1>3. ASSUME NEW k \in 1 .. n, NEW u \in GoodPools PROVE Op(u, k) \subseteq GoodPools
    <2>1. P!SetToSeq(S)[k] \in Conn
      BY <1>0, <1>q
    <2> QED
      BY <2>1, ReplaceFits
  <1> HIDE DEF Op
  <1>4. PICK g : IsLoop(g, n, x, H) /\ \A k \in 0 .. n : g[k] \subseteq GoodPools
    <2>1. RoundsKeep(n, x, H, W)
      BY <1>2, <1>3 DEF RoundsKeep
    <2>2. \A k \in 0 .. n : W[k] = GoodPools
      OBVIOUS
    <2> HIDE DEF W, H, n, f
    <2> QED
      BY <2>1, <2>2, LoopExists
  <1>5. \A k \in 1 .. n : \A u \in GoodPools : H[k][u] = Op(u, k)
    OBVIOUS
  <1> HIDE DEF H, n
  <1>6. g = [k \in 0 .. n |-> IF k = 0 THEN {x} ELSE UNION {Op(u, k) : u \in g[k - 1]}]
    <2>1. ASSUME NEW k \in 0 .. n
          PROVE  (IF k = 0 THEN {x} ELSE UNION {H[k][u] : u \in g[k - 1]})
               = (IF k = 0 THEN {x} ELSE UNION {Op(u, k) : u \in g[k - 1]})
      <3>1. k = 0 \/ (k \in 1 .. n /\ k - 1 \in 0 .. n)
        BY <1>2
      <3>2. k \in 1 .. n => \A u \in g[k - 1] : H[k][u] = Op(u, k)
        BY <1>4, <1>5, <3>1
      <3> QED
        BY <3>1, <3>2
    <2>2. g = [k \in 0 .. n |-> IF k = 0 THEN {x} ELSE UNION {H[k][u] : u \in g[k - 1]}]
      BY <1>4 DEF IsLoop
    <2> QED
      BY <2>1, <2>2
  <1>7. f = [k \in 0 .. n |-> IF k = 0 THEN {x} ELSE UNION {Op(u, k) : u \in f[k - 1]}]
    BY <1>6
  <1> HIDE DEF f, W
  <1>8. f[n] \subseteq GoodPools
    <2>1. f[0] = {x} /\ \A k \in 1 .. n : f[k] = UNION {Op(u, k) : u \in f[k - 1]}
      <3>1. 0 \in 0 .. n /\ \A k \in 1 .. n : k \in 0 .. n /\ k # 0
        BY <1>2
      <3> QED
        BY <1>7, <3>1
    <2>2. W[0] = GoodPools /\ \A k \in 1 .. n : W[k] = GoodPools /\ W[k - 1] = GoodPools
      BY <1>2 DEF W
    <2>3. f[0] \subseteq W[0]
      BY <2>1, <2>2
    <2>4. \A k \in 1 .. n : f[k - 1] \subseteq W[k - 1] => f[k] \subseteq W[k]
      BY <1>3, <2>1, <2>2
    <2>5. f[n] \subseteq W[n]
      BY <1>2, <2>3, <2>4, LoopStays
    <2> QED
      BY <1>2, <2>5 DEF W
  <1> QED
    BY <1>1, <1>8

\* Idle connections closed, one after the other.
LEMMA RemovalsFit ==
    ASSUME NEW x \in GoodPools, NEW S \in SUBSET Conn
    PROVE  P!ForEach(x, S, LAMBDA u, c : {P!RemoveConnection(u, c)}) \subseteq GoodPools
  <1>0. IsFiniteSet(S)
    BY PoolConstants, FS_Subset
  <1>q. P!SetToSeq(S) \in [1 .. P!Cardinality(S) -> S]
    BY <1>0, NamesOf
  <1> DEFINE n == P!Cardinality(S)
             Op(u, k) == {P!RemoveConnection(u, P!SetToSeq(S)[k])}
             W == [k \in 0 .. n |-> GoodPools]
             H == [k \in 1 .. n |-> [u \in GoodPools |-> Op(u, k)]]
             f == CHOOSE f : f = [k \in 0 .. n |->
                                    IF k = 0 THEN {x} ELSE UNION {Op(u, k) : u \in f[k - 1]}]
  <1>1. P!ForEach(x, S, LAMBDA u, c : {P!RemoveConnection(u, c)}) = f[n]
    BY DEF P!ForEach, P!Rounds, P!Each
  <1>2. n \in Nat
    BY <1>0, CardinalityIs, FS_CardinalityType
  <1>3. ASSUME NEW k \in 1 .. n, NEW u \in GoodPools PROVE Op(u, k) \subseteq GoodPools
    <2>1. P!SetToSeq(S)[k] \in Conn
      BY <1>0, <1>q
    <2> QED
      BY <2>1, RemovalFits
  <1> HIDE DEF Op
  <1>4. PICK g : IsLoop(g, n, x, H) /\ \A k \in 0 .. n : g[k] \subseteq GoodPools
    <2>1. RoundsKeep(n, x, H, W)
      BY <1>2, <1>3 DEF RoundsKeep
    <2>2. \A k \in 0 .. n : W[k] = GoodPools
      OBVIOUS
    <2> HIDE DEF W, H, n, f
    <2> QED
      BY <2>1, <2>2, LoopExists
  <1>5. \A k \in 1 .. n : \A u \in GoodPools : H[k][u] = Op(u, k)
    OBVIOUS
  <1> HIDE DEF H, n
  <1>6. g = [k \in 0 .. n |-> IF k = 0 THEN {x} ELSE UNION {Op(u, k) : u \in g[k - 1]}]
    <2>1. ASSUME NEW k \in 0 .. n
          PROVE  (IF k = 0 THEN {x} ELSE UNION {H[k][u] : u \in g[k - 1]})
               = (IF k = 0 THEN {x} ELSE UNION {Op(u, k) : u \in g[k - 1]})
      <3>1. k = 0 \/ (k \in 1 .. n /\ k - 1 \in 0 .. n)
        BY <1>2
      <3>2. k \in 1 .. n => \A u \in g[k - 1] : H[k][u] = Op(u, k)
        BY <1>4, <1>5, <3>1
      <3> QED
        BY <3>1, <3>2
    <2>2. g = [k \in 0 .. n |-> IF k = 0 THEN {x} ELSE UNION {H[k][u] : u \in g[k - 1]}]
      BY <1>4 DEF IsLoop
    <2> QED
      BY <2>1, <2>2
  <1>7. f = [k \in 0 .. n |-> IF k = 0 THEN {x} ELSE UNION {Op(u, k) : u \in f[k - 1]}]
    BY <1>6
  <1> HIDE DEF f, W
  <1>8. f[n] \subseteq GoodPools
    <2>1. f[0] = {x} /\ \A k \in 1 .. n : f[k] = UNION {Op(u, k) : u \in f[k - 1]}
      <3>1. 0 \in 0 .. n /\ \A k \in 1 .. n : k \in 0 .. n /\ k # 0
        BY <1>2
      <3> QED
        BY <1>7, <3>1
    <2>2. W[0] = GoodPools /\ \A k \in 1 .. n : W[k] = GoodPools /\ W[k - 1] = GoodPools
      BY <1>2 DEF W
    <2>3. f[0] \subseteq W[0]
      BY <2>1, <2>2
    <2>4. \A k \in 1 .. n : f[k - 1] \subseteq W[k - 1] => f[k] \subseteq W[k]
      BY <1>3, <2>1, <2>2
    <2>5. f[n] \subseteq W[n]
      BY <1>2, <2>3, <2>4, LoopStays
    <2> QED
      BY <1>2, <2>5 DEF W
  <1> QED
    BY <1>1, <1>8

LEMMA CloseIdleFits == ASSUME NEW x \in GoodPools PROVE P!CloseIdle(x) \subseteq GoodPools
  <1> DEFINE idle == {c \in x.idle : x.st[c] = "Ready" /\ x.block[c] = "none"}
             above == IF P!Healthy(x) > MinConns THEN P!Healthy(x) - MinConns ELSE 0
             n == IF P!Cardinality(idle) < above THEN P!Cardinality(idle) ELSE above
             closed(S) == P!ForEach(x, S, LAMBDA u, c : {P!RemoveConnection(u, c)})
  <1>1. P!CloseIdle(x) = IF x.queued > 0 \/ x.retiring # NoConn THEN {x}
                         ELSE UNION {closed(S) : S \in P!kSubset(n, idle)}
    BY DEF P!CloseIdle, P!Each
  <1>2. idle \subseteq Conn
    BY DEF GoodPools, Pools
  <1> HIDE DEF idle, n
  <1>3. \A S \in P!kSubset(n, idle) : S \in SUBSET Conn
    BY <1>2 DEF P!kSubset
  <1>4. \A S \in SUBSET Conn : closed(S) \subseteq GoodPools
    BY RemovalsFit
  <1> HIDE DEF closed
  <1> QED
    BY <1>1, <1>3, <1>4

LEMMA LifetimeFits == ASSUME NEW x \in GoodPools PROVE P!Lifetime(x) \subseteq GoodPools
  <1> DEFINE u == P!FinishRetirement(x)
  <1>1. u \in GoodPools
    BY FinishFits
  <1>2. P!Lifetime(x) = IF u.retiring # NoConn \/ u.old = {} THEN {u}
                        ELSE UNION {P!StartRetirement(u, c) : c \in u.old}
    BY DEF P!Lifetime
  <1> HIDE DEF u
  <1>3. u.old \subseteq Conn
    BY <1>1 DEF GoodPools, Pools
  <1>4. \A c \in u.old : P!StartRetirement(u, c) \subseteq GoodPools
    BY <1>1, <1>3, RetirementFits
  <1> QED
    BY <1>1, <1>2, <1>4

LEMMA AfterQueryFits ==
    ASSUME NEW x \in GoodPools, NEW c \in Conn
    PROVE  P!AfterQuery(x, c) \subseteq GoodPools
  <1>1. UNION {P!Dispatch(u, c) : u \in P!StartRetirement(x, c)} \subseteq GoodPools
    <2>1. \A u \in P!StartRetirement(x, c) : P!Dispatch(u, c) \subseteq GoodPools
      BY RetirementFits, DispatchFits
    <2> QED
      BY <2>1
  <1>2. P!DispatchAll(P!FinishRetirement(x)) \subseteq GoodPools
    BY FinishFits, DispatchAllFits
  <1> QED
    BY <1>1, <1>2, DispatchFits DEF P!AfterQuery, P!Each

-----------------------------------------------------------------------------
(* The steps.                                                              *)

PoolInv == ps \in GoodPools

LEMMA AlikeFits ==
    ASSUME NEW x \in GoodPools, NEW y \in Pools, Alike(y, x)
    PROVE  y \in GoodPools
  BY AlikeSizes DEF GoodPools

LEMMA ConnectOkFits == ASSUME PoolInv, NEW c \in Conn, P!ConnectOk(c) PROVE PoolInv'
  <1> DEFINE s == [ps.st EXCEPT ![c] = "Ready"]
             p == ps.up \/ c = ps.successor
             u == [ps EXCEPT !.st = s, !.old = @ \ {c}, !.fresh = @ \ {c}, !.failing = FALSE,
                             !.backoff = FALSE, !.up = p]
  <1>1. /\ ps \in GoodPools /\ ps \in Pools /\ ps.st[c] \in Live
        /\ ps' \in P!Dispatch(P!FinishRetirement(u), c)
    BY DEF PoolInv, GoodPools, P!ConnectOk, Live
  <1>2. /\ s \in [Conn -> PoolStates] /\ p \in BOOLEAN
        /\ ps.old \ {c} \in SUBSET Conn /\ ps.fresh \ {c} \in SUBSET Conn
    BY <1>1 DEF Pools, PoolStates
  <1> HIDE DEF s, p
  <1>3. u \in Pools /\ u.st = s /\ u.retiring = ps.retiring /\ u.successor = ps.successor
    BY <1>1, <1>2 DEF Pools
  <1> HIDE DEF u
  <1>4. u \in GoodPools
    BY <1>1, <1>3, StaysFits DEF s, Counted
  <1>5. P!FinishRetirement(u) \in GoodPools
    BY <1>4, FinishFits
  <1> QED
    BY <1>1, <1>5, DispatchFits DEF PoolInv

LEMMA ConnectFailsFits == ASSUME PoolInv, NEW c \in Conn, P!ConnectFails(c) PROVE PoolInv'
  <1> DEFINE b == c \in ps.fresh
             u == P!ConnectFailure(ps, ps.round[c], b)
  <1>1. ps \in GoodPools /\ ps \in Pools /\ ps' \in P!Replace(P!Fault(u), c)
    BY DEF PoolInv, GoodPools, P!ConnectFails
  <1>2. b \in BOOLEAN
    OBVIOUS
  <1> HIDE DEF b
  <1>3. u \in Pools /\ Alike(u, ps)
    BY <1>1, <1>2, PoolFailure
  <1> HIDE DEF u
  <1>4. P!Fault(u) \in GoodPools
    BY <1>1, <1>3, AlikeFits, FaultFits
  <1> QED
    BY <1>1, <1>4, ReplaceFits DEF PoolInv

LEMMA QueryDoneFits ==
    ASSUME PoolInv, NEW c \in Conn, NEW block \in {"none", "open", "aborted"},
           NEW again \in BOOLEAN, P!QueryDone(c, block, again)
    PROVE  PoolInv'
  <1> DEFINE s == [ps.st EXCEPT ![c] = "Ready"]
             b == [ps.block EXCEPT ![c] = block]
             u == [ps EXCEPT !.st = s, !.block = b]
             started == IF c = u.retiring THEN {u} ELSE P!StartRetirement(u, c)
             handled == IF again THEN UNION {P!Asked(P!Execute(v)) : v \in started} ELSE started
  <1>1. /\ ps \in GoodPools /\ ps \in Pools /\ ps.st[c] \in Live
        /\ ps' \in UNION {P!AfterQuery(v, c) : v \in handled}
    BY DEF PoolInv, GoodPools, P!QueryDone, Live, P!Each
  <1>2. s \in [Conn -> PoolStates] /\ b \in [Conn -> {"none", "open", "aborted"}]
    BY <1>1 DEF Pools, PoolStates
  <1> HIDE DEF handled, started
  <1> HIDE DEF s, b
  <1>3. u \in Pools /\ u.st = s /\ u.retiring = ps.retiring /\ u.successor = ps.successor
    BY <1>1, <1>2 DEF Pools
  <1> HIDE DEF u
  <1>4. u \in GoodPools
    BY <1>1, <1>3, StaysFits DEF s, Counted
  <1>5. started \subseteq GoodPools
    BY <1>4, RetirementFits DEF started
  <1>6. handled \subseteq GoodPools
    <2>1. \A v \in started : P!Asked(P!Execute(v)) \subseteq GoodPools
      BY <1>5, ExecuteFits, AskedFits
    <2> QED
      BY <1>5, <2>1 DEF handled
  <1> QED
    BY <1>1, <1>6, AfterQueryFits DEF PoolInv

LEMMA ConnectionLostFits ==
    ASSUME PoolInv, NEW c \in Conn, NEW requeued \in BOOLEAN, P!ConnectionLost(c, requeued)
    PROVE  PoolInv'
  <1> DEFINE x == P!Fault(ps)
             n == IF requeued THEN x.queued + 1 ELSE x.queued
             y == [x EXCEPT !.queued = n]
  <1>1. ps \in GoodPools /\ ps.st[c] \in Live /\ ps' \in P!Lose(y, c)
    BY DEF PoolInv, P!ConnectionLost, Live
  <1>2. x \in GoodPools /\ x.st = ps.st
    BY <1>1, FaultFits, PoolFault DEF Alike, GoodPools
  <1> HIDE DEF x
  <1>3. n \in Nat /\ 0 \in Nat
    BY <1>2 DEF GoodPools, Pools
  <1> HIDE DEF n
  <1>4. y \in GoodPools
    BY <1>2, <1>3, QueuedFits
  <1>5. y.st = ps.st
    BY <1>2 DEF GoodPools, Pools
  <1> HIDE DEF y
  <1> QED
    BY <1>1, <1>4, <1>5, LoseFits DEF PoolInv

LEMMA HeartbeatFits == ASSUME PoolInv, P!Heartbeat PROVE PoolInv'
  <1> DEFINE A == P!ReplaceErrors(ps)
             B1 == UNION {P!EnsureMin(x) : x \in A}
             C == UNION {P!CloseIdle(x) : x \in B1}
             D == UNION {P!Lifetime(x) : x \in C}
             E == UNION {P!DispatchAll(x) : x \in D}
             F == UNION {IF x.queued > 0 THEN P!Grow(x, x.queued) ELSE {x} : x \in E}
  <1>1. ps' \in F
    BY DEF P!Heartbeat, P!Each
  <1>2. A \subseteq GoodPools
    BY ReplaceErrorsFits DEF PoolInv
  <1> HIDE DEF A
  <1>3. B1 \subseteq GoodPools
    BY <1>2, EnsureMinFits
  <1> HIDE DEF B1
  <1>4. C \subseteq GoodPools
    BY <1>3, CloseIdleFits
  <1> HIDE DEF C
  <1>5. D \subseteq GoodPools
    BY <1>4, LifetimeFits
  <1> HIDE DEF D
  <1>6. E \subseteq GoodPools
    BY <1>5, DispatchAllFits
  <1> HIDE DEF E
  <1>7. F \subseteq GoodPools
    BY <1>6, GrowFits
  <1> QED
    BY <1>1, <1>7 DEF PoolInv

LEMMA ReconnectTimerFits == ASSUME PoolInv, P!ReconnectTimer PROVE PoolInv'
  <1> DEFINE y == [ps EXCEPT !.timer = FALSE, !.backoff = FALSE]
             A == P!EnsureMin(y)
             F == UNION {IF x.queued > 0 THEN P!Grow(x, x.queued) ELSE {x} : x \in A}
  <1>1. ps' \in F /\ ps \in GoodPools
    BY DEF P!ReconnectTimer, P!Each, PoolInv
  <1>2. y \in Pools /\ Alike(y, ps)
    BY <1>1 DEF GoodPools, Pools, Alike
  <1> HIDE DEF y
  <1>3. A \subseteq GoodPools
    BY <1>1, <1>2, AlikeFits, EnsureMinFits
  <1> HIDE DEF A
  <1>4. F \subseteq GoodPools
    BY <1>3, GrowFits
  <1> QED
    BY <1>1, <1>4 DEF PoolInv

LEMMA TimeFits ==
    ASSUME PoolInv,
           P!BackoffEnds \/ P!PausesEnd \/ \E c \in Conn : P!Ages(c) \/ P!Idles(c)
    PROVE  PoolInv'
  <1>1. ps \in GoodPools /\ ps \in Pools
    BY DEF PoolInv, GoodPools
  <1>2. ps' \in Pools /\ Alike(ps', ps)
    <2>1. CASE P!BackoffEnds
      BY <1>1, <2>1 DEF P!BackoffEnds, Pools, Alike
    <2>2. CASE P!PausesEnd
      BY <1>1, <2>2 DEF P!PausesEnd, Pools, Alike
    <2>3. ASSUME NEW c \in Conn, P!Ages(c) PROVE ps' \in Pools /\ Alike(ps', ps)
      <3>1. ps.old \cup {c} \in SUBSET Conn /\ ps.aged + 1 \in Nat
        BY <1>1 DEF Pools
      <3> QED
        BY <1>1, <2>3, <3>1 DEF P!Ages, Pools, Alike
    <2>4. ASSUME NEW c \in Conn, P!Idles(c) PROVE ps' \in Pools /\ Alike(ps', ps)
      BY <1>1, <2>4 DEF P!Idles, Pools, Alike
    <2> QED
      BY <2>1, <2>2, <2>3, <2>4
  <1> QED
    BY <1>1, <1>2, AlikeFits DEF PoolInv

LEMMA PoolStarts == P!SizeInit => PoolInv
  <1>1. P!NewPool \in Pools
    BY DEF P!NewPool, Pools, PoolStates
  <1>2. P!At(P!NewPool, Live) = {} /\ P!At(P!NewPool, Counted) = {}
    BY DEF P!At, P!NewPool, Live, Counted
  <1>3. P!Size(P!NewPool) = 0 /\ P!Healthy(P!NewPool) = 0
    BY <1>1, <1>2, SizesTyped, FS_EmptySet
  <1>4. Paired(P!NewPool) /\ ~Both(P!NewPool)
    BY DEF Paired, Both, P!NewPool
  <1>5. P!NewPool \in GoodPools
    BY <1>1, <1>3, <1>4, PoolConstants DEF GoodPools, InSize
  <1> QED
    BY <1>5, EnsureMinFits DEF P!SizeInit, PoolInv

LEMMA PoolStep == ASSUME PoolInv, [P!SizeNext]_ps PROVE PoolInv'
  <1>1. CASE P!UserExecutes
    BY <1>1, ExecuteFits, AskedFits DEF P!UserExecutes, PoolInv
  <1>2. ASSUME NEW c \in Conn, P!ConnectOk(c) \/ P!ConnectFails(c) PROVE PoolInv'
    BY <1>2, ConnectOkFits, ConnectFailsFits
  <1>3. ASSUME NEW c \in Conn, P!Ages(c) \/ P!Idles(c) PROVE PoolInv'
    BY <1>3, TimeFits
  <1>4. ASSUME NEW c \in Conn, NEW b \in {"none", "open", "aborted"}, NEW again \in BOOLEAN,
               P!QueryDone(c, b, again)
        PROVE  PoolInv'
    BY <1>4, QueryDoneFits
  <1>5. ASSUME NEW c \in Conn, NEW requeued \in BOOLEAN, P!ConnectionLost(c, requeued)
        PROVE  PoolInv'
    BY <1>5, ConnectionLostFits
  <1>6. CASE P!Heartbeat
    BY <1>6, HeartbeatFits
  <1>7. CASE P!ReconnectTimer
    BY <1>7, ReconnectTimerFits
  <1>8. CASE P!BackoffEnds \/ P!PausesEnd
    BY <1>8, TimeFits
  <1>9. CASE UNCHANGED ps
    BY <1>9 DEF PoolInv
  <1> QED
    BY <1>1, <1>2, <1>3, <1>4, <1>5, <1>6, <1>7, <1>8, <1>9 DEF P!SizeNext

LEMMA PoolIsSized == PoolInv => SizeBounded
  <1> SUFFICES ASSUME PoolInv PROVE SizeBounded
    OBVIOUS
  <1>1. ps \in Pools /\ Paired(ps) /\ InSize(ps)
    BY DEF PoolInv, GoodPools
  <1>2. P!Healthy(ps) <= MaxConns + (IF ps.retiring = NoConn THEN 0 ELSE 1)
    BY <1>1, SizesTyped, PoolConstants DEF InSize, Both
  <1> QED
    BY <1>1, <1>2 DEF SizeBounded, P!SizeBounded, InSize, Paired

\* The pool never has more connections than postgres.pool.max, and one more while a
\* retirement is in progress, whose two sides are connections it has (pg.cpp:
\* ensure_min_connections, grow_for_queue, start_retirement, remove_connection).
THEOREM SizeBoundedHolds == DbClientsSpec => []SizeBounded
  <1>1. DbClientsSpec => P!SizeSpec
    BY DEF DbClientsSpec
  <1>2. P!SizeSpec => []PoolInv
    <2>1. P!SizeInit => PoolInv
      BY PoolStarts
    <2>2. PoolInv /\ [P!SizeNext]_ps => PoolInv'
      BY PoolStep
    <2> QED
      BY <2>1, <2>2, PTL DEF P!SizeSpec
  <1>3. PoolInv => SizeBounded
    BY PoolIsSized
  <1> QED
    BY <1>1, <1>2, <1>3, PTL

-----------------------------------------------------------------------------
(* ServiceToken: what is open at the database is held, on its way to be    *)
(* closed, or dropped, and is only one of these.                           *)

TokenRecords ==
    [ token : Tokens \cup {0}, previous : {0}, good : Nat, fresh : Nat, wait : Nat,
      limit : Nat, backoff : Nat, refreshing : BOOLEAN, asked : SUBSET Requests,
      open : SUBSET Tokens, closing : SUBSET Tokens, dropped : SUBSET Tokens, faults : Nat ]

TokenOk(x) ==
    /\ x \in TokenRecords
    /\ x.token = 0 => x.good = 0
    /\ x.open = ({x.token} \ {0}) \cup x.closing \cup x.dropped
    /\ x.token \notin x.closing \cup x.dropped
    /\ x.closing \cap x.dropped = {}

TokenInv == TokenOk(tok)

\* What a caller of the token may rely on.
TokenServes(x, y) ==
    x.token # 0 /\ x.good > 1 /\ y.dropped = x.dropped => y.token # 0 /\ y.good > 0

LEMMA TokensTyped ==
    /\ Tokens \subseteq Nat /\ 0 \notin Tokens /\ Life \in Nat /\ Life > 0
    /\ Life - Margin \in Nat /\ RetryInitial \in Nat /\ RetryMax \in Nat /\ Timeout \in Nat
  BY CredentialConstants

LEMMA LeastToken ==
    ASSUME NEW A, A \subseteq Tokens, A # {}
    PROVE  T!Min(A) \in A
  <1>1. A \subseteq Nat
    BY TokensTyped
  <1>2. \E i \in A : \A j \in A : i <= j
    BY <1>1, LeastNumber
  <1> QED
    BY <1>2 DEF T!Min

\* A failure, told to the caller or not, leaves the sessions as they are.
LEMMA TokenFails ==
    ASSUME NEW x, TokenOk(x)
    PROVE  TokenOk(T!Failed(x)) /\ T!Failed(x).token = x.token /\ T!Failed(x).good = x.good
           /\ T!Failed(x).dropped = x.dropped
  <1> DEFINE b == IF x.backoff = 0 THEN RetryInitial
                  ELSE IF 2 * x.backoff > RetryMax THEN RetryMax ELSE 2 * x.backoff
  <1>1. b \in Nat
    BY TokensTyped DEF TokenOk, TokenRecords
  <1>2. T!Failed(x) = [x EXCEPT !.refreshing = FALSE, !.backoff = b, !.wait = b]
    BY DEF T!Failed
  <1> HIDE DEF b
  <1> QED
    BY <1>1, <1>2 DEF TokenOk, TokenRecords

\* The sessions of y are those of x.
SameSessions(x, y) ==
    /\ y \in TokenRecords /\ y.token = x.token /\ y.good = x.good /\ y.open = x.open
    /\ y.closing = x.closing /\ y.dropped = x.dropped

LEMMA TokenStays ==
    ASSUME NEW x, TokenOk(x), NEW y, SameSessions(x, y)
    PROVE  TokenOk(y) /\ TokenServes(x, y)
  <1>1. x.good \in Nat
    BY DEF TokenOk, TokenRecords
  <1> QED
    BY <1>1 DEF TokenOk, SameSessions, TokenServes

LEMMA TokenUnasked ==
    ASSUME NEW x, TokenOk(x), NEW r
    PROVE  SameSessions(x, [T!Fault(x) EXCEPT !.asked = @ \ {r}])
  <1> DEFINE y == T!Fault(x)
  <1>1. SameSessions(x, y)
    BY DEF T!Fault, TokenOk, TokenRecords, SameSessions
  <1> HIDE DEF y
  <1>2. SameSessions(x, [y EXCEPT !.asked = @ \ {r}])
    BY <1>1 DEF TokenRecords, SameSessions
  <1> QED
    BY <1>2 DEF y

\* One of no use, or rejected, is left to the database.
LEMMA TokenDropped ==
    ASSUME NEW x, TokenOk(x), NEW y, y \in TokenRecords, y.open = x.open, y.token = x.token,
           y.closing = x.closing, y.dropped = x.dropped \cup ({x.token} \ {0})
    PROVE  TokenOk(T!Invalidated(y)) /\ T!Invalidated(y).dropped = y.dropped
  <1>1. /\ T!Invalidated(y) \in TokenRecords
        /\ T!Invalidated(y).token = 0 /\ T!Invalidated(y).good = 0
        /\ T!Invalidated(y).open = y.open /\ T!Invalidated(y).closing = y.closing
        /\ T!Invalidated(y).dropped = y.dropped
    BY DEF T!Invalidated, TokenRecords
  <1>2. x.closing \subseteq Tokens /\ x.dropped \subseteq Tokens /\ 0 \notin Tokens
    BY TokensTyped DEF TokenOk, TokenRecords
  <1> HIDE DEF T!Invalidated
  <1> QED
    BY <1>1, <1>2 DEF TokenOk

LEMMA TokenHeartbeat ==
    ASSUME TokenInv, T!Heartbeat PROVE TokenInv' /\ TokenServes(tok, tok')
  <1>1. CASE T!TimedOut /\ tok' = T!Failed(tok)
    BY <1>1, TokenFails DEF TokenInv, TokenServes, TokenOk, TokenRecords
  <1>2. CASE T!Due /\ \E r \in Requests \ tok.asked :
               tok' = [tok EXCEPT !.refreshing = TRUE, !.limit = Timeout, !.asked = @ \cup {r}]
    <2>1. PICK r \in Requests :
            tok' = [tok EXCEPT !.refreshing = TRUE, !.limit = Timeout, !.asked = @ \cup {r}]
      BY <1>2
    <2>2. SameSessions(tok, tok')
      BY <2>1, TokensTyped DEF TokenInv, TokenOk, TokenRecords, SameSessions
    <2> QED
      BY <2>2, TokenStays DEF TokenInv
  <1> QED
    BY <1>1, <1>2 DEF T!Heartbeat

LEMMA TokenAnswered ==
    ASSUME TokenInv, NEW r \in Requests, T!AnswerToken(r)
    PROVE  TokenInv' /\ TokenServes(tok, tok')
  <1> DEFINE t == T!Min(Tokens \ tok.open)
             x == [tok EXCEPT !.asked = @ \ {r}, !.open = @ \cup {t}]
             y == T!Issued(x, t)
  <1>1. t \in Tokens \ tok.open
    BY LeastToken DEF T!AnswerToken, TokenInv, TokenOk, TokenRecords
  <1>2. tok' = T!ClosesPrevious(y)
    BY DEF T!AnswerToken
  <1> HIDE DEF t
  <1>3. tok \in TokenRecords /\ x \in TokenRecords
    BY <1>1 DEF TokenInv, TokenOk, TokenRecords
  <1>4. /\ x.open = tok.open \cup {t} /\ x.token = tok.token /\ x.closing = tok.closing
        /\ x.dropped = tok.dropped
    BY <1>3 DEF TokenRecords
  <1> HIDE DEF x
  <1>5. tok' = [x EXCEPT !.refreshing = FALSE, !.previous = 0, !.token = t, !.backoff = 0,
                         !.wait = 0, !.good = Life, !.fresh = Life - Margin,
                         !.closing = @ \cup ({x.token} \ {0})]
    BY <1>2, <1>3 DEF T!ClosesPrevious, T!Issued, TokenRecords
  <1>6. /\ tok' \in TokenRecords /\ tok'.token = t /\ tok'.good = Life
        /\ tok'.open = tok.open \cup {t}
        /\ tok'.closing = tok.closing \cup ({tok.token} \ {0}) /\ tok'.dropped = tok.dropped
    BY <1>1, <1>3, <1>4, <1>5, TokensTyped DEF TokenRecords
  <1> QED
    BY <1>1, <1>6, TokensTyped DEF TokenInv, TokenOk, TokenServes

LEMMA TokenFailures ==
    ASSUME TokenInv, NEW r \in Requests,
           T!AnswerRefused(r) \/ T!AnswerUseless(r) \/ T!AnswerLost(r)
    PROVE  TokenInv' /\ TokenServes(tok, tok')
  <1> DEFINE x == [T!Fault(tok) EXCEPT !.asked = @ \ {r}]
  <1>1. /\ TokenOk(x) /\ x.token = tok.token /\ x.good = tok.good /\ x.dropped = tok.dropped
        /\ tok.good \in Nat /\ tok.token \notin tok.dropped
    BY TokenUnasked, TokenStays DEF TokenInv, TokenOk, TokenRecords, SameSessions
  <1>2. tok' \in {x, T!Failed(x), T!Useless(x)}
    BY DEF T!AnswerRefused, T!AnswerUseless, T!AnswerLost
  <1> HIDE DEF x
  <1>3. CASE tok' = T!Useless(x)
    <2> DEFINE w == [x EXCEPT !.refreshing = FALSE, !.dropped = @ \cup ({x.token} \ {0})]
               y == T!Invalidated(w)
    <2>1. tok' = T!Failed(y)
      BY <1>3 DEF T!Useless
    <2>2. /\ w \in TokenRecords /\ w.open = x.open /\ w.closing = x.closing
          /\ w.token = x.token /\ w.dropped = x.dropped \cup ({x.token} \ {0})
      BY <1>1, TokensTyped DEF TokenOk, TokenRecords
    <2> HIDE DEF w
    <2>3. TokenOk(y) /\ y.dropped = tok.dropped \cup ({tok.token} \ {0})
      BY <1>1, <2>2, TokenDropped
    <2> HIDE DEF y
    <2> QED
      BY <1>1, <2>1, <2>3, TokenFails DEF TokenInv, TokenServes
  <1>4. CASE tok' \in {x, T!Failed(x)}
    BY <1>1, <1>4, TokenFails DEF TokenInv, TokenServes
  <1> QED
    BY <1>2, <1>3, <1>4

LEMMA TokenGone ==
    ASSUME TokenInv, NEW t \in Tokens, T!Closed(t) \/ T!Swept(t)
    PROVE  TokenInv' /\ TokenServes(tok, tok')
  <1>1. tok \in TokenRecords
    BY DEF TokenInv, TokenOk
  <1>2. /\ tok' \in TokenRecords /\ tok'.token = tok.token /\ tok'.good = tok.good
        /\ tok'.open = tok.open \ {t}
        /\ \/ t \in tok.closing /\ tok'.closing = tok.closing \ {t} /\ tok'.dropped = tok.dropped
           \/ t \in tok.dropped /\ tok'.closing = tok.closing /\ tok'.dropped = tok.dropped \ {t}
    BY <1>1 DEF TokenRecords, T!Closed, T!Swept
  <1>3. tok.good \in Nat
    BY <1>1 DEF TokenRecords
  <1> QED
    BY <1>2, <1>3 DEF TokenInv, TokenOk, TokenServes

LEMMA TokenStep ==
    ASSUME TokenInv, [T!TokenNext]_tok
    PROVE  TokenInv' /\ TokenServes(tok, tok')
  <1>1. tok.good \in Nat /\ tok \in TokenRecords
    BY DEF TokenInv, TokenOk, TokenRecords
  <1>2. CASE T!Rejected
    <2> DEFINE x == T!Fault(tok)
               y == [x EXCEPT !.dropped = @ \cup {tok.token}]
    <2>1. tok' = T!Invalidated(y) /\ tok.token # 0
      BY <1>2 DEF T!Rejected, T!Valid
    <2>2. SameSessions(tok, x) /\ tok.token \notin tok.dropped /\ tok.token \in Tokens \cup {0}
      BY <1>1 DEF T!Fault, TokenInv, TokenOk, TokenRecords, SameSessions
    <2> HIDE DEF x
    <2>3. /\ y \in TokenRecords /\ y.open = tok.open /\ y.closing = tok.closing
          /\ y.token = tok.token /\ y.dropped = tok.dropped \cup ({tok.token} \ {0})
      BY <2>1, <2>2 DEF SameSessions, TokenRecords
    <2> HIDE DEF y
    <2>4. TokenInv' /\ tok'.dropped = y.dropped
      BY <2>1, <2>3, TokenDropped DEF TokenInv
    <2> QED
      BY <2>1, <2>2, <2>3, <2>4 DEF TokenServes
  <1>3. CASE T!Tick
    <2>1. \A n \in Nat : T!Less(n) \in Nat /\ (n > 1 => T!Less(n) > 0) /\ T!Less(0) = 0
      BY DEF T!Less
    <2>2. /\ tok' \in TokenRecords /\ tok'.token = tok.token /\ tok'.good = T!Less(tok.good)
          /\ tok'.open = tok.open /\ tok'.closing = tok.closing /\ tok'.dropped = tok.dropped
      BY <1>1, <1>3, <2>1 DEF T!Tick, TokenRecords
    <2> QED
      BY <1>1, <2>1, <2>2 DEF TokenInv, TokenOk, TokenServes
  <1>4. CASE UNCHANGED tok
    BY <1>1, <1>4 DEF TokenInv, TokenServes, TokenOk
  <1> QED
    BY <1>2, <1>3, <1>4, TokenHeartbeat, TokenAnswered, TokenFailures, TokenGone DEF T!TokenNext

LEMMA TokenBegins == T!TokenInit => TokenInv
  <1> SUFFICES ASSUME T!TokenInit PROVE TokenInv
    OBVIOUS
  <1> QED
    BY TokensTyped DEF T!TokenInit, TokenInv, TokenOk, TokenRecords

-----------------------------------------------------------------------------
(* BotSession: a login is signed out before the next.                      *)

Bots ==
    [ held : BOOLEAN, good : Nat, wait : Nat, step : {"none", "login", "signout"},
      logins : 0 .. 1, left : Nat, faults : Nat ]

BotInv ==
    /\ bot \in Bots
    /\ bot.logins = IF bot.step = "signout" THEN 1 ELSE 0
    /\ bot.left <= bot.faults

LEMMA BotBegins == B!BotInit => BotInv
  BY DEF B!BotInit, BotInv, Bots

\* What a step leaves: a login that is over, and those nobody signs out.
LEMMA BotCounts ==
    ASSUME BotInv, bot' \in Bots, bot'.logins = IF bot'.step = "signout" THEN 1 ELSE 0,
           NEW n \in 0 .. 1, NEW k \in 0 .. n,
           bot'.faults = bot.faults + n, bot'.left = bot.left + k
    PROVE  BotInv'
  <1>1. {bot.left, bot.faults} \subseteq Nat
    BY DEF BotInv, Bots
  <1> QED
    BY <1>1 DEF BotInv

LEMMA BotTyped ==
    /\ BotLife \in Nat /\ BotRetry \in Nat
    /\ \A n \in Nat : B!Less(n) \in Nat
  BY CredentialConstants DEF B!Less

AskedToSignOut(x) == [x EXCEPT !.step = "signout", !.logins = 1]
Ended(x, n) == [x EXCEPT !.step = "none", !.logins = 0, !.left = n]

LEMMA BotEdit ==
    ASSUME NEW x \in Bots
    PROVE  /\ AskedToSignOut(x) \in Bots
           /\ AskedToSignOut(x).step = "signout" /\ AskedToSignOut(x).logins = 1
           /\ AskedToSignOut(x).left = x.left /\ AskedToSignOut(x).faults = x.faults
           /\ \A n \in Nat :
                 /\ Ended(x, n) \in Bots
                 /\ Ended(x, n).step = "none" /\ Ended(x, n).logins = 0
                 /\ Ended(x, n).left = n /\ Ended(x, n).faults = x.faults
  <1> DEFINE Steps == {"none", "login", "signout"}
             E(s, k, m) == [x EXCEPT !.step = s, !.logins = k, !.left = m]
             out == "signout"   none == "none"   zero == 0   one == 1
  <1>1. out \in Steps /\ none \in Steps /\ zero \in 0 .. 1 /\ one \in 0 .. 1
    OBVIOUS
  <1>2. ASSUME NEW s \in Steps, NEW k \in 0 .. 1, NEW m \in Nat
        PROVE  /\ E(s, k, m) \in Bots /\ E(s, k, m).step = s /\ E(s, k, m).logins = k
               /\ E(s, k, m).left = m /\ E(s, k, m).faults = x.faults
    BY DEF Bots
  <1>3. x.left \in Nat /\ x = [x EXCEPT !.left = x.left]
    BY DEF Bots
  <1>4. /\ AskedToSignOut(x) = E(out, one, x.left)
        /\ \A n \in Nat : Ended(x, n) = E(none, zero, n)
    BY <1>3 DEF AskedToSignOut, Ended, Bots
  <1> HIDE DEF Steps, E, out, none, zero, one
  <1>5. /\ AskedToSignOut(x) \in Bots
        /\ AskedToSignOut(x).step = out /\ AskedToSignOut(x).logins = one
        /\ AskedToSignOut(x).left = x.left /\ AskedToSignOut(x).faults = x.faults
    BY <1>1, <1>2, <1>3, <1>4
  <1>6. ASSUME NEW n \in Nat
        PROVE  /\ Ended(x, n) \in Bots
               /\ Ended(x, n).step = none /\ Ended(x, n).logins = zero
               /\ Ended(x, n).left = n /\ Ended(x, n).faults = x.faults
    BY <1>1, <1>2, <1>4
  <1> QED
    BY <1>5, <1>6 DEF out, none, zero, one

LEMMA BotStep == ASSUME BotInv, [B!BotNext]_bot PROVE BotInv'
  <1>1. bot \in Bots /\ {bot.left, bot.faults} \subseteq Nat
    BY DEF BotInv, Bots
  <1>2. CASE B!Heartbeat
    <2>1. /\ bot' \in Bots /\ bot'.step = "login" /\ bot'.logins = bot.logins
          /\ bot.logins = 0 /\ bot'.left = bot.left /\ bot'.faults = bot.faults
      BY <1>1, <1>2 DEF B!Heartbeat, Bots, BotInv
    <2> QED
      BY <1>1, <2>1 DEF BotInv
  <1>3. ASSUME NEW found \in BOOLEAN, NEW token \in BOOLEAN, B!LoginAnswered(found, token)
        PROVE  BotInv'
    <2> DEFINE u == IF found THEN [bot EXCEPT !.held = TRUE, !.good = BotLife] ELSE bot
               v == IF found /\ token THEN u ELSE B!Fault(u)
    <2>1. /\ bot.step = "login"
          /\ bot' = IF token THEN [v EXCEPT !.step = "signout", !.logins = @ + 1]
                    ELSE B!Throttled(v)
      BY <1>3 DEF B!LoginAnswered
    <2>2. u \in Bots /\ u.logins = 0 /\ u.left = bot.left /\ u.faults = bot.faults
      BY <1>1, <2>1, BotTyped DEF BotInv, Bots
    <2> HIDE DEF u
    <2>3. v \in Bots /\ v.logins = 0 /\ v.left = bot.left
          /\ v.faults = bot.faults + IF found /\ token THEN 0 ELSE 1
      BY <2>2 DEF B!Fault, Bots
    <2> HIDE DEF v
    <2>4. /\ bot' \in Bots /\ bot'.left = bot.left /\ bot'.faults = v.faults
          /\ bot'.logins = IF bot'.step = "signout" THEN 1 ELSE 0
      <3>1. CASE token
        <4>1. bot' = [v EXCEPT !.step = "signout", !.logins = 1]
          BY <2>1, <2>3, <3>1
        <4>2. v \in Bots /\ v.logins = 0
          BY <2>3
        <4>4. bot' = AskedToSignOut(v)
          BY <4>1 DEF AskedToSignOut
        <4>5. /\ bot' \in Bots /\ bot'.step = "signout" /\ bot'.logins = 1
              /\ bot'.left = v.left /\ bot'.faults = v.faults
          BY <4>2, <4>4, BotEdit
        <4> QED
          BY <4>5, <2>3
      <3>2. CASE ~token
        BY <2>1, <2>3, <3>2, BotTyped DEF Bots, B!Throttled
      <3> QED
        BY <3>1, <3>2
    <2> QED
      BY <1>1, <2>3, <2>4, BotCounts
  <1>4. ASSUME NEW reached \in BOOLEAN, B!LoginFailed(reached) PROVE BotInv'
    <2> DEFINE u == B!Fault(bot)
    <2>1. /\ u \in Bots /\ u.logins = bot.logins /\ u.left = bot.left
          /\ u.faults = bot.faults + 1 /\ bot.logins = 0
      BY <1>1, <1>4 DEF B!Fault, B!LoginFailed, Bots, BotInv
    <2> DEFINE v == [u EXCEPT !.left = IF reached THEN @ + 1 ELSE @]
    <2>2. bot' = B!Throttled(v)
      BY <1>4 DEF B!LoginFailed
    <2> HIDE DEF u
    <2>3. /\ v \in Bots /\ v.logins = 0 /\ v.faults = bot.faults + 1
          /\ v.left = bot.left + IF reached THEN 1 ELSE 0
      BY <2>1 DEF Bots
    <2> HIDE DEF v
    <2>4. /\ bot' \in Bots /\ bot'.step = "none" /\ bot'.logins = 0
          /\ bot'.faults = bot.faults + 1 /\ bot'.left = bot.left + IF reached THEN 1 ELSE 0
      BY <2>2, <2>3, BotTyped DEF B!Throttled, Bots
    <2> QED
      BY <1>1, <2>4, BotCounts
  <1>5. ASSUME NEW ok \in BOOLEAN, B!SignedOut(ok) PROVE BotInv'
    <2> DEFINE u == IF ok THEN bot ELSE B!Fault(bot)
               n == IF ok THEN 0 ELSE 1
    <2>1. /\ u \in Bots /\ u.logins = 1 /\ u.left = bot.left /\ u.faults = bot.faults + n
      BY <1>1, <1>5 DEF B!Fault, B!SignedOut, Bots, BotInv
    <2>2. bot' = [u EXCEPT !.step = "none", !.logins = @ - 1, !.left = IF ok THEN @ ELSE @ + 1]
      BY <1>5 DEF B!SignedOut
    <2> HIDE DEF u
    <2>3. /\ bot' \in Bots /\ bot'.step = "none" /\ bot'.logins = 0
          /\ bot'.faults = bot.faults + n /\ bot'.left = bot.left + n
      <3> DEFINE m == IF ok THEN u.left ELSE u.left + 1
      <3>1. m \in Nat /\ m = bot.left + n
        BY <1>1, <2>1
      <3>2. bot' = Ended(u, m)
        BY <2>1, <2>2 DEF Ended
      <3> HIDE DEF m, n
      <3>3. /\ bot' \in Bots /\ bot'.step = "none" /\ bot'.logins = 0
            /\ bot'.left = m /\ bot'.faults = u.faults
        BY <2>1, <3>1, <3>2, BotEdit
      <3> QED
        BY <2>1, <3>1, <3>3
    <2> QED
      BY <1>1, <2>3, BotCounts
  <1>6. CASE B!SignOut
    <2> DEFINE u == B!Fault(bot)
    <2>1. /\ u \in Bots /\ u.logins = bot.logins /\ u.left = bot.left /\ u.step = bot.step
          /\ u.faults = bot.faults + 1
      BY <1>1 DEF B!Fault, Bots
    <2>2. bot' = [u EXCEPT !.held = FALSE, !.good = 0]
      BY <1>6 DEF B!SignOut
    <2> HIDE DEF u
    <2>3. /\ bot' \in Bots /\ bot'.logins = bot.logins /\ bot'.left = bot.left
          /\ bot'.step = bot.step /\ bot'.faults = bot.faults + 1
      BY <2>1, <2>2 DEF Bots
    <2>4. bot'.logins = (IF bot'.step = "signout" THEN 1 ELSE 0) /\ bot'.left = bot.left + 0
      BY <1>1, <2>3 DEF BotInv
    <2> QED
      BY <2>3, <2>4, BotCounts
  <1>7. CASE B!Tick
    <2>1. /\ bot' \in Bots /\ bot'.logins = bot.logins /\ bot'.left = bot.left
          /\ bot'.step = bot.step /\ bot'.faults = bot.faults
      BY <1>1, <1>7, BotTyped DEF B!Tick, Bots
    <2> QED
      BY <2>1 DEF BotInv
  <1>8. CASE UNCHANGED bot
    BY <1>8 DEF BotInv
  <1> QED
    BY <1>2, <1>3, <1>4, <1>5, <1>6, <1>7, <1>8 DEF B!BotNext

\* The token that serves is never closed and none stays open that nobody holds or will
\* close (ServiceToken::issued, take_previous_token), and every login but those whose
\* answer was lost is signed out (bot_login, bot_close).
THEOREM CredentialsKeptAlways == DbClientsSpec => []CredentialsKept
  <1>1. TokenInv => T!OnlyReplacedAreClosed
    BY DEF TokenInv, TokenOk, T!OnlyReplacedAreClosed
  <1>2. BotInv => B!LoginsSignedOut
    BY DEF BotInv, B!LoginsSignedOut
  <1>3. TokenInv /\ BotInv => CredentialsKept
    BY <1>1, <1>2 DEF CredentialsKept
  <1>4. TokenInv /\ [T!TokenNext]_tok => TokenInv'
    BY TokenStep
  <1>5. BotInv /\ [B!BotNext]_bot => BotInv'
    BY BotStep
  <1> QED
    BY <1>3, <1>4, <1>5, TokenBegins, BotBegins, PTL DEF DbClientsSpec, T!TokenSpec, B!BotSpec

\* A good token serves through failed renewals, however many (ServiceToken::failed), up
\* to its end or an answer of no use.
THEOREM ServesThroughFailuresHolds == DbClientsSpec => T!ServesThroughFailures
  <1>1. TokenInv /\ [T!TokenNext]_tok =>
           [T!Valid /\ tok.good > 1 /\ tok'.dropped = tok.dropped
               => tok'.token # 0 /\ tok'.good > 0]_tok
    BY TokenStep DEF TokenServes, T!Valid
  <1>2. TokenInv /\ [T!TokenNext]_tok => TokenInv'
    BY TokenStep
  <1> QED
    BY <1>1, <1>2, TokenBegins, PTL DEF DbClientsSpec, T!TokenSpec, T!ServesThroughFailures
=============================================================================

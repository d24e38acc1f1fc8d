-------------------------- MODULE PgListenerProofs --------------------------
(***************************************************************************)
(* Proofs about PgListener, for any number of channels, statements, calls  *)
(* and faults.                                                             *)
(***************************************************************************)
EXTENDS PgListener, SequenceTheorems, FiniteSetTheorems, TLAPS

-----------------------------------------------------------------------------
(* The inductive invariant.                                                *)

\* What listener_execute() may have queued, and the statement of the name.
Work == Stmt \cup ({Name} \ {None})

Cmds == [ kind : {"none", "LISTEN", "UNLISTEN", "statement"}, chans : SUBSET Chan,
          at : {"server", "wire", "buffer"}, ok : BOOLEAN ]

State ==
    [ registry : SUBSET Chan, ready : SUBSET Chan, waits : SUBSET Chan, pending : SUBSET Chan,
      sent : SUBSET Chan, confirmed : SUBSET Chan, single : SUBSET Chan,
      rejected : SUBSET Chan, batch : Nat,
      conn : {"none", "Connecting", "Ready", "Busy", "Error"},
      link : {"gone", "up", "mute", "shut"}, subs : SUBSET Chan, cmd : Cmds,
      queue : Seq(Work), flight : Work \cup {None}, timer : {"none", "flight", "watch"},
      stale : BOOLEAN, lost : SUBSET Stmt, detached : SUBSET Work, down : BOOLEAN,
      muted : BOOLEAN, backoff : BOOLEAN, failed : BOOLEAN,
      io : {"idle", "deliver", "notify", "ready", "again"},
      from : {"none", "LISTEN", "statement", "notification"}, same : BOOLEAN ]

\* Where a channel of the registry is: to be sent, sent, refused or with the server.
Accounted(x) ==
    /\ x.conn # "Error" =>
         /\ x.registry \subseteq x.pending \cup x.sent \cup x.rejected \cup x.subs
         /\ x.confirmed \subseteq x.subs
    /\ x.conn \in {"none", "Connecting"} => x.registry \subseteq x.pending /\ x.confirmed = {}
    /\ x.single \subseteq x.pending

\* One command is with the server at a time, and what it is for: a channel that is
\* being given up there is wanted again only if it is to be sent again.
OneCommand(x) ==
    /\ x.conn \in {"Connecting", "Ready", "Busy"} => x.link # "gone"
    /\ x.conn # "Busy" => x.flight = None /\ x.sent = {}
    /\ x.conn = "Busy" =>
         /\ x.flight # None => x.cmd.kind = "statement"
         /\ x.sent # {} => x.cmd.kind = "LISTEN" /\ x.sent \subseteq x.cmd.chans
         /\ x.cmd.kind = "LISTEN" /\ x.cmd.at # "server" /\ x.cmd.ok => x.cmd.chans \subseteq x.subs
         /\ x.cmd.kind = "UNLISTEN" =>
              /\ x.cmd.chans \cap x.confirmed = {}
              /\ x.cmd.chans \cap x.registry \subseteq x.pending

\* A statement is queued once, or with the server, or lost.
Once(q) == \A i, j \in DOMAIN q : q[i] = q[j] /\ q[i] \in Stmt => i = j

Queued(x, s) == s \in ToSet(x.queue)

Apart(x) ==
    /\ Once(x.queue)
    /\ \A s \in Stmt : /\ Queued(x, s) => x.flight # s /\ s \notin x.lost
                       /\ x.flight = s => s \notin x.lost

Good(x) == x \in State /\ Accounted(x) /\ OneCommand(x) /\ Apart(x)

Place(x, s) == Queued(x, s) \/ x.flight = s \/ s \in x.lost

\* How often a statement was sent and told, by where it is.
Counts ==
    /\ sends \in [Stmt -> {0, 1}] /\ told \in [Stmt -> {0, 1}]
    /\ pl.down \/ pl.detached = {}
    /\ \A s \in Stmt :
        /\ Queued(pl, s) => sends[s] = 0
        /\ pl.flight = s => sends[s] = 1
        /\ Place(pl, s) => told[s] = 0
        /\ Known(s) => Place(pl, s) \/ told[s] = 1 \/ s \in pl.detached

Inv == Good(pl) /\ Counts /\ calls \in Nat /\ faults \in Nat

-----------------------------------------------------------------------------
(* What a step of the listener does to the statements.                     *)

\* From x to y no statement reaches the server ...
Keeps(x, y) ==
    /\ y.detached = x.detached /\ y.down = x.down /\ y.queue = x.queue
    /\ \A s \in Stmt :
        /\ y.flight = s => x.flight = s
        /\ s \in y.lost => s \in x.lost \/ x.flight = s
        /\ Place(x, s) => Place(y, s)

\* ... or the one at the head of the queue may.
Passes(x, y) ==
    /\ y.detached = x.detached /\ y.down = x.down
    /\ \A s \in Stmt :
        /\ Queued(y, s) => Queued(x, s)
        /\ y.flight = s => x.flight = s \/ Queued(x, s)
        /\ s \in y.lost => s \in x.lost \/ x.flight = s
        /\ Place(x, s) => Place(y, s)

LEMMA KeepsPasses ==
  ASSUME NEW x, NEW y, NEW z, Keeps(x, y)
  PROVE  /\ Passes(x, y)
         /\ Keeps(y, z) => Keeps(x, z)
         /\ Passes(y, z) => Passes(x, z)
  BY DEF Keeps, Passes, Place, Queued

\* Two states that differ only in what the invariant does not speak of.
Alike(x, y) ==
    /\ y.registry = x.registry /\ y.pending = x.pending /\ y.sent = x.sent
    /\ y.confirmed = x.confirmed /\ y.single = x.single /\ y.rejected = x.rejected
    /\ y.conn = x.conn /\ y.link = x.link /\ y.subs = x.subs /\ y.cmd = x.cmd
    /\ y.queue = x.queue /\ y.flight = x.flight /\ y.lost = x.lost
    /\ y.detached = x.detached /\ y.down = x.down

LEMMA AlikeIsGood ==
  ASSUME NEW x, NEW y \in State, Alike(x, y)
  PROVE  /\ Good(x) => Good(y)
         /\ Keeps(x, y)
         /\ \A z : Passes(z, x) => Passes(z, y)
  BY DEF Good, Accounted, OneCommand, Apart, Queued, Alike, Keeps, Passes, Place

LEMMA NoCmdIs == NoCmd \in Cmds /\ NoCmd.kind = "none" /\ NoCmd.at = "server"
  BY DEF NoCmd, Cmds

LEMMA CmdIs ==
  ASSUME NEW kind \in {"LISTEN", "UNLISTEN", "statement"}, NEW chans \in SUBSET Chan
  PROVE  /\ Cmd(kind, chans) \in Cmds /\ Cmd(kind, chans).kind = kind
         /\ Cmd(kind, chans).chans = chans /\ Cmd(kind, chans).at = "server"
  BY DEF Cmd, NoCmd, Cmds

-----------------------------------------------------------------------------
(* Starting and replacing the connection.                                  *)

\* A listener with no connection.
LEMMA NoListenerIs ==
  ASSUME NEW x \in State
  PROVE  LET y == NoListener(x) IN
         /\ y \in State
         /\ y.conn = "none" /\ y.link = "gone" /\ y.subs = {} /\ y.cmd = NoCmd
         /\ y.registry = x.registry /\ y.pending = x.pending /\ y.sent = x.sent
         /\ y.confirmed = x.confirmed /\ y.single = x.single /\ y.rejected = x.rejected
         /\ y.queue = x.queue /\ y.flight = x.flight /\ y.lost = x.lost
         /\ y.detached = x.detached /\ y.down = x.down
  <1> DEFINE b == (x.io = "idle")
             y == [x EXCEPT !.conn = "none", !.link = "gone", !.subs = {}, !.cmd = NoCmd,
                            !.stale = TRUE, !.same = b]
  <1>1. NoListener(x) = y BY DEF NoListener
  <1>2. b \in BOOLEAN OBVIOUS
  <1> HIDE DEF b
  <1>3. y \in State BY ZenonT(60), <1>2, NoCmdIs DEF State
  <1>4. /\ y.conn = "none" /\ y.link = "gone" /\ y.subs = {} /\ y.cmd = NoCmd
        /\ y.registry = x.registry /\ y.pending = x.pending /\ y.sent = x.sent
        /\ y.confirmed = x.confirmed /\ y.single = x.single /\ y.rejected = x.rejected
        /\ y.queue = x.queue /\ y.flight = x.flight /\ y.lost = x.lost
        /\ y.detached = x.detached /\ y.down = x.down
    BY DEF State
  <1> HIDE DEF y
  <1> QED BY <1>1, <1>3, <1>4

\* What the registry wants is pending: a connection may be begun, or put off.
Waiting(x) ==
    /\ x.registry \subseteq x.pending /\ x.single \subseteq x.pending
    /\ x.confirmed = {} /\ x.sent = {} /\ x.flight = None

LEMMA WaitingIsGood ==
  ASSUME NEW x \in State, Waiting(x), Apart(x),
         x.conn = "none" \/ (x.conn = "Connecting" /\ x.link = "up")
  PROVE  Good(x)
  BY DEF Waiting, Good, Accounted, OneCommand

LEMMA BegunIs ==
  ASSUME NEW x \in State, Waiting(x), Apart(x)
  PROVE  LET y == [NoListener(x) EXCEPT !.conn = "Connecting", !.link = "up"] IN
         Good(y) /\ Keeps(x, y)
  <1> DEFINE n == NoListener(x)
             y == [n EXCEPT !.conn = "Connecting", !.link = "up"]
  <1>1. n \in State BY NoListenerIs
  <1>2. y \in State BY ZenonT(60), <1>1 DEF State
  <1>3. /\ y.conn = "Connecting" /\ y.link = "up" /\ y.registry = n.registry /\ y.pending = n.pending
        /\ y.sent = n.sent /\ y.confirmed = n.confirmed /\ y.single = n.single
        /\ y.queue = n.queue /\ y.flight = n.flight /\ y.lost = n.lost
        /\ y.detached = n.detached /\ y.down = n.down
    BY <1>1 DEF State
  <1> HIDE DEF n, y
  <1>4. /\ y.registry = x.registry /\ y.pending = x.pending
        /\ y.sent = x.sent /\ y.confirmed = x.confirmed /\ y.single = x.single
        /\ y.queue = x.queue /\ y.flight = x.flight /\ y.lost = x.lost
        /\ y.detached = x.detached /\ y.down = x.down
    BY <1>3, NoListenerIs DEF n
  <1>5. Waiting(y) /\ Apart(y) /\ Keeps(x, y)
    BY <1>4 DEF Waiting, Apart, Queued, Keeps, Place
  <1> QED BY <1>2, <1>3, <1>5, WaitingIsGood DEF n, y

LEMMA AbandonIs ==
  ASSUME NEW x \in State, Waiting(x), Apart(x)
  PROVE  Good(Abandon(x)) /\ Keeps(x, Abandon(x))
  <1> DEFINE n == NoListener(x)
             y == Abandon(x)
  <1>1. n \in State BY NoListenerIs
  <1>2. y \in State BY <1>1 DEF State, Abandon
  <1>3. /\ y.conn = n.conn /\ y.registry = n.registry /\ y.pending = n.pending
        /\ y.sent = n.sent /\ y.confirmed = n.confirmed /\ y.single = n.single
        /\ y.queue = n.queue /\ y.flight = n.flight /\ y.lost = n.lost
        /\ y.detached = n.detached /\ y.down = n.down
    BY <1>1 DEF State, Abandon
  <1> HIDE DEF n, y
  <1>4. /\ y.registry = x.registry /\ y.pending = x.pending /\ y.conn = "none"
        /\ y.sent = x.sent /\ y.confirmed = x.confirmed /\ y.single = x.single
        /\ y.queue = x.queue /\ y.flight = x.flight /\ y.lost = x.lost
        /\ y.detached = x.detached /\ y.down = x.down
    BY <1>3, NoListenerIs DEF n
  <1>5. Waiting(y) /\ Apart(y) /\ Keeps(x, y)
    BY <1>4 DEF Waiting, Apart, Queued, Keeps, Place
  <1> QED BY <1>2, <1>4, <1>5, WaitingIsGood DEF y

LEMMA StartIs ==
  ASSUME NEW x, Good(x), x.conn \in {"none", "Connecting"}, NEW u \in StartListener(x)
  PROVE  Good(u) /\ Keeps(x, u)
  <1>1. x \in State /\ Waiting(x) /\ Apart(x)
    BY DEF Good, Accounted, OneCommand, Waiting
  <1>2. CASE x.backoff BY <1>2 DEF StartListener, Keeps
  <1>3. CASE ~x.backoff BY <1>1, <1>3, BegunIs, AbandonIs DEF StartListener
  <1> QED BY <1>2, <1>3

\* A statement with the server is lost with its listener.
LEMMA FailFlightIs ==
  ASSUME NEW x \in State, Apart(x)
  PROVE  LET y == FailFlight(x) IN
         /\ y \in State /\ Apart(y) /\ Keeps(x, y) /\ y.flight = None
         /\ y.registry = x.registry /\ y.pending = x.pending /\ y.single = x.single
  <1> DEFINE y == FailFlight(x)
  <1>1. y \in State BY ZenonT(60) DEF FailFlight, State
  <1>2. /\ y.flight = None
        /\ y.lost = IF x.flight \in Stmt THEN x.lost \cup {x.flight} ELSE x.lost
        /\ y.queue = x.queue /\ y.detached = x.detached /\ y.down = x.down
        /\ y.registry = x.registry /\ y.pending = x.pending /\ y.single = x.single
    BY DEF FailFlight, State
  <1> HIDE DEF y
  <1>3. None \notin Stmt BY ListenerConstants
  <1>4. Apart(y) BY <1>2, <1>3 DEF Apart, Queued
  <1>5. Keeps(x, y) BY <1>2, <1>3 DEF Keeps, Place, Queued
  <1> QED BY <1>1, <1>2, <1>4, <1>5 DEF y

LEMMA RestartIs ==
  ASSUME NEW x \in State, Apart(x), NEW u \in Restart(x)
  PROVE  Good(u) /\ Keeps(x, u)
  <1> DEFINE f == FailFlight(x)
             n == NoListener(f)
             r == [n EXCEPT !.pending = @ \cup x.registry, !.sent = {}, !.confirmed = {},
                            !.single = {}, !.rejected = {}, !.batch = 0]
  <1>1. f \in State /\ Apart(f) /\ Keeps(x, f) /\ f.flight = None /\ f.registry = x.registry
    BY FailFlightIs
  <1> HIDE DEF f
  <1>2. n \in State /\ n.flight = None /\ n.registry = x.registry /\ n.conn = "none"
        /\ n.queue = f.queue /\ n.lost = f.lost /\ n.detached = f.detached /\ n.down = f.down
        /\ n.flight = f.flight
    BY <1>1, NoListenerIs
  <1> HIDE DEF n
  <1>3. r \in State BY ZenonT(60), <1>2 DEF State
  <1>4. /\ r.pending = n.pending \cup x.registry /\ r.registry = x.registry /\ r.sent = {}
        /\ r.confirmed = {} /\ r.single = {} /\ r.flight = None /\ r.conn = "none"
        /\ r.queue = n.queue /\ r.lost = n.lost /\ r.detached = n.detached /\ r.down = n.down
    BY <1>2 DEF State
  <1>5. Restart(x) = IF Wants(r) THEN StartListener(r) ELSE {r}
    BY DEF Restart, r, n, f
  <1> HIDE DEF r
  <1>6. Waiting(r) BY <1>4 DEF Waiting
  <1>7. Apart(r) BY <1>1, <1>2, <1>4 DEF Apart, Queued
  <1>8. Keeps(f, r) BY <1>1, <1>2, <1>4 DEF Keeps, Place, Queued
  <1>9. Good(r) BY <1>3, <1>4, <1>6, <1>7, WaitingIsGood
  <1>10. Good(u) /\ Keeps(r, u)
    <2>1. CASE Wants(r) BY <1>4, <1>5, <1>9, <2>1, StartIs
    <2>2. CASE ~Wants(r) BY <1>5, <1>9, <2>2 DEF Keeps
    <2> QED BY <2>1, <2>2
  <1> QED BY <1>1, <1>8, <1>10, KeepsPasses

-----------------------------------------------------------------------------
(* What goes out.                                                          *)

LEMMA UnsentIs ==
  ASSUME NEW x \in State
  PROVE  LET y == Unsent(x) IN
         /\ y \in State /\ Keeps(x, y) /\ (Apart(x) => Apart(y))
         /\ x.pending = y.pending /\ (Good(x) /\ x.conn = "Ready" => Good(y))
  <1> DEFINE y == Unsent(x)
  <1>1. CASE x.link # "shut" BY <1>1 DEF Unsent, Keeps
  <1>2. CASE x.link = "shut"
    <2>1. y \in State BY ZenonT(60), <1>2 DEF Unsent, State
    <2>2. /\ y.queue = x.queue /\ y.flight = x.flight /\ y.lost = x.lost
          /\ y.detached = x.detached /\ y.down = x.down /\ y.conn = "Error"
          /\ y.pending = x.pending /\ y.single = x.single /\ y.sent = x.sent
      BY <1>2 DEF Unsent, State
    <2> HIDE DEF y
    <2>3. Keeps(x, y) BY <2>2 DEF Keeps, Place, Queued
    <2>4. Apart(x) => Apart(y) BY <2>2 DEF Apart, Queued
    <2>5. Good(x) /\ x.conn = "Ready" => Good(y)
      BY <2>1, <2>2, <2>4 DEF Good, Accounted, OneCommand
    <2> QED BY <2>1, <2>2, <2>3, <2>4, <2>5 DEF y
  <1> QED BY <1>1, <1>2

\* A batch of channels goes out, or the connection turns out to be gone.
Without(x, b) == [x EXCEPT !.pending = @ \ b, !.single = @ \ b]
Shipped(x, b) == [Sent(Without(x, b), Cmd("LISTEN", b)) EXCEPT !.sent = @ \cup b,
                                                               !.batch = Cardinality(b)]

LEMMA ShippedIsGood ==
  ASSUME NEW x, Good(x), x.conn = "Ready", NEW b \in SUBSET x.pending
  PROVE  Good(Shipped(x, b)) /\ Keeps(x, Shipped(x, b))
  <1> DEFINE c == Cmd("LISTEN", b)
             y == Shipped(x, b)
  <1>1. x \in State /\ b \in SUBSET Chan BY DEF Good, State
  <1>2. c \in Cmds /\ c.kind = "LISTEN" /\ c.chans = b /\ c.at = "server" BY <1>1, CmdIs
  <1>3. Cardinality(b) \in Nat
    BY <1>1, ListenerConstants, FS_Subset, FS_CardinalityType
  <1>4. y = [x EXCEPT !.pending = @ \ b, !.single = @ \ b, !.conn = "Busy", !.cmd = c,
                      !.sent = @ \cup b, !.batch = Cardinality(b)]
    BY <1>1 DEF Shipped, Sent, Without, State
  <1> HIDE DEF c, y
  <1>5. y \in State BY ZenonT(60), <1>1, <1>2, <1>3, <1>4 DEF State
  <1>6. /\ y.pending = x.pending \ b /\ y.single = x.single \ b /\ y.conn = "Busy" /\ y.cmd = c
        /\ y.sent = x.sent \cup b
        /\ y.queue = x.queue /\ y.flight = x.flight /\ y.lost = x.lost
        /\ y.detached = x.detached /\ y.down = x.down /\ y.registry = x.registry
        /\ y.confirmed = x.confirmed /\ y.rejected = x.rejected /\ y.subs = x.subs
        /\ y.link = x.link
    BY <1>1, <1>4 DEF State
  <1>7. Accounted(y) BY <1>6 DEF Good, Accounted
  <1>8. OneCommand(y) BY <1>2, <1>6 DEF Good, OneCommand
  <1>9. Apart(y) BY <1>6 DEF Good, Apart, Queued
  <1>10. Keeps(x, y) BY <1>6 DEF Keeps, Place, Queued
  <1> QED BY <1>5, <1>7, <1>8, <1>9, <1>10 DEF Good, y

Unshipped(x, b) == [Unsent(Without(x, b)) EXCEPT !.pending = @ \cup b]

LEMMA UnshippedIs ==
  ASSUME NEW x, Good(x), NEW b \in SUBSET Chan, NEW u \in Restart(Unshipped(x, b))
  PROVE  Good(u) /\ Keeps(x, u)
  <1> DEFINE w == Without(x, b)
             n == Unsent(w)
             y == Unshipped(x, b)
  <1>1. x \in State /\ Apart(x) BY DEF Good
  <1>2. w \in State BY <1>1 DEF Without, State
  <1>3. /\ w.queue = x.queue /\ w.flight = x.flight /\ w.lost = x.lost
        /\ w.detached = x.detached /\ w.down = x.down
    BY <1>1 DEF Without, State
  <1> HIDE DEF w
  <1>4. Apart(w) /\ Keeps(x, w) BY <1>1, <1>3 DEF Apart, Queued, Keeps, Place
  <1>5. n \in State /\ Apart(n) /\ Keeps(w, n) BY <1>2, <1>4, UnsentIs
  <1>6. y = [n EXCEPT !.pending = @ \cup b] BY DEF Unshipped, n, w
  <1> HIDE DEF n, y
  <1>7. y \in State BY SMTT(60), <1>5, <1>6 DEF State
  <1>8. /\ y.queue = n.queue /\ y.flight = n.flight /\ y.lost = n.lost
        /\ y.detached = n.detached /\ y.down = n.down
    BY <1>5, <1>6 DEF State
  <1>9. Apart(y) /\ Keeps(n, y) BY <1>5, <1>8 DEF Apart, Queued, Keeps, Place
  <1>10. Good(u) /\ Keeps(y, u) BY <1>7, <1>9, RestartIs DEF y
  <1> QED BY <1>4, <1>5, <1>9, <1>10, KeepsPasses

LEMMA SendPendingIs ==
  ASSUME NEW x, Good(x), x.conn = "Ready", NEW u \in SendPending(x)
  PROVE  Good(u) /\ Keeps(x, u)
  <1>1. CASE x.pending = {} BY <1>1 DEF SendPending, Keeps
  <1>2. CASE x.pending # {}
    <2>1. x.single \subseteq x.pending /\ x.pending \subseteq Chan
      BY DEF Good, Accounted, State
    <2>2. PICK b \in SUBSET x.pending :
             u \in (IF CanSend(x) THEN {Shipped(x, b)} ELSE Restart(Unshipped(x, b)))
      BY <1>2, <2>1 DEF SendPending, Shipped, Unshipped, Without
    <2>3. CASE CanSend(x) BY <2>2, <2>3, ShippedIsGood
    <2>4. CASE ~CanSend(x) BY <2>1, <2>2, <2>4, UnshippedIs
    <2> QED BY <2>3, <2>4
  <1> QED BY <1>1, <1>2

\* The queue without its head.
LEMMA TailIs ==
  ASSUME NEW q \in Seq(Work), q # <<>>, Once(q)
  PROVE  /\ Tail(q) \in Seq(Work) /\ Once(Tail(q)) /\ Head(q) \in Work
         /\ ToSet(q) = {Head(q)} \cup ToSet(Tail(q))
         /\ Head(q) \in Stmt => Head(q) \notin ToSet(Tail(q))
  <1> DEFINE t == Tail(q)
  <1>1. Len(q) \in Nat /\ Len(q) >= 1 /\ DOMAIN q = 1 .. Len(q) /\ Head(q) = q[1]
    BY EmptySeq, HeadTailProperties
  <1>2. t \in Seq(Work) /\ DOMAIN t = 1 .. (Len(q) - 1) /\ \A i \in DOMAIN t : t[i] = q[i + 1]
    BY <1>1, HeadTailProperties
  <1>3. Head(q) \in Work BY <1>1
  <1> HIDE DEF t
  <1>4. \A i \in DOMAIN q : q[i] \in {Head(q)} \cup ToSet(t)
    <2> SUFFICES ASSUME NEW i \in DOMAIN q, i # 1 PROVE q[i] \in ToSet(t)
      BY <1>1
    <2>1. i - 1 \in DOMAIN t /\ t[i - 1] = q[i] BY <1>1, <1>2
    <2> QED BY <2>1 DEF ToSet
  <1>5. \A i \in DOMAIN t : t[i] = q[i + 1] /\ i + 1 \in DOMAIN q /\ i + 1 # 1
    BY <1>1, <1>2
  <1>6. ToSet(q) = {Head(q)} \cup ToSet(t)
    <2>1. ToSet(q) \subseteq {Head(q)} \cup ToSet(t) BY <1>4 DEF ToSet
    <2>2. Head(q) \in ToSet(q) BY <1>1 DEF ToSet
    <2>3. ToSet(t) \subseteq ToSet(q) BY <1>5 DEF ToSet
    <2> QED BY <2>1, <2>2, <2>3
  <1>7. Head(q) \in Stmt => Head(q) \notin ToSet(t) BY <1>1, <1>5 DEF ToSet, Once
  <1>8. Once(t)
    <2> SUFFICES ASSUME NEW i \in DOMAIN t, NEW j \in DOMAIN t, t[i] = t[j], t[i] \in Stmt
                 PROVE  i = j
      BY DEF Once
    <2>1. i + 1 = j + 1 BY <1>5 DEF Once
    <2> QED BY <1>1, <1>2, <2>1
  <1> QED BY <1>2, <1>3, <1>6, <1>7, <1>8 DEF t

\* The statement at the head goes out.
Dispatched(x) ==
    LET s == Head(x.queue)
    IN  [Sent(x, Cmd("statement", {})) EXCEPT
            !.queue = Tail(@), !.flight = s,
            !.timer = IF s \in Limited THEN "flight" ELSE @]

LEMMA DispatchedIsGood ==
  ASSUME NEW x, Good(x), x.conn = "Ready", x.queue # <<>>
  PROVE  Good(Dispatched(x)) /\ Passes(x, Dispatched(x))
  <1> DEFINE c == Cmd("statement", {})
             s == Head(x.queue)
             t == Tail(x.queue)
             y == Dispatched(x)
  <1>1. x \in State /\ x.queue \in Seq(Work) /\ Apart(x) /\ x.flight = None /\ x.sent = {}
    BY DEF Good, State, OneCommand
  <1>2. c \in Cmds /\ c.kind = "statement" BY CmdIs
  <1>3. /\ t \in Seq(Work) /\ Once(t) /\ s \in Work
        /\ ToSet(x.queue) = {s} \cup ToSet(t) /\ (s \in Stmt => s \notin ToSet(t))
    BY <1>1, TailIs DEF Apart
  <1>4. y = [x EXCEPT !.conn = "Busy", !.cmd = c, !.queue = t, !.flight = s,
                      !.timer = IF s \in Limited THEN "flight" ELSE @]
    BY <1>1 DEF Dispatched, Sent, State
  <1> HIDE DEF c, s, t, y
  <1>5. y \in State BY ZenonT(60), <1>1, <1>2, <1>3, <1>4 DEF State
  <1>6. /\ y.conn = "Busy" /\ y.cmd = c /\ y.queue = t /\ y.flight = s
        /\ y.pending = x.pending /\ y.single = x.single /\ y.sent = x.sent /\ y.lost = x.lost
        /\ y.detached = x.detached /\ y.down = x.down /\ y.registry = x.registry
        /\ y.confirmed = x.confirmed /\ y.rejected = x.rejected /\ y.subs = x.subs
        /\ y.link = x.link
    BY <1>1, <1>4 DEF State
  <1>7. Accounted(y) BY <1>6 DEF Good, Accounted
  <1>8. OneCommand(y) BY <1>1, <1>2, <1>6 DEF Good, OneCommand
  <1>9. Apart(y) BY <1>1, <1>3, <1>6 DEF Apart, Queued
  <1>10. Passes(x, y) BY <1>1, <1>3, <1>6, ListenerConstants DEF Passes, Place, Queued
  <1> QED BY <1>5, <1>7, <1>8, <1>9, <1>10 DEF Good, y

LEMMA SendNextIs ==
  ASSUME NEW x, Good(x), NEW u \in SendNext(x)
  PROVE  Good(u) /\ Passes(x, u)
  <1>1. Passes(x, x) BY DEF Passes
  <1>2. CASE x.conn # "Ready" \/ x.flight # None BY <1>1, <1>2 DEF SendNext
  <1>3. CASE x.conn = "Ready" /\ x.flight = None /\ x.pending # {}
    BY <1>3, SendPendingIs, KeepsPasses DEF SendNext
  <1>4. CASE x.conn = "Ready" /\ x.flight = None /\ x.pending = {} /\ x.queue = <<>>
    BY <1>1, <1>4 DEF SendNext
  <1>5. CASE x.conn = "Ready" /\ x.flight = None /\ x.pending = {} /\ x.queue # <<>>
    <2>1. CASE CanSend(x)
      <3>1. u = Dispatched(x) BY <1>5, <2>1 DEF SendNext, Dispatched
      <3> QED BY <1>5, <3>1, DispatchedIsGood
    <2>2. CASE ~CanSend(x)
      <3>1. u \in Restart(Unsent(x)) BY <1>5, <2>2 DEF SendNext
      <3>2. Unsent(x) \in State /\ Keeps(x, Unsent(x)) /\ Apart(Unsent(x))
        BY UnsentIs DEF Good
      <3>3. Good(u) /\ Keeps(Unsent(x), u) BY <3>1, <3>2, RestartIs
      <3>4. Keeps(x, u) BY <3>2, <3>3, KeepsPasses
      <3> QED BY <3>3, <3>4, KeepsPasses
    <2> QED BY <2>1, <2>2
  <1> QED BY <1>2, <1>3, <1>4, <1>5

\* A limit is armed, or the handler ends.
LEMMA WatchQueueIs ==
  ASSUME NEW x, Good(x)
  PROVE  /\ Good(WatchQueue(x)) /\ Keeps(x, WatchQueue(x))
         /\ \A z : Passes(z, x) => Passes(z, WatchQueue(x))
  <1>1. x \in State BY DEF Good
  <1>2. WatchQueue(x) = x \/ WatchQueue(x) = [x EXCEPT !.timer = "watch", !.stale = FALSE]
    BY DEF WatchQueue
  <1> DEFINE y == [x EXCEPT !.timer = "watch", !.stale = FALSE]
  <1>3. y \in State /\ Alike(x, y) BY <1>1 DEF State, Alike
  <1>4. Alike(x, x) BY DEF Alike
  <1> HIDE DEF y
  <1>5. WatchQueue(x) \in State /\ Alike(x, WatchQueue(x))
    BY <1>1, <1>2, <1>3, <1>4 DEF y
  <1> QED BY <1>5, AlikeIsGood

LEMMA DoneIs ==
  ASSUME NEW x, Good(x)
  PROVE  /\ Good(Done(x)) /\ Keeps(x, Done(x))
         /\ \A z : Passes(z, x) => Passes(z, Done(x))
  <1>1. x \in State BY DEF Good
  <1>2. Done(x) \in State /\ Alike(x, Done(x))
    BY ZenonT(60), <1>1 DEF Done, State, Alike
  <1> QED BY <1>2, AlikeIsGood

LEMMA FinishIs ==
  ASSUME NEW x, Good(x), NEW u \in Finish(x)
  PROVE  Good(u) /\ Passes(x, u)
  <1>1. PICK v \in SendNext(x) :
          u \in (IF ~v.same THEN {Done(v)}
                 ELSE IF v.conn = "Busy" /\ v.cmd.at = "buffer" THEN {[v EXCEPT !.io = "again"]}
                 ELSE {Done(WatchQueue(v))})
    BY DEF Finish
  <1>2. Good(v) /\ Passes(x, v) BY SendNextIs
  <1>3. CASE u = Done(v) BY <1>2, <1>3, DoneIs
  <1>4. CASE u = [v EXCEPT !.io = "again"]
    <2>1. u \in State /\ Alike(v, u) BY SMTT(60), <1>2, <1>4 DEF Good, State, Alike
    <2> QED BY <1>2, <2>1, AlikeIsGood
  <1>5. CASE u = Done(WatchQueue(v))
    <2>1. Good(WatchQueue(v)) /\ Passes(x, WatchQueue(v)) BY <1>2, WatchQueueIs
    <2> QED BY <1>5, <2>1, DoneIs
  <1> QED BY <1>1, <1>3, <1>4, <1>5

-----------------------------------------------------------------------------
(* on_listener_io().                                                       *)

\* Nobody hears of a channel that is confirmed when the pool is muted, or of one
\* that was told.
LEMMA FewerConfirmed ==
  ASSUME NEW x, Good(x), NEW some \in SUBSET x.confirmed
  PROVE  LET y == [x EXCEPT !.confirmed = some] IN Good(y) /\ Keeps(x, y)
  <1> DEFINE y == [x EXCEPT !.confirmed = some]
  <1>1. x \in State BY DEF Good
  <1>2. some \in SUBSET Chan BY <1>1 DEF State
  <1>3. y \in State BY <1>1, <1>2 DEF State
  <1>4. /\ y.confirmed = some /\ y.pending = x.pending /\ y.single = x.single /\ y.sent = x.sent
        /\ y.queue = x.queue /\ y.flight = x.flight /\ y.lost = x.lost
        /\ y.detached = x.detached /\ y.down = x.down /\ y.registry = x.registry
        /\ y.rejected = x.rejected /\ y.subs = x.subs
        /\ y.link = x.link /\ y.conn = x.conn /\ y.cmd = x.cmd
    BY <1>1 DEF State
  <1> HIDE DEF y
  <1>5. Accounted(y) BY <1>4 DEF Good, Accounted
  <1>6. OneCommand(y) BY <1>4 DEF Good, OneCommand
  <1>7. Apart(y) /\ Keeps(x, y) BY <1>4 DEF Good, Apart, Queued, Keeps, Place
  <1> QED BY <1>3, <1>5, <1>6, <1>7 DEF Good, y

LEMMA AfterNotifyIs ==
  ASSUME NEW x, Good(x), NEW u \in AfterNotify(x)
  PROVE  Good(u) /\ Passes(x, u)
  <1>1. x \in State BY DEF Good
  <1>2. CASE x.from = "LISTEN" /\ x.confirmed # {} /\ ~x.muted
    <2>1. u = [x EXCEPT !.io = "ready"] BY <1>2 DEF AfterNotify
    <2>2. u \in State /\ Alike(x, u) BY <1>1, <2>1 DEF State, Alike
    <2> QED BY <2>2, AlikeIsGood, KeepsPasses
  <1>3. CASE ~(x.from = "LISTEN" /\ x.confirmed # {} /\ ~x.muted) /\ ~x.muted
    <2>1. u \in Finish(x) BY <1>3 DEF AfterNotify
    <2> QED BY <2>1, FinishIs
  <1>4. CASE x.muted
    <2> DEFINE y == [x EXCEPT !.confirmed = {}]
    <2>1. u \in Finish(y) BY <1>4 DEF AfterNotify
    <2>2. Good(y) /\ Keeps(x, y) BY FewerConfirmed
    <2> HIDE DEF y
    <2>3. Good(u) /\ Passes(y, u) BY <2>1, <2>2, FinishIs
    <2> QED BY <2>2, <2>3, KeepsPasses
  <1> QED BY <1>2, <1>3, <1>4

\* libpq reads whatever there is.
LEMMA ReadOnIsGood ==
  ASSUME NEW x, Good(x)
  PROVE  LET y == [x EXCEPT !.cmd.at = IF @ = "wire" THEN "buffer" ELSE @] IN
         Good(y) /\ Keeps(x, y)
  <1> DEFINE y == [x EXCEPT !.cmd.at = IF @ = "wire" THEN "buffer" ELSE @]
             at == IF x.cmd.at = "wire" THEN "buffer" ELSE x.cmd.at
             c == [x.cmd EXCEPT !.at = at]
  <1>1. x \in State /\ x.cmd \in Cmds BY DEF Good, State
  <1>2. at \in {"server", "wire", "buffer"} /\ (at = "server" <=> x.cmd.at = "server")
    BY <1>1 DEF Cmds
  <1>3. y = [x EXCEPT !.cmd = c] BY <1>1 DEF State
  <1> HIDE DEF at, y
  <1>4. /\ c \in Cmds /\ c.kind = x.cmd.kind /\ c.chans = x.cmd.chans /\ c.ok = x.cmd.ok
        /\ c.at = at
    BY <1>1, <1>2 DEF Cmds
  <1> HIDE DEF c
  <1>5. y \in State BY <1>1, <1>3, <1>4 DEF State
  <1>6. /\ y.confirmed = x.confirmed /\ y.pending = x.pending /\ y.single = x.single
        /\ y.sent = x.sent
        /\ y.queue = x.queue /\ y.flight = x.flight /\ y.lost = x.lost
        /\ y.detached = x.detached /\ y.down = x.down /\ y.registry = x.registry
        /\ y.rejected = x.rejected /\ y.subs = x.subs
        /\ y.link = x.link /\ y.conn = x.conn /\ y.cmd = c
    BY <1>1, <1>3 DEF State
  <1>7. Accounted(y) BY <1>6 DEF Good, Accounted
  <1>8. OneCommand(y) BY <1>2, <1>4, <1>6 DEF Good, OneCommand
  <1>9. Apart(y) /\ Keeps(x, y) BY <1>6 DEF Good, Apart, Queued, Keeps, Place
  <1> QED BY <1>5, <1>7, <1>8, <1>9 DEF Good, y

\* The listener is replaced, and the handler is over.
LEMMA ReplacedIs ==
  ASSUME NEW x, Good(x), NEW u \in {Done(v) : v \in Restart(Unsent(x))}
  PROVE  Good(u) /\ Passes(x, u)
  <1>1. PICK v \in Restart(Unsent(x)) : u = Done(v)
    OBVIOUS
  <1>2. Unsent(x) \in State /\ Keeps(x, Unsent(x)) /\ Apart(Unsent(x)) BY UnsentIs DEF Good
  <1>3. Good(v) /\ Keeps(Unsent(x), v) BY <1>2, RestartIs
  <1>4. Passes(x, v) BY <1>2, <1>3, KeepsPasses
  <1> QED BY <1>1, <1>3, <1>4, DoneIs

Froms == {"none", "LISTEN", "statement", "notification"}
Ios == {"idle", "deliver", "notify", "ready", "again"}

LEMMA FromIsGood ==
  ASSUME NEW x, Good(x), NEW from \in Froms, NEW io \in Ios
  PROVE  /\ Good([x EXCEPT !.from = from]) /\ Keeps(x, [x EXCEPT !.from = from])
         /\ Good([x EXCEPT !.io = io]) /\ Keeps(x, [x EXCEPT !.io = io])
  <1>1. x \in State BY DEF Good
  <1>2. [x EXCEPT !.from = from] \in State /\ Alike(x, [x EXCEPT !.from = from])
    BY <1>1 DEF State, Alike, Froms
  <1>3. [x EXCEPT !.io = io] \in State /\ Alike(x, [x EXCEPT !.io = io])
    BY <1>1 DEF State, Alike, Ios
  <1> QED BY <1>2, <1>3, AlikeIsGood

LEMMA ConsumeIs ==
  ASSUME NEW x, Good(x), NEW from \in Froms, NEW u \in Consume(x, from)
  PROVE  Good(u) /\ Passes(x, u)
  <1> DEFINE f == [x EXCEPT !.from = from]
             y == [f EXCEPT !.cmd.at = IF @ = "wire" THEN "buffer" ELSE @]
  <1>1. x \in State /\ x.cmd \in Cmds BY DEF Good, State
  <1>2. y = [x EXCEPT !.from = from, !.cmd.at = IF x.cmd.at = "wire" THEN "buffer" ELSE @]
    BY <1>1 DEF State
  <1>3. Good(f) /\ Keeps(x, f) BY FromIsGood DEF Ios
  <1> HIDE DEF f
  <1>4. Good(y) /\ Keeps(f, y) BY <1>3, ReadOnIsGood
  <1> HIDE DEF y
  <1>5. \/ u \in {Done(v) : v \in Restart(Unsent(y))}
        \/ u \in AfterNotify(y)
        \/ u = [y EXCEPT !.io = "notify"]
    BY <1>2 DEF Consume
  <1>6. CASE u \in {Done(v) : v \in Restart(Unsent(y))}
    <2>1. Good(u) /\ Passes(y, u) BY <1>4, <1>6, ReplacedIs
    <2> QED BY <1>3, <1>4, <2>1, KeepsPasses
  <1>7. CASE u \in AfterNotify(y)
    <2>1. Good(u) /\ Passes(y, u) BY <1>4, <1>7, AfterNotifyIs
    <2> QED BY <1>3, <1>4, <2>1, KeepsPasses
  <1>8. CASE u = [y EXCEPT !.io = "notify"]
    <2>1. Good(u) /\ Keeps(y, u) BY <1>4, <1>8, FromIsGood DEF Ios, Froms
    <2> QED BY <1>3, <1>4, <2>1, KeepsPasses
  <1> QED BY <1>5, <1>6, <1>7, <1>8

\* The answer to a LISTEN: its channels are with the server, to be sent one by one, or
\* refused.
LEMMA JudgedIsGood ==
  ASSUME NEW x, Good(x), x.conn = "Busy", x.cmd.at # "server", x.flight = None
  PROVE  LET y == [Judged(Answered(x), x.cmd.ok) EXCEPT !.io = "notify"] IN
         Good(y) /\ Keeps(x, y) /\ y.conn = "Ready"
  <1> DEFINE a == [x EXCEPT !.conn = "Ready", !.cmd = NoCmd, !.stale = TRUE, !.same = TRUE,
                            !.io = "notify", !.sent = {}, !.batch = 0]
             y == [Judged(Answered(x), x.cmd.ok) EXCEPT !.io = "notify"]
  <1>1. x \in State /\ x.sent \in SUBSET Chan BY DEF Good, State
  <1>2. x.cmd.ok => x.sent \subseteq x.subs BY DEF Good, OneCommand
  <1>3. a \in State BY ZenonT(60), <1>1, NoCmdIs DEF State
  <1>4. /\ a.conn = "Ready" /\ a.cmd = NoCmd /\ a.sent = {}
        /\ a.confirmed = x.confirmed /\ a.pending = x.pending /\ a.single = x.single
        /\ a.queue = x.queue /\ a.flight = None /\ a.lost = x.lost
        /\ a.detached = x.detached /\ a.down = x.down /\ a.registry = x.registry
        /\ a.rejected = x.rejected /\ a.subs = x.subs /\ a.link = x.link
    BY <1>1 DEF State
  <1>5. \/ x.cmd.ok /\ y = [a EXCEPT !.rejected = @ \ x.sent, !.confirmed = @ \cup x.sent]
        \/ y = [a EXCEPT !.pending = @ \cup x.sent, !.single = @ \cup x.sent]
        \/ y = [a EXCEPT !.rejected = @ \cup x.sent]
    <2> DEFINE b == [Answered(x) EXCEPT !.sent = {}, !.batch = 0]
    <2>1. Answered(x).sent = x.sent /\ Answered(x).batch = x.batch BY <1>1 DEF Answered, State
    <2>2. b = [x EXCEPT !.conn = "Ready", !.cmd = NoCmd, !.stale = TRUE, !.same = TRUE,
                        !.sent = {}, !.batch = 0]
      BY <1>1 DEF Answered, State
    <2>3. b \in State
      <3>1. Answered(x) \in State BY ZenonT(60), <1>1, NoCmdIs DEF Answered, State
      <3> QED BY ZenonT(60), <3>1 DEF State
    <2>4. a = [b EXCEPT !.io = "notify"] BY <1>1, <2>2 DEF State
    <2> HIDE DEF a, b
    <2>5. CASE x.cmd.ok
      <3>1. y = [[b EXCEPT !.rejected = @ \ x.sent, !.confirmed = @ \cup x.sent]
                   EXCEPT !.io = "notify"]
        BY <2>1, <2>5 DEF Judged, b
      <3>2. y = [a EXCEPT !.rejected = @ \ x.sent, !.confirmed = @ \cup x.sent]
        BY <2>3, <2>4, <3>1 DEF State
      <3> QED BY <2>5, <3>2
    <2>6. CASE ~x.cmd.ok /\ x.batch > 1
      <3>1. y = [[b EXCEPT !.pending = @ \cup x.sent, !.single = @ \cup x.sent]
                   EXCEPT !.io = "notify"]
        BY <2>1, <2>6 DEF Judged, b
      <3>2. y = [a EXCEPT !.pending = @ \cup x.sent, !.single = @ \cup x.sent]
        BY <2>3, <2>4, <3>1 DEF State
      <3> QED BY <3>2
    <2>7. CASE ~x.cmd.ok /\ ~(x.batch > 1)
      <3>1. y = [[b EXCEPT !.rejected = @ \cup x.sent] EXCEPT !.io = "notify"]
        BY <2>1, <2>7 DEF Judged, b
      <3>2. y = [a EXCEPT !.rejected = @ \cup x.sent]
        BY <2>3, <2>4, <3>1 DEF State
      <3> QED BY <3>2
    <2> QED BY <2>5, <2>6, <2>7
  <1> HIDE DEF a, y
  <1>6. y \in State
    <2>1. CASE y = [a EXCEPT !.rejected = @ \ x.sent, !.confirmed = @ \cup x.sent]
      BY ZenonT(60), <1>1, <1>3, <2>1 DEF State
    <2>2. CASE y = [a EXCEPT !.pending = @ \cup x.sent, !.single = @ \cup x.sent]
      BY ZenonT(60), <1>1, <1>3, <2>2 DEF State
    <2>3. CASE y = [a EXCEPT !.rejected = @ \cup x.sent]
      BY SMTT(60), <1>1, <1>3, <2>3 DEF State
    <2> QED BY <1>5, <2>1, <2>2, <2>3
  <1>7. /\ y.conn = "Ready" /\ y.cmd = NoCmd /\ y.sent = {}
        /\ y.queue = x.queue /\ y.flight = None /\ y.lost = x.lost
        /\ y.detached = x.detached /\ y.down = x.down /\ y.registry = x.registry
        /\ y.subs = x.subs /\ y.link = x.link
        /\ \/ /\ x.cmd.ok /\ y.rejected = x.rejected \ x.sent
              /\ y.confirmed = x.confirmed \cup x.sent
              /\ y.pending = x.pending /\ y.single = x.single
           \/ /\ y.pending = x.pending \cup x.sent /\ y.single = x.single \cup x.sent
              /\ y.rejected = x.rejected /\ y.confirmed = x.confirmed
           \/ /\ y.rejected = x.rejected \cup x.sent /\ y.confirmed = x.confirmed
              /\ y.pending = x.pending /\ y.single = x.single
    <2>1. CASE x.cmd.ok /\ y = [a EXCEPT !.rejected = @ \ x.sent, !.confirmed = @ \cup x.sent]
      BY <1>3, <1>4, <2>1 DEF State
    <2>2. CASE y = [a EXCEPT !.pending = @ \cup x.sent, !.single = @ \cup x.sent]
      BY <1>3, <1>4, <2>2 DEF State
    <2>3. CASE y = [a EXCEPT !.rejected = @ \cup x.sent]
      BY <1>3, <1>4, <2>3 DEF State
    <2> QED BY <1>5, <2>1, <2>2, <2>3
  <1>8. Accounted(y) BY <1>2, <1>7 DEF Good, Accounted
  <1>9. OneCommand(y) BY <1>7 DEF Good, OneCommand
  <1>10. Apart(y) /\ Keeps(x, y) BY <1>7 DEF Good, Apart, Queued, Keeps, Place
  <1> QED BY <1>6, <1>7, <1>8, <1>9, <1>10 DEF Good, y

LEMMA BusyReadIs ==
  ASSUME NEW x, Good(x), x.conn = "Busy", x.cmd.at # "server", x.flight = None,
         NEW u \in BusyRead(x)
  PROVE  Good(u) /\ Passes(x, u)
  <1> DEFINE y == [Judged(Answered(x), x.cmd.ok) EXCEPT !.io = "notify"]
  <1>1. Good(y) /\ Keeps(x, y) /\ y.conn = "Ready" BY JudgedIsGood
  <1>2. PICK v \in SendPending(y) : u \in (IF ~v.same THEN {Done(v)} ELSE Consume(v, "LISTEN"))
    BY DEF BusyRead
  <1> HIDE DEF y
  <1>3. Good(v) /\ Keeps(y, v) BY <1>1, SendPendingIs
  <1>4. Keeps(x, v) BY <1>1, <1>3, KeepsPasses
  <1>5. Good(u) /\ Passes(v, u)
    <2>1. CASE u = Done(v) BY <1>3, <2>1, DoneIs, KeepsPasses
    <2>2. CASE u \in Consume(v, "LISTEN") BY <1>3, <2>2, ConsumeIs DEF Froms
    <2> QED BY <1>2, <2>1, <2>2
  <1> QED BY <1>4, <1>5, KeepsPasses

\* The answer to a statement, whose handlers are called.
LEMMA StatementRead ==
  ASSUME NEW x, Good(x), x.conn = "Busy", x.flight # None, NEW u \in BusyRead(x)
  PROVE  /\ Good(u) /\ u.flight = None /\ u.queue = x.queue /\ u.lost = x.lost
         /\ u.detached = x.detached /\ u.down = x.down
  <1>1. x \in State /\ x.sent = {} BY DEF Good, OneCommand
  <1>2. u = [x EXCEPT !.conn = "Ready", !.cmd = NoCmd, !.stale = TRUE, !.same = TRUE,
                      !.io = "deliver", !.flight = None, !.timer = "none"]
    BY DEF BusyRead, Answered
  <1>3. u \in State BY ZenonT(60), <1>1, <1>2, NoCmdIs DEF State
  <1>4. /\ u.conn = "Ready" /\ u.cmd = NoCmd /\ u.sent = {}
        /\ u.confirmed = x.confirmed /\ u.pending = x.pending /\ u.single = x.single
        /\ u.queue = x.queue /\ u.flight = None /\ u.lost = x.lost
        /\ u.detached = x.detached /\ u.down = x.down /\ u.registry = x.registry
        /\ u.rejected = x.rejected /\ u.subs = x.subs /\ u.link = x.link
    BY <1>1, <1>2 DEF State
  <1>5. Accounted(u) BY <1>1, <1>4 DEF Good, Accounted
  <1>6. OneCommand(u) BY <1>4 DEF Good, OneCommand
  <1>7. Apart(u) BY <1>4, ListenerConstants DEF Good, Apart, Queued
  <1> QED BY <1>3, <1>4, <1>5, <1>6, <1>7 DEF Good

\* The name goes ahead of the statements.
LEMMA NameAhead ==
  ASSUME NEW q \in Seq(Work), Once(q), NEW n \in Work \ Stmt
  PROVE  /\ <<n>> \o q \in Seq(Work) /\ Once(<<n>> \o q)
         /\ \A s \in Stmt : s \in ToSet(<<n>> \o q) <=> s \in ToSet(q)
  <1> DEFINE p == <<n>> \o q
  <1>1. /\ p \in Seq(Work) /\ DOMAIN q = 1 .. Len(q) /\ Len(q) \in Nat
        /\ DOMAIN p = 1 .. (Len(q) + 1) /\ p[1] = n
        /\ \A i \in DOMAIN q : p[i + 1] = q[i] /\ i + 1 \in DOMAIN p
    <2>1. <<n>> \in Seq(Work) /\ Len(<<n>>) = 1 /\ <<n>>[1] = n
      OBVIOUS
    <2>2. Len(q) \in Nat /\ DOMAIN q = 1 .. Len(q) BY LenProperties
    <2>3. /\ p \in Seq(Work) /\ Len(p) = 1 + Len(q)
          /\ \A i \in 1 .. Len(p) : p[i] = IF i <= 1 THEN <<n>>[i] ELSE q[i - 1]
      BY <2>1, ConcatProperties
    <2> HIDE DEF p
    <2>4. DOMAIN p = 1 .. Len(p) BY <2>3, LenProperties
    <2>5. \A i \in 1 .. Len(q) : i + 1 \in 1 .. Len(p) /\ (i + 1) - 1 = i /\ ~(i + 1 <= 1)
      BY <2>2, <2>3
    <2>6. 1 \in 1 .. Len(p) BY <2>2, <2>3
    <2> QED BY <2>1, <2>2, <2>3, <2>4, <2>5, <2>6
  <1>2. \A i \in DOMAIN p : i = 1 \/ (i - 1 \in DOMAIN q /\ p[i] = q[i - 1] /\ i \in Nat)
    <2> SUFFICES ASSUME NEW i \in DOMAIN p, i # 1
                 PROVE  i - 1 \in DOMAIN q /\ p[i] = q[i - 1] /\ i \in Nat
      OBVIOUS
    <2> HIDE DEF p
    <2>1. i - 1 \in DOMAIN q /\ (i - 1) + 1 = i /\ i \in Nat BY <1>1
    <2>2. p[(i - 1) + 1] = q[i - 1] BY <1>1, <2>1
    <2> QED BY <2>1, <2>2
  <1> HIDE DEF p
  <1>3. \A i \in DOMAIN p : p[i] \in Stmt => i - 1 \in DOMAIN q /\ p[i] = q[i - 1] /\ i \in Nat
    BY <1>1, <1>2
  <1>4. Once(p)
    <2> SUFFICES ASSUME NEW i \in DOMAIN p, NEW j \in DOMAIN p, p[i] = p[j], p[i] \in Stmt
                 PROVE  i = j
      BY DEF Once
    <2>1. i - 1 = j - 1 /\ i \in Nat /\ j \in Nat BY <1>3 DEF Once
    <2> QED BY <2>1
  <1>5. \A s \in Stmt : s \in ToSet(p) => s \in ToSet(q) BY <1>3 DEF ToSet
  <1>6. \A s \in ToSet(q) : s \in ToSet(p) BY <1>1 DEF ToSet
  <1> QED BY <1>1, <1>4, <1>5, <1>6 DEF p

LEMMA ConnectedIs ==
  ASSUME NEW x, Good(x), x.conn = "Connecting", NEW u \in Connected(x)
  PROVE  Good(u) /\ Passes(x, u)
  <1> DEFINE q == IF Name = None THEN x.queue ELSE <<Name>> \o x.queue
             y == [x EXCEPT !.conn = "Ready", !.io = "notify", !.queue = q]
  <1>1. /\ x \in State /\ x.queue \in Seq(Work) /\ Once(x.queue) /\ x.flight = None /\ x.sent = {}
        /\ x.registry \subseteq x.pending /\ x.confirmed = {} /\ x.link # "gone"
    BY DEF Good, State, Apart, OneCommand, Accounted
  <1>2. q \in Seq(Work) /\ Once(q) /\ \A s \in Stmt : s \in ToSet(q) <=> s \in ToSet(x.queue)
    <2>1. CASE Name = None BY <1>1, <2>1
    <2>2. CASE Name # None
      <3>1. Name \in Work \ Stmt BY <2>2, ListenerConstants DEF Work
      <3> QED BY <1>1, <2>2, <3>1, NameAhead
    <2> QED BY <2>1, <2>2
  <1>3. u \in Finish(y) BY <1>1 DEF Connected, State
  <1> HIDE DEF q
  <1>4. y \in State BY ZenonT(60), <1>1, <1>2 DEF State
  <1>5. /\ y.conn = "Ready" /\ y.cmd = x.cmd /\ y.sent = {} /\ y.queue = q /\ y.flight = None
        /\ y.confirmed = {} /\ y.pending = x.pending /\ y.single = x.single /\ y.lost = x.lost
        /\ y.detached = x.detached /\ y.down = x.down /\ y.registry = x.registry
        /\ y.rejected = x.rejected /\ y.subs = x.subs /\ y.link = x.link
    BY <1>1 DEF State
  <1> HIDE DEF y
  <1>6. Accounted(y) BY <1>1, <1>5 DEF Good, Accounted
  <1>7. OneCommand(y) BY <1>1, <1>5 DEF OneCommand
  <1>8. Apart(y) BY <1>2, <1>5, <1>1 DEF Good, Apart, Queued
  <1>9. Good(y) BY <1>4, <1>6, <1>7, <1>8 DEF Good
  <1>10. Good(u) /\ Passes(y, u) BY <1>3, <1>9, FinishIs
  <1>11. Passes(x, u) BY <1>1, <1>2, <1>5, <1>10, ListenerConstants DEF Passes, Place, Queued
  <1> QED BY <1>10, <1>11

-----------------------------------------------------------------------------
(* The calls.                                                              *)

\* An element put in at position k moves those from k on back by one.
LEMMA InsertAtByIndex ==
    ASSUME NEW S, NEW s \in Seq(S), NEW q \in S, NEW k \in 1..Len(s) + 1
    PROVE  /\ InsertAt(s, k, q) \in Seq(S)
           /\ Len(InsertAt(s, k, q)) = Len(s) + 1
           /\ \A i \in 1..Len(s) + 1 :
                InsertAt(s, k, q)[i] = IF i < k THEN s[i] ELSE IF i = k THEN q ELSE s[i - 1]
<1> DEFINE front == SubSeq(s, 1, k - 1)
           back  == SubSeq(s, k, Len(s))
           upto  == front \o <<q>>
<1>1. Len(s) \in Nat /\ \A i \in 1..Len(s) : s[i] \in S
  BY LenProperties, ElementOfSeq
<1>2. /\ front \in Seq(S) /\ Len(front) = k - 1
      /\ \A i \in 1..k - 1 : front[i] = s[i]
  <2>1. \A i \in 1..k - 1 : s[i] \in S
    BY <1>1
  <2> HIDE DEF front
  <2> QED BY <2>1, <1>1, SubSeqProperties DEF front
<1>3. /\ back \in Seq(S) /\ Len(back) = Len(s) - k + 1
      /\ \A i \in 1..Len(s) - k + 1 : back[i] = s[k + i - 1]
  <2>1. \A i \in k..Len(s) : s[i] \in S
    BY <1>1
  <2> HIDE DEF back
  <2> QED BY <2>1, <1>1, SubSeqProperties DEF back
<1> HIDE DEF front, back
<1>4. /\ <<q>> \in Seq(S) /\ Len(<<q>>) = 1 /\ <<q>>[1] = q
  OBVIOUS
<1>5. /\ upto \in Seq(S) /\ Len(upto) = k
      /\ \A i \in 1..k : upto[i] = IF i <= k - 1 THEN front[i] ELSE <<q>>[i - (k - 1)]
  BY <1>1, <1>2, <1>4, ConcatProperties
<1>6. \A i \in 1..k : upto[i] = IF i < k THEN s[i] ELSE q
  BY <1>1, <1>2, <1>4, <1>5
<1> HIDE DEF upto
<1>7. InsertAt(s, k, q) = upto \o back
  BY DEF InsertAt, upto, front, back
<1>8. /\ upto \o back \in Seq(S) /\ Len(upto \o back) = Len(upto) + Len(back)
      /\ \A i \in 1..Len(upto) + Len(back) :
            (upto \o back)[i] = IF i <= Len(upto) THEN upto[i] ELSE back[i - Len(upto)]
  BY <1>3, <1>5, ConcatProperties
<1> QED BY <1>1, <1>3, <1>5, <1>6, <1>7, <1>8

\* listener_execute(): a statement joins the queue, behind the others or ahead of
\* those nobody waits for.
LEMMA InsertIs ==
  ASSUME NEW q \in Seq(Work), Once(q), NEW s \in Stmt, s \notin ToSet(q), NEW k \in 1 .. Len(q) + 1
  PROVE  LET p == InsertAt(q, k, s) IN
         p \in Seq(Work) /\ Once(p) /\ ToSet(p) = ToSet(q) \cup {s}
  <1> DEFINE p == InsertAt(q, k, s)
             n == Len(q)
  <1>1. n \in Nat /\ DOMAIN q = 1 .. n BY LenProperties
  <1>2. s \in Work BY DEF Work
  <1>3. /\ p \in Seq(Work) /\ Len(p) = n + 1
        /\ \A i \in 1 .. n + 1 : p[i] = IF i < k THEN q[i] ELSE IF i = k THEN s ELSE q[i - 1]
    BY <1>2, InsertAtByIndex
  <1> HIDE DEF p
  <1>4. DOMAIN p = 1 .. n + 1 BY <1>3, LenProperties
  <1> HIDE DEF n
  <1> DEFINE from(i) == IF i < k THEN i ELSE i - 1
  <1>5. \A i \in DOMAIN p : i = k \/ (from(i) \in DOMAIN q /\ p[i] = q[from(i)])
    BY <1>1, <1>3, <1>4 DEF n
  <1>6. \A i \in DOMAIN p, j \in DOMAIN p : i # k /\ j # k /\ from(i) = from(j) => i = j
    BY <1>1, <1>4 DEF n
  <1>7. \A i \in DOMAIN q : \E j \in DOMAIN p : p[j] = q[i]
    <2> TAKE i \in DOMAIN q
    <2>1. CASE i < k
      <3>1. i \in DOMAIN p /\ p[i] = q[i] BY <1>1, <1>3, <1>4, <2>1
      <3> QED BY <3>1
    <2>2. CASE ~(i < k)
      <3>1. i + 1 \in DOMAIN p /\ ~(i + 1 < k) /\ i + 1 # k /\ (i + 1) - 1 = i
        BY <1>1, <1>4, <2>2 DEF n
      <3>2. p[i + 1] = q[(i + 1) - 1] BY <1>3, <1>4, <3>1
      <3> QED BY <3>1, <3>2
    <2> QED BY <2>1, <2>2
  <1>8. k \in DOMAIN p /\ p[k] = s
    <2>1. k \in 1 .. n + 1 /\ ~(k < k) BY <1>1 DEF n
    <2> QED BY <1>3, <1>4, <2>1
  <1> HIDE DEF from
  <1>9. ToSet(p) = ToSet(q) \cup {s}
    <2>1. ToSet(p) \subseteq ToSet(q) \cup {s} BY <1>5, <1>8 DEF ToSet
    <2>2. ToSet(q) \subseteq ToSet(p) BY <1>7 DEF ToSet
    <2>3. s \in ToSet(p) BY <1>8 DEF ToSet
    <2> QED BY <2>1, <2>2, <2>3
  <1>10. Once(p)
    <2> SUFFICES ASSUME NEW i \in DOMAIN p, NEW j \in DOMAIN p, p[i] = p[j], p[i] \in Stmt
                 PROVE  i = j
      BY DEF Once
    <2>1. \A m \in DOMAIN p : m # k => p[m] # s BY <1>5 DEF ToSet
    <2>2. CASE i = k \/ j = k BY <1>8, <2>1, <2>2
    <2>3. CASE i # k /\ j # k
      <3>1. q[from(i)] = q[from(j)] /\ q[from(i)] \in Stmt BY <1>5, <2>3
      <3>2. from(i) = from(j) BY <1>5, <2>3, <3>1 DEF Once
      <3> QED BY <1>6, <2>3, <3>2
    <2> QED BY <2>2, <2>3
  <1> QED BY <1>3, <1>9, <1>10 DEF p

LEMMA AppendIs ==
  ASSUME NEW q \in Seq(Work), Once(q), NEW s \in Stmt, s \notin ToSet(q)
  PROVE  LET p == Append(q, s) IN
         p \in Seq(Work) /\ Once(p) /\ ToSet(p) = ToSet(q) \cup {s}
  <1> DEFINE p == Append(q, s)
             n == Len(q)
  <1>1. n \in Nat /\ DOMAIN q = 1 .. n BY LenProperties
  <1>2. s \in Work BY DEF Work
  <1>3. p \in Seq(Work) /\ Len(p) = n + 1 /\ (\A i \in 1 .. n : p[i] = q[i]) /\ p[n + 1] = s
    BY <1>2, AppendProperties
  <1> HIDE DEF p
  <1>4. DOMAIN p = 1 .. n + 1 BY <1>3, LenProperties
  <1> HIDE DEF n
  <1>5. \A i \in DOMAIN p : i = n + 1 \/ (i \in DOMAIN q /\ p[i] = q[i])
    BY <1>1, <1>3, <1>4
  <1>6. \A i \in DOMAIN q : i \in DOMAIN p /\ p[i] = q[i] BY <1>1, <1>3, <1>4
  <1>7. n + 1 \in DOMAIN p BY <1>1, <1>4
  <1>8. ToSet(p) = ToSet(q) \cup {s}
    <2>1. ToSet(p) \subseteq ToSet(q) \cup {s} BY <1>3, <1>5 DEF ToSet
    <2>2. ToSet(q) \subseteq ToSet(p) BY <1>6 DEF ToSet
    <2>3. s \in ToSet(p) BY <1>3, <1>7 DEF ToSet
    <2> QED BY <2>1, <2>2, <2>3
  <1>9. \A i \in DOMAIN q : q[i] # s BY DEF ToSet
  <1>10. Once(p) BY <1>3, <1>5, <1>9 DEF Once
  <1> QED BY <1>3, <1>8, <1>10 DEF p

LEMMA AheadIs ==
  ASSUME NEW q \in Seq(Work), Once(q), NEW s \in Stmt, s \notin ToSet(q), NEW detached
  PROVE  LET p == Ahead(q, s, detached) IN
         p \in Seq(Work) /\ Once(p) /\ ToSet(p) = ToSet(q) \cup {s}
  <1> DEFINE S == {i \in DOMAIN q : \A j \in 1 .. i : q[j] \notin detached}
             k == Cardinality(S)
  <1>1. Len(q) \in Nat /\ DOMAIN q = 1 .. Len(q) BY LenProperties
  <1>2. S \subseteq 1 .. Len(q) BY <1>1
  <1> HIDE DEF S
  <1>3. IsFiniteSet(1 .. Len(q)) /\ Cardinality(1 .. Len(q)) = Len(q)
    <2>1. Cardinality(1 .. Len(q)) = IF 1 > Len(q) THEN 0 ELSE Len(q) - 1 + 1
      BY <1>1, FS_Interval
    <2>2. IsFiniteSet(1 .. Len(q)) BY <1>1, FS_Interval
    <2> QED BY <1>1, <2>1, <2>2
  <1>4. IsFiniteSet(S) /\ k <= Len(q) BY ZenonT(60), <1>2, <1>3, FS_Subset
  <1>5. k \in Nat BY <1>4, FS_CardinalityType
  <1>6. Ahead(q, s, detached) = InsertAt(q, k + 1, s) BY DEF Ahead, S
  <1> HIDE DEF k
  <1>7. k + 1 \in 1 .. Len(q) + 1 BY <1>1, <1>4, <1>5
  <1> QED BY <1>6, <1>7, InsertIs

\* A dead listener is one known to have failed.
LEMMA DeadIs == ASSUME NEW x, Good(x) PROVE Dead(x) <=> x.conn = "Error"
  BY DEF Good, OneCommand, Dead

\* listen(): the channel is in the registry, and pending unless it was there before.
LEMMA ListenedIs ==
  ASSUME NEW x, Good(x), NEW c \in Chan, NEW ready \in BOOLEAN, NEW u \in Listened(x, c, ready)
  PROVE  Good(u) /\ Keeps(x, u)
  <1> DEFINE r == IF ready THEN x.ready \cup {c} ELSE x.ready
             w == IF ready THEN x.waits \cup {c} ELSE x.waits
             p == IF c \notin x.registry \/ (ready /\ ~(c \in x.sent \cup x.confirmed))
                  THEN x.pending \cup {c} ELSE x.pending
             y == [x EXCEPT !.registry = @ \cup {c}, !.ready = r, !.waits = w, !.pending = p]
  <1>1. x \in State /\ Accounted(x) /\ OneCommand(x) /\ Apart(x) BY DEF Good
  <1>2. r \in SUBSET Chan /\ w \in SUBSET Chan BY <1>1 DEF State
  <1>3. /\ p \in SUBSET Chan /\ x.pending \subseteq p
        /\ c \in x.registry \/ c \in p
    BY <1>1 DEF State
  <1>4. y = [x EXCEPT !.registry = @ \cup {c},
                      !.ready = IF ready THEN @ \cup {c} ELSE @,
                      !.waits = IF ready THEN @ \cup {c} ELSE @,
                      !.pending = IF c \notin x.registry \/ (ready /\ ~(c \in x.sent \cup x.confirmed))
                                  THEN @ \cup {c} ELSE @]
    BY <1>1 DEF State
  <1>5. Listened(x, c, ready) =
          IF InNotify(y) THEN {y}
          ELSE IF y.conn = "none" THEN StartListener(y)
          ELSE IF Dead(y) THEN Restart(y)
          ELSE IF y.conn = "Ready" THEN SendPending(y)
          ELSE {y}
    BY <1>4 DEF Listened
  <1> HIDE DEF r, w, p
  <1>6. y \in State BY ZenonT(60), <1>1, <1>2, <1>3 DEF State
  <1>7. /\ y.registry = x.registry \cup {c} /\ y.pending = p
        /\ y.conn = x.conn /\ y.cmd = x.cmd /\ y.sent = x.sent /\ y.queue = x.queue
        /\ y.flight = x.flight /\ y.confirmed = x.confirmed /\ y.single = x.single
        /\ y.lost = x.lost /\ y.detached = x.detached /\ y.down = x.down
        /\ y.rejected = x.rejected /\ y.subs = x.subs /\ y.link = x.link
    BY <1>1 DEF State
  <1> HIDE DEF y
  <1>8. Accounted(y)
    <2>1. y.registry \subseteq x.registry \cup y.pending BY <1>3, <1>7
    <2> QED BY <1>1, <1>3, <1>7, <2>1 DEF Accounted
  <1>9. OneCommand(y) BY <1>1, <1>3, <1>7 DEF OneCommand
  <1>10. Apart(y) /\ Keeps(x, y) BY <1>1, <1>7 DEF Apart, Queued, Keeps, Place
  <1>11. Good(y) BY <1>6, <1>8, <1>9, <1>10 DEF Good
  <1>12. Good(u) /\ Keeps(y, u)
    <2>1. CASE u = y BY <1>11, <2>1 DEF Keeps
    <2>2. CASE y.conn = "none" /\ u \in StartListener(y) BY <1>11, <2>2, StartIs
    <2>3. CASE u \in Restart(y) BY <1>11, <2>3, RestartIs DEF Good
    <2>4. CASE y.conn = "Ready" /\ u \in SendPending(y) BY <1>11, <2>4, SendPendingIs
    <2> QED BY <1>5, <2>1, <2>2, <2>3, <2>4
  <1> QED BY <1>10, <1>12, KeepsPasses

\* unlisten(): the channel is forgotten here, and given up at the server if it can be.
LEMMA UnlistenedIs ==
  ASSUME NEW x, Good(x), NEW c \in Chan
  PROVE  Good(Unlistened(x, c)) /\ Keeps(x, Unlistened(x, c))
  <1> DEFINE y == [x EXCEPT !.registry = @ \ {c}, !.ready = @ \ {c}, !.waits = @ \ {c},
                            !.pending = @ \ {c}, !.sent = @ \ {c}, !.confirmed = @ \ {c},
                            !.single = @ \ {c}, !.rejected = @ \ {c}]
             g == Cmd("UNLISTEN", {c})
  <1>1. x \in State /\ Accounted(x) /\ OneCommand(x) /\ Apart(x) BY DEF Good
  <1>2. y \in State BY <1>1 DEF State
  <1>3. /\ y.registry = x.registry \ {c} /\ y.pending = x.pending \ {c} /\ y.sent = x.sent \ {c}
        /\ y.confirmed = x.confirmed \ {c} /\ y.single = x.single \ {c}
        /\ y.rejected = x.rejected \ {c}
        /\ y.conn = x.conn /\ y.cmd = x.cmd /\ y.queue = x.queue /\ y.flight = x.flight
        /\ y.lost = x.lost /\ y.detached = x.detached /\ y.down = x.down
        /\ y.subs = x.subs /\ y.link = x.link
    BY <1>1 DEF State
  <1>4. Unlistened(x, c) = IF y.conn # "Ready" THEN y
                           ELSE IF CanSend(y) THEN Sent(y, g) ELSE Unsent(y)
    BY DEF Unlistened
  <1> HIDE DEF y
  <1>5. Accounted(y) BY <1>1, <1>3 DEF Accounted
  <1>6. OneCommand(y) BY <1>1, <1>3 DEF OneCommand
  <1>7. Apart(y) /\ Keeps(x, y) BY <1>1, <1>3 DEF Apart, Queued, Keeps, Place
  <1>8. Good(y) BY <1>2, <1>5, <1>6, <1>7 DEF Good
  <1>9. CASE y.conn # "Ready" BY <1>4, <1>7, <1>8, <1>9
  <1>10. CASE y.conn = "Ready" /\ ~CanSend(y)
    BY <1>2, <1>4, <1>7, <1>8, <1>10, UnsentIs, KeepsPasses
  <1>11. CASE y.conn = "Ready" /\ CanSend(y)
    <2> DEFINE z == Sent(y, g)
    <2>1. g \in Cmds /\ g.kind = "UNLISTEN" /\ g.chans = {c} /\ g.at = "server" BY CmdIs
    <2> HIDE DEF g
    <2>2. z \in State BY <1>2, <2>1 DEF Sent, State
    <2>3. /\ z.registry = y.registry /\ z.pending = y.pending /\ z.sent = y.sent
          /\ z.confirmed = y.confirmed /\ z.single = y.single /\ z.rejected = y.rejected
          /\ z.conn = "Busy" /\ z.cmd = g /\ z.queue = y.queue /\ z.flight = y.flight
          /\ z.lost = y.lost /\ z.detached = y.detached /\ z.down = y.down
          /\ z.subs = y.subs /\ z.link = y.link
      BY <1>2 DEF Sent, State
    <2> HIDE DEF z
    <2>4. Accounted(z) BY <1>5, <1>11, <2>3 DEF Accounted
    <2>5. OneCommand(z)
      <3>1. y.flight = None /\ y.sent = {} /\ y.link # "gone" BY <1>6, <1>11 DEF OneCommand
      <3>2. {c} \cap z.confirmed = {} /\ {c} \cap z.registry = {} BY <1>3, <2>3
      <3> QED BY <2>1, <2>3, <3>1, <3>2 DEF OneCommand
    <2>6. Apart(z) /\ Keeps(y, z) BY <1>7, <2>3 DEF Apart, Queued, Keeps, Place
    <2>7. Good(z) /\ Keeps(x, z) BY <1>7, <2>2, <2>4, <2>5, <2>6, KeepsPasses DEF Good
    <2> QED BY <1>4, <1>11, <2>7 DEF z
  <1> QED BY <1>9, <1>10, <1>11

\* From x to y the statements of `new' are given to the listener as well.
Takes(x, y, new) ==
    /\ y.detached = x.detached /\ y.down = x.down
    /\ \A s \in Stmt :
        /\ Queued(y, s) => Queued(x, s) \/ s \in new
        /\ y.flight = s => x.flight = s \/ Queued(x, s) \/ s \in new
        /\ s \in y.lost => s \in x.lost \/ x.flight = s
        /\ Place(x, s) \/ s \in new => Place(y, s)

\* listener_execute(): the statement is queued, and the queue may be served at once.
LEMMA ExecutedIs ==
  ASSUME NEW x, Good(x), NEW s \in Stmt, ~Place(x, s), NEW u \in Executed(x, s)
  PROVE  Good(u) /\ Takes(x, u, {s})
  <1> DEFINE q == IF x.down THEN Ahead(x.queue, s, x.detached) ELSE Append(x.queue, s)
             y == [x EXCEPT !.queue = q]
  <1>1. /\ x \in State /\ Accounted(x) /\ OneCommand(x) /\ Apart(x)
        /\ x.queue \in Seq(Work) /\ Once(x.queue)
    BY DEF Good, Apart, State
  <1>2. q \in Seq(Work) /\ Once(q) /\ ToSet(q) = ToSet(x.queue) \cup {s}
    BY <1>1, AppendIs, AheadIs DEF Place, Queued
  <1>3. y = [x EXCEPT !.queue = IF x.down THEN Ahead(@, s, x.detached) ELSE Append(@, s)]
    BY <1>1 DEF State
  <1>4. Executed(x, s) =
          IF InNotify(y) THEN {y}
          ELSE IF y.conn = "none" THEN StartListener(y)
          ELSE IF Dead(y) THEN Restart(y)
          ELSE IF y.conn = "Ready" THEN SendNext(y)
          ELSE {WatchQueue(y)}
    BY <1>3 DEF Executed
  <1> HIDE DEF q
  <1>5. y \in State BY <1>1, <1>2 DEF State
  <1>6. /\ y.registry = x.registry /\ y.pending = x.pending
        /\ y.conn = x.conn /\ y.cmd = x.cmd /\ y.sent = x.sent /\ y.queue = q
        /\ y.flight = x.flight /\ y.confirmed = x.confirmed /\ y.single = x.single
        /\ y.lost = x.lost /\ y.detached = x.detached /\ y.down = x.down
        /\ y.rejected = x.rejected /\ y.subs = x.subs /\ y.link = x.link
    BY <1>1 DEF State
  <1> HIDE DEF y
  <1>7. Accounted(y) BY <1>1, <1>6 DEF Accounted
  <1>8. OneCommand(y) BY <1>1, <1>6 DEF OneCommand
  <1>9. \A t \in Stmt : Queued(y, t) <=> Queued(x, t) \/ t = s BY <1>2, <1>6 DEF Queued
  <1>10. Apart(y)
    <2>1. Once(y.queue) BY <1>2, <1>6
    <2> QED BY <1>1, <1>6, <1>9, <2>1 DEF Apart, Place
  <1>11. Good(y) BY <1>5, <1>7, <1>8, <1>10 DEF Good
  <1>12. Good(u) /\ Passes(y, u)
    <2>1. CASE u = y BY <1>11, <2>1 DEF Passes
    <2>2. CASE y.conn = "none" /\ u \in StartListener(y) BY <1>11, <2>2, StartIs, KeepsPasses
    <2>3. CASE u \in Restart(y) BY <1>11, <2>3, RestartIs, KeepsPasses DEF Good
    <2>4. CASE u \in SendNext(y) BY <1>11, <2>4, SendNextIs
    <2>5. CASE u = WatchQueue(y) BY <1>11, <2>5, WatchQueueIs, KeepsPasses
    <2> QED BY <1>4, <2>1, <2>2, <2>3, <2>4, <2>5
  <1>13. \A t \in Stmt : Place(y, t) <=> Place(x, t) \/ t = s BY <1>6, <1>9 DEF Place
  <1> QED BY <1>6, <1>9, <1>12, <1>13 DEF Passes, Takes

-----------------------------------------------------------------------------
(* The steps.                                                              *)

\* A flag of the step itself is not part of what the invariant speaks of.
LEMMA FailedIsAlike ==
  ASSUME NEW u, Good(u), NEW failed \in BOOLEAN
  PROVE  LET y == [u EXCEPT !.failed = failed] IN Good(y) /\ Alike(u, y) /\ Keeps(u, y)
  <1>1. u \in State BY DEF Good
  <1>2. [u EXCEPT !.failed = failed] \in State /\ Alike(u, [u EXCEPT !.failed = failed])
    BY <1>1 DEF State, Alike
  <1> QED BY <1>2, AlikeIsGood

\* The counts after a step that calls nobody back.
LEMMA CountsKept ==
  ASSUME Inv, NEW S, NEW new \in SUBSET Stmt, Becomes(S), told' = told,
         \A s \in new : ~Known(s) /\ pl.flight # s,
         \A u \in S : Good(u) /\ Takes(pl, u, new)
  PROVE  Good(pl)' /\ Counts' /\ faults' \in Nat
  <1>1. PICK u \in S :
          /\ pl' = [u EXCEPT !.failed = FALSE]
          /\ sends' = IF u.flight \in Stmt /\ pl.flight # u.flight
                      THEN [sends EXCEPT ![u.flight] = @ + 1] ELSE sends
          /\ faults' = IF u.failed THEN faults + 1 ELSE faults
    BY DEF Becomes
  <1>2. Good(u) /\ Takes(pl, u, new) OBVIOUS
  <1>3. Good(pl)' /\ Alike(u, pl') BY <1>1, <1>2, FailedIsAlike
  <1>4. faults' \in Nat
    <2>1. u.failed \in BOOLEAN /\ faults \in Nat BY <1>2 DEF Good, State, Inv
    <2> QED BY <1>1, <2>1
  <1>5. Counts /\ Apart(u) BY <1>2 DEF Inv, Good
  <1>6. /\ pl'.queue = u.queue /\ pl'.flight = u.flight /\ pl'.lost = u.lost
        /\ pl'.detached = pl.detached /\ pl'.down = pl.down
    BY <1>2, <1>3 DEF Alike, Takes
  <1>7. \A s \in new : sends[s] = 0 /\ told[s] = 0 BY <1>5 DEF Counts, Known
  <1>8. \A s \in Stmt : Queued(u, s) \/ (u.flight = s /\ pl.flight # s) => sends[s] = 0
    BY <1>2, <1>5, <1>7 DEF Takes, Counts
  <1>9. /\ sends' \in [Stmt -> {0, 1}]
        /\ \A s \in Stmt : sends'[s] = IF u.flight = s /\ pl.flight # s THEN 1 ELSE sends[s]
    BY <1>1, <1>5, <1>8 DEF Counts
  <1>10. ASSUME NEW s \in Stmt
         PROVE  /\ Queued(pl, s)' => sends'[s] = 0
                /\ pl'.flight = s => sends'[s] = 1
                /\ Place(pl, s)' => told'[s] = 0
                /\ Known(s)' => Place(pl, s)' \/ told'[s] = 1 \/ s \in pl'.detached
    <2>1. /\ Queued(pl, s)' <=> Queued(u, s)
          /\ Place(pl, s)' <=> Place(u, s)
      BY <1>6 DEF Queued, Place
    <2>2. Queued(u, s) => u.flight # s BY <1>5 DEF Apart
    <2>3. Queued(pl, s)' => sends'[s] = 0 BY <1>8, <1>9, <2>1, <2>2
    <2>4. pl'.flight = s => sends'[s] = 1 BY <1>5, <1>6, <1>9 DEF Counts
    <2>5. Place(u, s) => Place(pl, s) \/ s \in new BY <1>2 DEF Takes, Place
    <2>6. Place(pl, s)' => told'[s] = 0 BY <1>5, <1>7, <2>1, <2>5 DEF Counts
    <2>7. Known(s)' => Known(s) \/ Place(u, s)
      BY <1>6, <1>9 DEF Known, Place, Queued
    <2>8. Place(pl, s) => Place(u, s) BY <1>2 DEF Takes
    <2>9. Known(s) => Place(pl, s) \/ told[s] = 1 \/ s \in pl.detached BY <1>5 DEF Counts
    <2> QED BY <1>6, <2>1, <2>3, <2>4, <2>6, <2>7, <2>8, <2>9
  <1>11. told' \in [Stmt -> {0, 1}] /\ (pl'.down \/ pl'.detached = {}) BY <1>5, <1>6 DEF Counts
  <1> QED BY <1>3, <1>4, <1>9, <1>10, <1>11 DEF Counts

LEMMA StepIs ==
  ASSUME Inv, NEW S, Becomes(S), told' = told, calls' \in {calls, calls + 1},
         \A u \in S : Good(u) /\ Passes(pl, u)
  PROVE  Inv'
  <1>1. \A u \in S : Good(u) /\ Takes(pl, u, {}) BY DEF Passes, Takes
  <1>2. Good(pl)' /\ Counts' /\ faults' \in Nat BY <1>1, CountsKept
  <1> QED BY <1>2 DEF Inv

LEMMA CallsStep ==
  ASSUME Inv,
         \/ \E c \in Chan, ready \in BOOLEAN : Listen(c, ready)
         \/ \E c \in Chan : Unlisten(c)
         \/ \E s \in Stmt : ListenerExecute(s)
  PROVE  Inv'
  <1>1. Good(pl) /\ calls \in Nat BY DEF Inv
  <1>2. ASSUME NEW c \in Chan, NEW ready \in BOOLEAN, Listen(c, ready) PROVE Inv'
    <2>1. /\ Becomes(Listened(pl, c, ready)) /\ told' = told /\ calls' = calls + 1
      BY <1>2 DEF Listen
    <2>2. \A u \in Listened(pl, c, ready) : Good(u) /\ Passes(pl, u)
      BY <1>1, ListenedIs, KeepsPasses
    <2> QED BY <2>1, <2>2, StepIs
  <1>3. ASSUME NEW c \in Chan, Unlisten(c) PROVE Inv'
    <2>1. /\ Becomes({Unlistened(pl, c)}) /\ told' = told /\ calls' = calls + 1
      BY <1>3 DEF Unlisten
    <2>2. \A u \in {Unlistened(pl, c)} : Good(u) /\ Passes(pl, u)
      BY <1>1, UnlistenedIs, KeepsPasses
    <2> QED BY <2>1, <2>2, StepIs
  <1>4. ASSUME NEW s \in Stmt, ListenerExecute(s) PROVE Inv'
    <2>1. /\ ~Known(s) /\ Becomes(Executed(pl, s)) /\ told' = told /\ calls' = calls + 1
      BY <1>4 DEF ListenerExecute
    <2>2. ~Place(pl, s) BY <2>1 DEF Place, Queued, Known, Inv, Counts
    <2>3. \A u \in Executed(pl, s) : Good(u) /\ Takes(pl, u, {s})
      BY <1>1, <2>2, ExecutedIs
    <2>4. pl.flight # s BY <2>2 DEF Place
    <2> QED BY <1>1, <2>1, <2>3, <2>4, CountsKept DEF Inv
  <1> QED BY <1>2, <1>3, <1>4

\* detach(): whatever has a place loses its caller.
LEMMA DetachStep ==
  ASSUME Inv, Detach
  PROVE  Inv'
  <1> DEFINE d == ToSet(pl.queue) \cup pl.lost \cup ({pl.flight} \ {None})
             y == [pl EXCEPT !.down = TRUE, !.muted = TRUE, !.detached = d]
  <1>1. pl \in State /\ Good(pl) /\ Counts BY DEF Inv, Good
  <1>2. Becomes({y}) /\ told' = told /\ calls' = calls /\ ~pl.down BY DEF Detach
  <1>3. d \subseteq Work
    <2>1. pl.queue \in Seq(Work) BY <1>1 DEF State
    <2>2. ToSet(pl.queue) \subseteq Work BY <2>1, LenProperties, ElementOfSeq DEF ToSet
    <2> QED BY <1>1, <2>2 DEF State, Work
  <1>4. /\ \A s \in Stmt : s \in d <=> Place(pl, s)
    BY ListenerConstants DEF Place, Queued
  <1> HIDE DEF d
  <1>5. y \in State BY <1>1, <1>3 DEF State
  <1>6. /\ y.confirmed = pl.confirmed /\ y.pending = pl.pending /\ y.single = pl.single
        /\ y.sent = pl.sent
        /\ y.queue = pl.queue /\ y.flight = pl.flight /\ y.lost = pl.lost
        /\ y.detached = d /\ y.down = TRUE /\ y.registry = pl.registry
        /\ y.rejected = pl.rejected /\ y.subs = pl.subs
        /\ y.link = pl.link /\ y.conn = pl.conn /\ y.cmd = pl.cmd
    BY <1>1 DEF State
  <1>7. /\ pl' = [y EXCEPT !.failed = FALSE]
        /\ sends' = sends /\ faults' \in Nat
    <2>1. PICK u \in {y} :
            /\ pl' = [u EXCEPT !.failed = FALSE]
            /\ sends' = IF u.flight \in Stmt /\ pl.flight # u.flight
                        THEN [sends EXCEPT ![u.flight] = @ + 1] ELSE sends
            /\ faults' = IF u.failed THEN faults + 1 ELSE faults
      BY <1>2 DEF Becomes
    <2>2. u = y /\ faults \in Nat BY DEF Inv
    <2> QED BY <1>6, <2>1, <2>2
  <1> HIDE DEF y
  <1>8. Good(y) BY <1>1, <1>5, <1>6 DEF Good, Accounted, OneCommand, Apart, Queued
  <1>9. Good(pl)' /\ Alike(y, pl') BY <1>7, <1>8, FailedIsAlike
  <1>10. /\ pl'.queue = pl.queue /\ pl'.flight = pl.flight /\ pl'.lost = pl.lost
         /\ pl'.down = TRUE /\ pl'.detached = d
    BY <1>6, <1>9 DEF Alike
  <1>11. \A s \in Stmt : /\ Queued(pl, s)' <=> Queued(pl, s)
                         /\ Place(pl, s)' <=> Place(pl, s)
    BY <1>10 DEF Queued, Place
  <1>12. pl.detached = {} BY <1>1, <1>2 DEF Counts
  <1>13. \A s \in Stmt : Known(s)' <=> Known(s) \/ s \in d
    BY <1>2, <1>7, <1>10, <1>12 DEF Known
  <1>14. Counts' BY <1>1, <1>2, <1>4, <1>7, <1>10, <1>11, <1>12, <1>13 DEF Counts
  <1> QED BY <1>2, <1>7, <1>9, <1>14 DEF Inv

\* The handshake, and what is read and called back on the listener's socket.
LEMMA SocketStep ==
  ASSUME Inv,
         \/ HandshakeEnds
         \/ NotifyRead
         \/ LossRead
         \/ DeliverReturns
         \/ NotifyReturns
         \/ \E c \in Chan : ReadyDispatch(c)
         \/ ReadyReturns
  PROVE  Inv'
  <1>1. Good(pl) /\ pl \in State /\ Apart(pl) BY DEF Inv, Good
  <1>2. CASE HandshakeEnds
    <2>1. pl.conn = "Connecting" BY <1>2 DEF HandshakeEnds
    <2>2. Waiting(pl) BY <1>1, <2>1 DEF Waiting, Good, Accounted, OneCommand
    <2>3. Good(Abandon(pl)) /\ Passes(pl, Abandon(pl))
      BY <1>1, <2>2, AbandonIs, KeepsPasses
    <2>4. \A u \in Connected(pl) : Good(u) /\ Passes(pl, u) BY <1>1, <2>1, ConnectedIs
    <2> QED BY <1>2, <2>3, <2>4, StepIs DEF HandshakeEnds
  <1>3. CASE NotifyRead
    <2> DEFINE f == [pl EXCEPT !.from = "notification"]
               y == [f EXCEPT !.io = "notify"]
    <2>1. Good(f) /\ Keeps(pl, f) BY <1>1, FromIsGood DEF Froms, Ios
    <2>2. y = [pl EXCEPT !.io = "notify", !.from = "notification"] BY <1>1 DEF State
    <2> HIDE DEF f
    <2>3. Good(y) /\ Keeps(f, y) BY <2>1, FromIsGood DEF Froms, Ios
    <2>4. Good(y) /\ Passes(pl, y) BY <2>1, <2>3, KeepsPasses
    <2> HIDE DEF y
    <2> QED BY <1>3, <2>2, <2>4, StepIs DEF NotifyRead
  <1>4. CASE LossRead
    <2>1. \A u \in Restart(pl) : Good(u) /\ Passes(pl, u) BY <1>1, RestartIs, KeepsPasses
    <2> QED BY <1>4, <2>1, StepIs DEF LossRead
  <1>5. CASE DeliverReturns
    <2> DEFINE y == [pl EXCEPT !.io = "notify"]
    <2>1. Good(y) /\ Keeps(pl, y) BY <1>1, FromIsGood DEF Froms, Ios
    <2> HIDE DEF y
    <2>2. \A u \in Consume(y, "statement") : Good(u) /\ Passes(pl, u)
      BY <2>1, ConsumeIs, KeepsPasses DEF Froms
    <2>3. Good(Done(pl)) /\ Passes(pl, Done(pl)) BY <1>1, DoneIs, KeepsPasses
    <2> QED BY <1>5, <2>2, <2>3, StepIs DEF DeliverReturns, y
  <1>6. CASE NotifyReturns
    <2> DEFINE y == [pl EXCEPT !.cmd.at = IF @ = "wire" THEN "buffer" ELSE @]
    <2>1. Good(y) /\ Keeps(pl, y) BY <1>1, ReadOnIsGood
    <2> HIDE DEF y
    <2>2. \A u \in AfterNotify(y) : Good(u) /\ Passes(pl, u)
      BY <2>1, AfterNotifyIs, KeepsPasses
    <2>3. \A u \in {Done(v) : v \in Restart(Unsent(pl))} : Good(u) /\ Passes(pl, u)
      BY <1>1, ReplacedIs
    <2> QED BY <1>6, <2>2, <2>3, StepIs DEF NotifyReturns, y
  <1>7. ASSUME NEW c \in Chan, ReadyDispatch(c) PROVE Inv'
    <2> DEFINE z == [pl EXCEPT !.confirmed = pl.confirmed \ {c}]
               y == [pl EXCEPT !.confirmed = @ \ {c}, !.waits = @ \ {c}]
    <2>1. Good(z) /\ Keeps(pl, z) BY <1>1, FewerConfirmed
    <2>2. y = [z EXCEPT !.waits = @ \ {c}] BY <1>1 DEF State
    <2> HIDE DEF z
    <2>3. z \in State BY <2>1 DEF Good
    <2>4. [z EXCEPT !.waits = @ \ {c}] \in State /\ Alike(z, [z EXCEPT !.waits = @ \ {c}])
      BY <2>3 DEF State, Alike
    <2>5. Good(y) /\ Keeps(z, y) BY <2>1, <2>2, <2>4, AlikeIsGood
    <2>6. Good(y) /\ Passes(pl, y) BY <2>1, <2>5, KeepsPasses
    <2> HIDE DEF y
    <2>7. Becomes({y}) /\ UNCHANGED <<told, calls>> BY <1>7 DEF ReadyDispatch, y
    <2> QED BY <2>6, <2>7, StepIs
  <1>8. CASE ReadyReturns
    <2> DEFINE y == [pl EXCEPT !.io = "notify"]
    <2>1. Good(y) /\ Keeps(pl, y) BY <1>1, FromIsGood DEF Froms, Ios
    <2> HIDE DEF y
    <2>2. \A u \in Finish(y) : Good(u) /\ Passes(pl, u)
      BY <2>1, FinishIs, KeepsPasses
    <2>3. Good(Done(pl)) /\ Passes(pl, Done(pl)) BY <1>1, DoneIs, KeepsPasses
    <2> QED BY <1>8, <2>2, <2>3, StepIs DEF ReadyReturns, y
  <1> QED BY <1>2, <1>3, <1>4, <1>5, <1>6, <1>7, <1>8

\* A handler of a statement is called, or would be if it had not been detached.
LEMMA ToldIs ==
  ASSUME Inv, NEW s \in Stmt, Place(pl, s), NEW u, Good(u), Becomes({u}), Tells(s),
         UNCHANGED calls, ~Place(u, s), u.flight \in {None, pl.flight},
         u.detached = pl.detached, u.down = pl.down,
         \A t \in Stmt \ {s} : Place(u, t) <=> Place(pl, t),
         \A t \in Stmt : Queued(u, t) <=> Queued(pl, t)
  PROVE  Inv'
  <1>1. Counts /\ None \notin Stmt BY ListenerConstants DEF Inv
  <1>2. /\ pl' = [u EXCEPT !.failed = FALSE]
        /\ sends' = sends /\ faults' \in Nat
    <2>1. PICK v \in {u} :
            /\ pl' = [v EXCEPT !.failed = FALSE]
            /\ sends' = IF v.flight \in Stmt /\ pl.flight # v.flight
                        THEN [sends EXCEPT ![v.flight] = @ + 1] ELSE sends
            /\ faults' = IF v.failed THEN faults + 1 ELSE faults
      BY DEF Becomes
    <2>2. v = u /\ faults \in Nat BY DEF Inv
    <2> QED BY <1>1, <2>1, <2>2
  <1>3. Good(pl)' /\ Alike(u, pl') BY <1>2, FailedIsAlike
  <1>4. /\ pl'.queue = u.queue /\ pl'.flight = u.flight /\ pl'.lost = u.lost
        /\ pl'.down = pl.down /\ pl'.detached = pl.detached
    BY <1>3 DEF Alike
  <1>5. \A t \in Stmt : /\ Queued(pl, t)' <=> Queued(pl, t)
                        /\ Place(pl, t)' <=> Place(u, t)
    BY <1>4 DEF Queued, Place
  <1>6. told[s] = 0 BY <1>1 DEF Counts
  <1>7. /\ told' \in [Stmt -> {0, 1}]
        /\ \A t \in Stmt : told'[t] = IF t = s /\ s \notin pl.detached THEN 1 ELSE told[t]
    BY <1>1, <1>6 DEF Tells, Counts
  <1>8. ASSUME NEW t \in Stmt
        PROVE  /\ Queued(pl, t)' => sends'[t] = 0
               /\ pl'.flight = t => sends'[t] = 1
               /\ Place(pl, t)' => told'[t] = 0
               /\ Known(t)' => Place(pl, t)' \/ told'[t] = 1 \/ t \in pl'.detached
    <2>1. Queued(pl, t)' => sends'[t] = 0 BY <1>1, <1>2, <1>5 DEF Counts
    <2>2. pl'.flight = t => sends'[t] = 1 BY <1>1, <1>2, <1>4 DEF Counts
    <2>3. CASE t = s BY <1>4, <1>5, <1>7, <2>1, <2>2, <2>3 DEF Known
    <2>4. CASE t # s
      <3>1. told'[t] = told[t] BY <1>7, <2>4
      <3>2. Place(pl, t)' <=> Place(pl, t) BY <1>5, <2>4
      <3>3. Known(t)' => Known(t) \/ Place(pl, t)'
        BY <1>2, <1>4, <3>1 DEF Known, Place, Queued
      <3> QED BY <1>1, <1>4, <2>1, <2>2, <3>1, <3>2, <3>3 DEF Counts
    <2> QED BY <2>3, <2>4
  <1>9. Counts' BY <1>1, <1>2, <1>4, <1>7, <1>8 DEF Counts
  <1> QED BY <1>2, <1>3, <1>9 DEF Inv

LEMMA AnswerReadStep ==
  ASSUME Inv, AnswerRead
  PROVE  Inv'
  <1>1. /\ Good(pl) /\ pl \in State /\ pl.conn = "Busy" /\ pl.cmd.at # "server"
        /\ Becomes(BusyRead(pl)) /\ Tells(pl.flight) /\ calls' = calls
    BY DEF Inv, Good, AnswerRead
  <1>2. None \notin Stmt BY ListenerConstants
  <1>3. CASE pl.flight = None
    <2>1. told' = told BY <1>1, <1>2, <1>3 DEF Tells
    <2>2. \A u \in BusyRead(pl) : Good(u) /\ Passes(pl, u) BY <1>1, <1>3, BusyReadIs
    <2> QED BY <1>1, <2>1, <2>2, StepIs
  <1>4. CASE pl.flight # None
    <2>1. PICK u : BusyRead(pl) = {u} BY <1>4 DEF BusyRead
    <2>2. /\ Good(u) /\ u.flight = None /\ u.queue = pl.queue /\ u.lost = pl.lost
          /\ u.detached = pl.detached /\ u.down = pl.down
      BY <1>1, <1>4, <2>1, StatementRead
    <2>3. \A t \in Stmt : Queued(u, t) <=> Queued(pl, t) BY <2>2 DEF Queued
    <2>4. \A t \in Stmt : Place(u, t) <=> Place(pl, t) /\ pl.flight # t
      BY <1>1, <1>2, <2>2, <2>3 DEF Place, Good, Apart
    <2>5. CASE pl.flight \in Stmt
      <3>1. Place(pl, pl.flight) BY DEF Place
      <3> QED BY <1>1, <2>1, <2>2, <2>3, <2>4, <2>5, <3>1, ToldIs
    <2>6. CASE pl.flight \notin Stmt
      <3>1. told' = told BY <1>1, <2>6 DEF Tells
      <3>2. Passes(pl, u) BY <1>2, <2>2, <2>3, <2>4, <2>6 DEF Passes
      <3> QED BY <1>1, <2>1, <2>2, <3>1, <3>2, StepIs
    <2> QED BY <2>5, <2>6
  <1> QED BY <1>3, <1>4

LEMMA DeliverLostStep ==
  ASSUME Inv, NEW s \in Stmt, DeliverLost(s)
  PROVE  Inv'
  <1> DEFINE y == [pl EXCEPT !.lost = @ \ {s}]
  <1>1. /\ Good(pl) /\ pl \in State /\ s \in pl.lost /\ Becomes({y}) /\ Tells(s) /\ calls' = calls
    BY DEF Inv, Good, DeliverLost
  <1>2. y \in State BY <1>1 DEF State
  <1>3. /\ y.confirmed = pl.confirmed /\ y.pending = pl.pending /\ y.single = pl.single
        /\ y.sent = pl.sent
        /\ y.queue = pl.queue /\ y.flight = pl.flight /\ y.lost = pl.lost \ {s}
        /\ y.detached = pl.detached /\ y.down = pl.down /\ y.registry = pl.registry
        /\ y.rejected = pl.rejected /\ y.subs = pl.subs
        /\ y.link = pl.link /\ y.conn = pl.conn /\ y.cmd = pl.cmd
    BY <1>1 DEF State
  <1> HIDE DEF y
  <1>4. Good(y) BY <1>1, <1>2, <1>3 DEF Good, Accounted, OneCommand, Apart, Queued
  <1>5. \A t \in Stmt : Queued(y, t) <=> Queued(pl, t) BY <1>3 DEF Queued
  <1>6. Place(pl, s) /\ ~Place(y, s) /\ \A t \in Stmt \ {s} : Place(y, t) <=> Place(pl, t)
    BY <1>1, <1>3, <1>5 DEF Place, Good, Apart
  <1> QED BY <1>1, <1>3, <1>4, <1>5, <1>6, ToldIs

LEMMA TimersStep ==
  ASSUME Inv, AnswerTimer \/ ReconnectTimer \/ Heartbeat
  PROVE  Inv'
  <1>1. Good(pl) /\ pl \in State BY DEF Inv, Good
  <1>2. CASE AnswerTimer
    <2> DEFINE y == [pl EXCEPT !.timer = "none"]
    <2>1. y \in State /\ Alike(pl, y) BY <1>1 DEF State, Alike
    <2>2. Good(y) /\ Keeps(pl, y) BY <1>1, <2>1, AlikeIsGood
    <2>3. \/ Becomes({WatchQueue(y)})
          \/ Becomes({[v EXCEPT !.failed = @ \/ ~Silent] : v \in Restart(y)})
      BY <1>2 DEF AnswerTimer
    <2>4. told' = told /\ calls' = calls BY <1>2 DEF AnswerTimer
    <2> HIDE DEF y
    <2>5. Good(WatchQueue(y)) /\ Passes(pl, WatchQueue(y)) BY <2>2, WatchQueueIs, KeepsPasses
    <2>6. ASSUME NEW u \in {[v EXCEPT !.failed = @ \/ ~Silent] : v \in Restart(y)}
          PROVE  Good(u) /\ Passes(pl, u)
      <3>1. PICK v \in Restart(y) : u = [v EXCEPT !.failed = @ \/ ~Silent] OBVIOUS
      <3>2. Good(v) /\ Keeps(y, v) BY <2>2, RestartIs DEF Good
      <3> DEFINE b == v.failed \/ ~Silent
      <3>3. b \in BOOLEAN OBVIOUS
      <3>4. u = [v EXCEPT !.failed = b] BY <3>1, <3>2 DEF Good, State
      <3> HIDE DEF b
      <3>5. Good(u) /\ Keeps(v, u) BY <3>2, <3>3, <3>4, FailedIsAlike
      <3> QED BY <2>2, <3>2, <3>5, KeepsPasses
    <2> QED BY <2>3, <2>4, <2>5, <2>6, StepIs
  <1>3. CASE ReconnectTimer
    <2> DEFINE y == [pl EXCEPT !.backoff = FALSE]
    <2>1. y \in State /\ Alike(pl, y) BY <1>1 DEF State, Alike
    <2>2. Good(y) /\ Keeps(pl, y) BY <1>1, <2>1, AlikeIsGood
    <2>3. Becomes(IF y.conn = "none" /\ Wants(y) THEN StartListener(y) ELSE {y})
      BY <1>3 DEF ReconnectTimer
    <2>4. told' = told /\ calls' = calls BY <1>3 DEF ReconnectTimer
    <2> HIDE DEF y
    <2>5. \A u \in StartListener(y) : y.conn = "none" => Good(u) /\ Passes(pl, u)
      BY <2>2, StartIs, KeepsPasses
    <2> QED BY <2>2, <2>3, <2>4, <2>5, StepIs, KeepsPasses
  <1>4. CASE Heartbeat
    <2>1. \A u \in Restart(pl) : Good(u) /\ Passes(pl, u)
      BY <1>1, RestartIs, KeepsPasses DEF Good
    <2>2. pl.conn = "none" => \A u \in StartListener(pl) : Good(u) /\ Passes(pl, u)
      BY <1>1, StartIs, KeepsPasses
    <2> QED BY <1>4, <2>1, <2>2, StepIs DEF Heartbeat
  <1> QED BY <1>2, <1>3, <1>4

\* Nothing has happened to the statements.
LEMMA CountsStay ==
  ASSUME Inv, UNCHANGED <<sends, told>>, pl'.queue = pl.queue, pl'.flight = pl.flight,
         pl'.lost = pl.lost, pl'.detached = pl.detached, pl'.down = pl.down
  PROVE  Counts' /\ Apart(pl)'
  <1>1. Counts /\ Apart(pl) BY DEF Inv, Good
  <1>2. \A s \in Stmt : /\ Queued(pl, s)' <=> Queued(pl, s)
                        /\ Place(pl, s)' <=> Place(pl, s)
                        /\ Known(s)' <=> Known(s)
    BY DEF Queued, Place, Known
  <1>3. Counts' BY <1>1, <1>2 DEF Counts
  <1>4. Apart(pl)' BY <1>1, <1>2 DEF Apart
  <1> QED BY <1>3, <1>4

\* The server carries out the command it has.
LEMMA ServerWorksStep ==
  ASSUME Inv, ServerWorks
  PROVE  Inv'
  <1> DEFINE c == pl.cmd
             ok == c.kind # "LISTEN" \/ c.chans \cap Bad = {}
             g == [c EXCEPT !.at = "wire", !.ok = ok]
             subs == CASE c.kind = "LISTEN" /\ ok -> pl.subs \cup c.chans
                       [] c.kind = "UNLISTEN"     -> pl.subs \ c.chans
                       [] OTHER                   -> pl.subs
  <1>1. /\ pl \in State /\ Good(pl) /\ c \in Cmds /\ pl.conn = "Busy" /\ c.at = "server"
        /\ pl.link = "up" /\ UNCHANGED <<sends, told, calls, faults>>
    BY DEF Inv, Good, State, ServerWorks
  <1>2. pl' = [pl EXCEPT !.cmd = g, !.subs = subs] BY <1>1 DEF ServerWorks, State, Cmds
  <1>3. /\ ok \in BOOLEAN
        /\ \/ c.kind = "LISTEN" /\ ok /\ subs = pl.subs \cup c.chans
           \/ c.kind = "UNLISTEN" /\ subs = pl.subs \ c.chans
           \/ c.kind # "UNLISTEN" /\ ~(c.kind = "LISTEN" /\ ok) /\ subs = pl.subs
    <2>1. CASE c.kind = "LISTEN" /\ ok BY <2>1
    <2>2. CASE c.kind = "UNLISTEN" BY <2>2
    <2>3. CASE c.kind # "UNLISTEN" /\ ~(c.kind = "LISTEN" /\ ok) BY <2>3
    <2> QED BY <2>1, <2>2, <2>3
  <1>4. subs \in SUBSET Chan
    <2>1. pl.subs \in SUBSET Chan /\ c.chans \in SUBSET Chan BY <1>1 DEF State, Cmds
    <2> HIDE DEF c, ok, subs
    <2> QED BY <1>3, <2>1
  <1> HIDE DEF ok, subs
  <1>5. g \in Cmds /\ g.at = "wire" /\ g.ok = ok /\ g.kind = c.kind /\ g.chans = c.chans
    BY <1>1, <1>3 DEF Cmds
  <1> HIDE DEF g
  <1>6. pl' \in State BY <1>1, <1>2, <1>4, <1>5 DEF State
  <1>7. /\ pl'.cmd = g /\ pl'.subs = subs
        /\ pl'.confirmed = pl.confirmed /\ pl'.pending = pl.pending /\ pl'.single = pl.single
        /\ pl'.sent = pl.sent /\ pl'.queue = pl.queue /\ pl'.flight = pl.flight
        /\ pl'.lost = pl.lost /\ pl'.detached = pl.detached /\ pl'.down = pl.down
        /\ pl'.registry = pl.registry /\ pl'.rejected = pl.rejected
        /\ pl'.link = pl.link /\ pl'.conn = pl.conn
    BY <1>1, <1>2 DEF State
  <1>8. Accounted(pl) /\ OneCommand(pl) BY <1>1 DEF Good
  <1>9. OneCommand(pl)' BY <1>1, <1>3, <1>5, <1>7, <1>8 DEF OneCommand
  <1>10. Accounted(pl)'
    <2>1. CASE c.kind # "UNLISTEN"
      <3>1. pl.subs \subseteq subs BY <1>3, <2>1
      <3> QED BY <1>1, <1>7, <1>8, <3>1 DEF Accounted
    <2>2. CASE c.kind = "UNLISTEN"
      <3>1. subs = pl.subs \ c.chans BY <1>3, <2>2
      <3>2. c.chans \cap pl.confirmed = {} /\ c.chans \cap pl.registry \subseteq pl.pending
        BY <1>1, <1>8, <2>2 DEF OneCommand
      <3>3. /\ pl.registry \subseteq pl.pending \cup pl.sent \cup pl.rejected \cup pl.subs
            /\ pl.confirmed \subseteq pl.subs /\ pl.single \subseteq pl.pending
        BY <1>1, <1>8 DEF Accounted
      <3>4. /\ pl.registry \subseteq pl.pending \cup pl.sent \cup pl.rejected \cup subs
            /\ pl.confirmed \subseteq subs
        BY <3>1, <3>2, <3>3
      <3> QED BY <1>1, <1>7, <3>3, <3>4 DEF Accounted
    <2> QED BY <2>1, <2>2
  <1>11. Counts' /\ Apart(pl)' BY <1>1, <1>7, CountsStay
  <1>12. calls' \in Nat /\ faults' \in Nat BY <1>1 DEF Inv
  <1> QED BY <1>6, <1>9, <1>10, <1>11, <1>12 DEF Inv, Good

\* The connection ends, or TCP gives it up.
LEMMA LinkStep ==
  ASSUME Inv, TcpGivesUp \/ \E how \in {"shut", "mute"} : LinkLost(how)
  PROVE  Inv'
  <1>1. Good(pl) /\ pl \in State /\ calls \in Nat /\ faults \in Nat BY DEF Inv, Good
  <1>2. PICK how \in {"shut", "mute"} :
          pl' = [pl EXCEPT !.link = how] /\ UNCHANGED <<sends, told, calls>>
    BY DEF TcpGivesUp, LinkLost
  <1>3. faults' \in Nat BY <1>1 DEF TcpGivesUp, LinkLost
  <1>4. pl' \in State BY <1>1, <1>2 DEF State
  <1>5. /\ pl'.link = how /\ pl'.cmd = pl.cmd /\ pl'.subs = pl.subs
        /\ pl'.confirmed = pl.confirmed /\ pl'.pending = pl.pending /\ pl'.single = pl.single
        /\ pl'.sent = pl.sent /\ pl'.queue = pl.queue /\ pl'.flight = pl.flight
        /\ pl'.lost = pl.lost /\ pl'.detached = pl.detached /\ pl'.down = pl.down
        /\ pl'.registry = pl.registry /\ pl'.rejected = pl.rejected /\ pl'.conn = pl.conn
    BY <1>1, <1>2 DEF State
  <1>6. Accounted(pl)' BY <1>1, <1>5 DEF Good, Accounted
  <1>7. OneCommand(pl)' BY <1>1, <1>5 DEF Good, OneCommand
  <1>8. Counts' /\ Apart(pl)' BY <1>2, <1>5, CountsStay
  <1> QED BY <1>1, <1>2, <1>3, <1>4, <1>6, <1>7, <1>8 DEF Inv, Good

-----------------------------------------------------------------------------
(* The invariant.                                                          *)

LEMMA InitInv == ASSUME ListenerInit PROVE Inv
  <1>1. /\ pl.queue = <<>> /\ pl.flight = None /\ pl.lost = {} /\ pl.detached = {}
        /\ pl.registry = {} /\ pl.confirmed = {} /\ pl.single = {} /\ pl.sent = {}
        /\ pl.conn = "none"
    BY DEF ListenerInit
  <1>2. pl \in State
    <2>1. <<>> \in Seq(Work) OBVIOUS
    <2> QED BY <2>1, NoCmdIs DEF ListenerInit, State
  <1>3. ToSet(<<>>) = {} BY DEF ToSet
  <1>4. Accounted(pl) /\ OneCommand(pl) BY <1>1 DEF Accounted, OneCommand
  <1>5. Apart(pl) BY <1>1, <1>3, ListenerConstants DEF Apart, Once, Queued
  <1>6. Counts
    BY <1>1, <1>3, ListenerConstants DEF ListenerInit, Counts, Queued, Place, Known
  <1> QED BY <1>2, <1>4, <1>5, <1>6 DEF Inv, Good, ListenerInit

LEMMA InvNext == ASSUME Inv, [ListenerNext]_plVars PROVE Inv'
  <1>1. CASE UNCHANGED plVars
    BY <1>1 DEF plVars, Inv, Good, Accounted, OneCommand, Apart, Counts, Place, Queued, Known
  <1>2. CASE ListenerNext
    BY <1>2, CallsStep, DetachStep, SocketStep, AnswerReadStep, DeliverLostStep, TimersStep,
       ServerWorksStep, LinkStep DEF ListenerNext
  <1> QED BY <1>1, <1>2

\* However often the listener is lost and replaced, every channel of the registry is
\* accounted for, one command at most is with the server, and each statement has one
\* place or has met its end: what listen(), unlisten(), listener_execute(),
\* on_listener_io() and the timers of pg.cpp keep together.
THEOREM Invariant == ListenerSpec => []Inv
  <1>1. ListenerInit => Inv BY InitInv
  <1>2. Inv /\ [ListenerNext]_plVars => Inv' BY InvNext
  <1> QED BY <1>1, <1>2, PTL DEF ListenerSpec

\* No channel is forgotten by restart_listener() and what follows it, what is told as
\* ready is subscribed, and a statement is sent once and its caller called once, never
\* dropped: for any number of channels, statements, calls and faults.
THEOREM ListenerKeepsHolds == ListenerSpec => []ListenerKeeps
  <1>1. Inv => ListenerKeeps
    <2> SUFFICES ASSUME Inv PROVE ListenerKeeps OBVIOUS
    <2>1. Good(pl) /\ Counts BY DEF Inv
    <2>2. ChannelsAccounted
      BY <2>1, DeadIs DEF ChannelsAccounted, Good, Accounted
    <2>3. StatementsKept
      <3> SUFFICES ASSUME NEW s \in Stmt
                   PROVE  /\ sends[s] <= 1 /\ told[s] <= 1
                          /\ Known(s) => \/ s \in ToSet(pl.queue) \cup pl.lost \cup {pl.flight}
                                         \/ told[s] = 1 \/ s \in pl.detached
        BY DEF StatementsKept
      <3>1. sends[s] \in {0, 1} /\ told[s] \in {0, 1} BY <2>1 DEF Counts
      <3>2. Known(s) => Place(pl, s) \/ told[s] = 1 \/ s \in pl.detached BY <2>1 DEF Counts
      <3> QED BY <3>1, <3>2 DEF Place, Queued
    <2> QED BY <2>2, <2>3 DEF ListenerKeeps
  <1> QED BY <1>1, Invariant, PTL
=============================================================================

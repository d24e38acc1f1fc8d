----------------------------- MODULE CurlClient -----------------------------
(***************************************************************************)
(* The HTTP client over libcurl's multi interface (curl_client.cpp).       *)
(* libcurl says through two callbacks which sockets it waits for and when  *)
(* it wants to be called again; the client keeps the loop in step with     *)
(* that, and a completed transfer's callback may start another transfer    *)
(* in the middle of it.                                                    *)
(*                                                                         *)
(* The client and the part of libcurl it drives are one record:            *)
(*   xf, sock    each transfer's progress, and the socket it waits for     *)
(*   told        how often on_done or on_fail was called for each          *)
(*   want        the timeout libcurl last asked for, while it stands       *)
(*   known       timer_id_ names a timer                                   *)
(*   armed       timers of the loop that timer_callback() added            *)
(*   fds, lost   registered_fds_ and lost_fds_                             *)
(*   lostTimer   lost_timer_ is armed                                      *)
(*   gone        sockets closed under libcurl (T607)                       *)
(*   timed       timeout_ms_ is set                                        *)
(*   live        the client exists                                         *)
(***************************************************************************)
EXTENDS Naturals, FiniteSets

CONSTANTS
    Xfer,       \* transfers
    Fds,        \* socket numbers, distinct from every transfer
    MaxLosses   \* bound on the sockets closed under libcurl

VARIABLES curl, losses

ccVars == <<curl, losses>>

NoFd == "none"

CurlTypeOK ==
    /\ curl \in [ xf : [Xfer -> {"none", "kick", "wait", "done", "told"}],
                  sock : [Xfer -> Fds \cup {NoFd}], told : [Xfer -> 0 .. 1],
                  want : {"none", "now", "later"}, known : BOOLEAN, armed : 0 .. 1,
                  fds : SUBSET Fds, lost : SUBSET Fds, lostTimer : BOOLEAN,
                  gone : SUBSET Fds, timed : BOOLEAN, live : BOOLEAN ]
    /\ losses \in 0 .. MaxLosses

----------------------------------------------------------------------------
(* The callbacks of libcurl.                                               *)

\* Mutant: the timer before it is not cancelled.
TimerCallbackBesides(c, want) ==
    IF want = "none" THEN c ELSE [c EXCEPT !.known = TRUE, !.armed = @ + 1]

\* timer_callback(): one timer at a time, and 0 ms is made 1 ms.
TimerCallback(c, want) ==
    LET u == IF c.known THEN [c EXCEPT !.known = FALSE, !.armed = @ - 1] ELSE c
    IN  IF want = "none" THEN u ELSE [u EXCEPT !.known = TRUE, !.armed = @ + 1]

\* socket_callback() with CURL_POLL_REMOVE.
Unwatch(c, s) ==
    [c EXCEPT !.fds = @ \ {s}, !.lost = @ \ {s}, !.gone = @ \ {s}]

\* socket_callback() with CURL_POLL_IN or OUT: a socket whose registration was
\* lost is reported from a timer, and not registered again before that.
Watch(c, s) ==
    CASE s \in c.fds /\ s \in c.gone ->
            [c EXCEPT !.fds = @ \ {s}, !.lost = @ \cup {s}, !.lostTimer = TRUE]
      [] s \notin c.fds /\ s \notin c.lost -> [c EXCEPT !.fds = @ \cup {s}]
      [] OTHER -> c

----------------------------------------------------------------------------
(* libcurl: what it wants of the client.  It calls timer_callback() when   *)
(* what it wants changes.                                                  *)

Wants(c) ==
    CASE \E x \in Xfer : c.xf[x] = "kick"             -> "now"
      [] c.timed /\ (\A x \in Xfer : c.xf[x] # "kick")
                 /\ (\E x \in Xfer : c.xf[x] = "wait") -> "later"
      [] OTHER                                        -> "none"

Retimer(c) ==
    IF Wants(c) = c.want THEN c
    ELSE TimerCallback([c EXCEPT !.want = Wants(c)], Wants(c))

\* A transfer is over: its socket, if any, is let go of.
Over(c, x) ==
    LET u == IF c.sock[x] = NoFd THEN c ELSE Unwatch(c, c.sock[x])
    IN  [u EXCEPT !.xf[x] = "done", !.sock[x] = NoFd]

Opens(c, x, s) == Watch([c EXCEPT !.xf[x] = "wait", !.sock[x] = s], s)

Free(c) == Fds \ {c.sock[x] : x \in Xfer}

\* What curl_multi_socket_action() may do for a transfer: it fails, ends, opens
\* a socket, or waits for the other direction on the one it has.
Progress(c, x, e) ==
    CASE e = "over" -> Over(c, x)
      [] e = "turn" -> Watch(c, c.sock[x])
      [] e \in Fds  -> Opens(c, x, e)

Can(c, x, e) ==
    CASE e = "over" -> c.xf[x] \in {"kick", "wait"}
      [] e = "turn" -> c.xf[x] = "wait"
      [] e \in Fds  -> c.xf[x] = "kick" /\ e \in Free(c)

Steps == {"over", "turn"} \cup Fds

----------------------------------------------------------------------------
\* perform(): refused before libcurl has it, or libcurl's, which asks to be
\* called at once.
Perform(c, x, taken) ==
    IF taken THEN Retimer([c EXCEPT !.xf[x] = "kick"])
    ELSE [c EXCEPT !.xf[x] = "told", !.told[x] = @ + 1]

\* What a completion callback does: nothing, or a new request on this client.
Nested(c) == {{}} \cup { {<<x, taken>>} : x \in {y \in Xfer : c.xf[y] = "none"},
                                           taken \in BOOLEAN }

\* check_multi_info(): every message is taken and its transfer removed before
\* its callback runs; `nested` is what the first callback does.
CheckMultiInfo(c, nested) ==
    LET over == {x \in Xfer : c.xf[x] = "done"}
        u == Retimer([c EXCEPT
                 !.xf = [x \in Xfer |-> IF x \in over THEN "told" ELSE @[x]],
                 !.told = [x \in Xfer |-> IF x \in over THEN @[x] + 1 ELSE @[x]]])
    IN  IF over = {} \/ nested = {} THEN u
        ELSE LET n == CHOOSE n \in nested : TRUE IN Perform(u, n[1], n[2])

----------------------------------------------------------------------------
UserPerforms(x, taken) ==
    /\ curl.live /\ curl.xf[x] = "none"
    /\ curl' = Perform(curl, x, taken)
    /\ UNCHANGED losses

\* The I/O handler of a socket.
SocketReady(x, e, nested) ==
    /\ curl.live /\ curl.sock[x] \in curl.fds \ curl.gone
    /\ e \notin Fds /\ Can(curl, x, e)
    /\ curl' = CheckMultiInfo(Retimer(Progress(curl, x, e)), nested)
    /\ UNCHANGED losses

\* The multi timer: timer_id_ is cleared first, then libcurl is told the time,
\* which is that of a transfer to start if there is one.
Expired(c) ==
    LET kicks == {x \in Xfer : c.xf[x] = "kick"}
        waits == {x \in Xfer : c.xf[x] = "wait"}
    IN  IF kicks # {} THEN kicks ELSE IF c.timed THEN waits ELSE {}

Fired(c) == [c EXCEPT !.armed = @ - 1, !.known = FALSE, !.want = "none"]

TimerFires(x, e, nested) ==
    /\ curl.armed > 0
    /\ x \in Expired(curl) /\ Can(curl, x, e)
    /\ \E c \in {Retimer(Progress(Fired(curl), x, e))} : curl' = CheckMultiInfo(c, nested)
    /\ UNCHANGED losses

\* Something else in the process closes a socket of libcurl's.
ClosedUnder(s) ==
    /\ curl.live /\ s \in curl.fds \ curl.gone
    /\ losses < MaxLosses /\ losses' = losses + 1
    /\ curl' = [curl EXCEPT !.gone = @ \cup {s}]

\* lost_timer_: libcurl is told that the sockets failed.
LostTimer(nested) ==
    LET hit == {x \in Xfer : curl.sock[x] \in curl.lost}
        shut == {curl.sock[x] : x \in hit}
        u == [curl EXCEPT !.lostTimer = FALSE, !.lost = {}, !.fds = @ \ shut,
                          !.gone = @ \ shut,
                          !.xf = [x \in Xfer |-> IF x \in hit THEN "done" ELSE @[x]],
                          !.sock = [x \in Xfer |-> IF x \in hit THEN NoFd ELSE @[x]]]
    IN  /\ curl.lostTimer
        /\ \E c \in {Retimer(u)} : curl' = CheckMultiInfo(c, nested)
        /\ UNCHANGED losses

\* ~CurlClient(): transfers that are not over are never told.
Destroy ==
    /\ curl.live
    /\ curl' = [curl EXCEPT !.live = FALSE, !.known = FALSE, !.lostTimer = FALSE,
                            !.armed = IF curl.known THEN @ - 1 ELSE @, !.fds = {}]
    /\ UNCHANGED losses

----------------------------------------------------------------------------
CurlInit ==
    /\ \E timed \in BOOLEAN :
        curl = [ xf |-> [x \in Xfer |-> "none"], sock |-> [x \in Xfer |-> NoFd],
                 told |-> [x \in Xfer |-> 0], want |-> "none", known |-> FALSE,
                 armed |-> 0, fds |-> {}, lost |-> {}, lostTimer |-> FALSE,
                 gone |-> {}, timed |-> timed, live |-> TRUE ]
    /\ losses = 0

CurlNext ==
    \/ \E x \in Xfer, taken \in BOOLEAN : UserPerforms(x, taken)
    \/ \E x \in Xfer, e \in Steps, nested \in Nested(curl) : SocketReady(x, e, nested)
    \/ \E x \in Xfer, e \in Steps, nested \in Nested(curl) : TimerFires(x, e, nested)
    \/ \E s \in Fds : ClosedUnder(s)
    \/ \E nested \in Nested(curl) : LostTimer(nested)
    \/ Destroy

CurlSpec == CurlInit /\ [][CurlNext]_ccVars

\* Timers of the loop fire, and a transfer whose time is up is over.
CurlFairness ==
    /\ WF_ccVars(\E x \in Xfer, nested \in Nested(curl) : TimerFires(x, "over", nested))
    /\ WF_ccVars(\E nested \in Nested(curl) : LostTimer(nested))

----------------------------------------------------------------------------
(* Properties.                                                             *)

\* libcurl is called back whenever it asked to be, and no timer is left that the
\* client does not know of; each socket it waits for is watched, or its loss is
\* about to be reported, and no other socket's is.  A client that is gone leaves
\* nothing in the loop ("curl owns this timer", "Order is load-bearing",
\* lost_fds_).
CurlIsHeard ==
    /\ curl.armed = IF curl.known THEN 1 ELSE 0
    /\ curl.live =>
        /\ curl.known <=> curl.want # "none"
        /\ curl.lost # {} => curl.lostTimer
        /\ curl.lost \subseteq curl.gone
        /\ \A x \in Xfer : curl.xf[x] = "wait" => curl.sock[x] \in curl.fds \cup curl.lost
    /\ ~curl.live => curl.armed = 0 /\ ~curl.lostTimer

\* With a timeout every request ends in one callback, those started from the
\* callback of another included, unless the client goes first (perform,
\* check_multi_info).
TransfersEnd ==
    \A x \in Xfer : (curl.timed /\ curl.xf[x] # "none") ~> (curl.told[x] = 1 \/ ~curl.live)
=============================================================================

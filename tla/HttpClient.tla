----------------------------- MODULE HttpClient -----------------------------
(***************************************************************************)
(* The HTTP client (http_client.cpp): one TcpClient, one response parser   *)
(* and one `done` flag for each request, settled by whichever comes first  *)
(* of a complete response, an error and the end of the connection.         *)
(* FetchClient without curl is this client behind other names.             *)
(***************************************************************************)
EXTENDS Naturals, FiniteSets, TcpClient

CONSTANTS
    Req,        \* requests
    MaxPieces   \* bound on the reads of an answer before its last one

VARIABLES
    pending,    \* pending_: what the client holds of each request, or Absent
    timers,     \* the timers of the client, but for those of its connections
    told,       \* how often on_response or on_error was called for a request
    refused,    \* requests with a scheme that is not HTTP
    client      \* "live" until the owner destroys the client

hcVars == <<pending, timers, told, refused, client>>

Absent == [tcp |-> TcpFresh(FALSE, FALSE, FALSE), broken |-> FALSE,
           done |-> FALSE, held |-> FALSE, pieces |-> 0]

\* add_timer(): an interval of 0 ms arms nothing, the timer stays and never fires.
Timer(what, r, ms) == [what |-> what, req |-> r, ms |-> ms]
Fires(t) == t.ms > 0

HttpClientTypeOK ==
    /\ \A r \in Req : pending[r] \in
           [tcp : TcpRecords, broken : BOOLEAN, done : BOOLEAN, held : BOOLEAN,
            pieces : 0 .. MaxPieces]
    /\ timers \subseteq {Timer("refusal", r, 1) : r \in Req}
                            \cup {Timer("sweep", r, 0) : r \in Req}
    /\ told \in [Req -> 0 .. 2]
    /\ refused \subseteq Req
    /\ client \in {"live", "gone"}

Asked(r) == told[r] > 0 \/ pending[r].held \/ r \in refused

----------------------------------------------------------------------------
\* The callbacks settle a request once: `done`, then the user is told, then the
\* sweep is asked for (the handlers of request()).
Settle(r, p) ==
    IF p.done
    THEN /\ pending' = [pending EXCEPT ![r] = p]
         /\ UNCHANGED <<told, timers>>
    ELSE /\ pending' = [pending EXCEPT ![r] = [p EXCEPT !.done = TRUE]]
         /\ told' = [told EXCEPT ![r] = @ + 1]
         /\ timers' = timers \cup {Timer("sweep", r, 0)}

\* A request after a method of its connection: on_connect sends the request, and
\* a send that fails ends as any other error.
Handle(r, p, t) ==
    LET u == IF t.ev = "connect" THEN TcpSend(TcpHeard(t)) ELSE t
        q == [p EXCEPT !.tcp = TcpHeard(u)]
    IN  IF u.ev = "none"
        THEN pending' = [pending EXCEPT ![r] = q] /\ UNCHANGED <<told, timers>>
        ELSE Settle(r, q)

\* request() of a scheme that is not HTTP: refused from the loop, 1 ms later.
Refuse(r) ==
    /\ client = "live" /\ ~Asked(r)
    /\ refused' = refused \cup {r}
    /\ timers' = timers \cup {Timer("refusal", r, 1)}
    /\ UNCHANGED <<pending, told, client>>

\* Mutant: the timeout of the client bounds the connect only.
RequestUnbounded(r, how, tls, timeout) ==
    /\ client = "live" /\ ~Asked(r)
    /\ LET t == TcpFresh(tls, timeout, FALSE)
       IN  Handle(r, [Absent EXCEPT !.held = TRUE], TcpConnect(t, how))
    /\ UNCHANGED <<refused, client>>

\* request(): the connection may fail before connect() returns.
Request(r, how, tls, timeout) ==
    /\ client = "live" /\ ~Asked(r)
    /\ LET t == TcpFresh(tls, timeout, timeout)
       IN  Handle(r, [Absent EXCEPT !.held = TRUE], TcpConnect(t, how))
    /\ UNCHANGED <<refused, client>>

News(r, e) ==
    /\ pending[r].held /\ TcpCan(pending[r].tcp, e)
    /\ Handle(r, pending[r], TcpOn(pending[r].tcp, e))
    /\ UNCHANGED <<refused, client>>

\* A read: a piece of the answer, its end, or bytes that are no HTTP, after which
\* the parser takes no more.  The handler closes the connection, whose on_close
\* finds the request done.
Read(r, what) ==
    LET p == [pending[r] EXCEPT !.tcp = TcpReading(@)]
    IN  /\ pending[r].held /\ Awake(pending[r].tcp) /\ pending[r].tcp.st = "Connected"
        /\ p.pieces < MaxPieces
        /\ IF what = "end" /\ ~p.broken /\ ~p.done
           THEN Settle(r, [p EXCEPT !.tcp = TcpHeard(TcpClose(@))])
           ELSE /\ pending' = [pending EXCEPT ![r] =
                       [p EXCEPT !.broken = @ \/ what = "garbage", !.pieces = @ + 1]]
                /\ UNCHANGED <<told, timers>>
        /\ UNCHANGED <<refused, client>>

\* A timer of the client fires: it reports a refusal, or sweeps what is done
\* (cleanup_done).
TimerFires(t) ==
    /\ t \in timers /\ Fires(t)
    /\ timers' = timers \ {t}
    /\ told' = IF t.what = "refusal" THEN [told EXCEPT ![t.req] = @ + 1] ELSE told
    /\ pending' = IF t.what = "refusal" THEN pending
                  ELSE [r \in Req |-> IF pending[r].done THEN Absent ELSE pending[r]]
    /\ UNCHANGED <<refused, client>>

\* ~HttpClient(): the refusals are cancelled and the connections go with
\* pending_; nobody is told.
Destroy ==
    /\ client = "live"
    /\ client' = "gone"
    /\ timers' = {t \in timers : t.what # "refusal"}
    /\ pending' = [r \in Req |-> Absent]
    /\ UNCHANGED <<told, refused>>

----------------------------------------------------------------------------
HttpClientInit ==
    /\ pending = [r \in Req |-> Absent]
    /\ timers = {}
    /\ told = [r \in Req |-> 0]
    /\ refused = {}
    /\ client = "live"

HttpClientNext ==
    \/ \E r \in Req : Refuse(r)
    \/ \E r \in Req, how \in Hows, tls, timeout \in BOOLEAN :
           Request(r, how, tls, timeout)
    \/ \E r \in Req, e \in TcpEvents : News(r, e)
    \/ \E r \in Req, what \in {"piece", "end", "garbage"} : Read(r, what)
    \/ \E t \in timers : TimerFires(t)
    \/ Destroy

HttpClientSpec == HttpClientInit /\ [][HttpClientNext]_hcVars

\* Timers that are armed fire.  Nothing is assumed of the server.
HttpClientFairness ==
    /\ \A r \in Req :
         WF_hcVars(News(r, "connect timeout")) /\ WF_hcVars(News(r, "idle timeout"))
    /\ WF_hcVars(\E t \in timers : TimerFires(t))

----------------------------------------------------------------------------
(* Properties.                                                             *)

\* Nobody is told twice of a request, and nobody is told once the client is
\* gone ("must not call back into an owner that is gone", ~HttpClient()).
ToldOnce == \A r \in Req : told[r] <= 1
QuietOnceGone == [][client = "gone" => UNCHANGED told]_hcVars

\* With the timeout of the client set, which is its default, every request over
\* plain TCP is answered or fails (set_timeout).
RequestsSettle ==
    \A r \in Req : (pending[r].held /\ pending[r].tcp.ct /\ ~pending[r].tcp.tls)
                      ~> (told[r] = 1 \/ client = "gone")

\* A request that is settled is given up: the sweep that each settled request
\* asks for runs ("Defer cleanup -- we're inside TcpClient's on_data callback
\* chain").
SettledAreSwept == \A r \in Req : pending[r].done ~> ~pending[r].held
=============================================================================

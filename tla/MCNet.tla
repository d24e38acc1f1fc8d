-------------------------------- MODULE MCNet --------------------------------
(***************************************************************************)
(* Model checking of Sockets and of the parser of WebSocket frames.  The   *)
(* parts share no state, and one run checks them one beside the other:     *)
(* `part' is the one that runs, the others stay as they begin.             *)
(***************************************************************************)
EXTENDS Sockets

\* The frames sent to the parser: each length around the three forms of the
\* length field, masked and not, two in a row, and fragments with control frames
\* between them.
Text(n) == [i \in 1 .. n |-> (2 * i + n) % 4]
Frame(op, fin, n, mask) == [op |-> op, fin |-> fin, payload |-> Text(n), mask |-> mask]
Masks == {<<>>, <<1, 2, 3, 0>>}

Streams ==
    { <<Frame(1, TRUE, n, m)>> : n \in {0, 1, 2, 3, 15, 16, 17}, m \in Masks }
    \cup { <<Frame(1, TRUE, n, m), Frame(2, TRUE, k, m)>> :
              n \in {0, 1, 2}, k \in {0, 3}, m \in Masks }
    \cup { <<Frame(1, FALSE, 1, m), Frame(9, TRUE, n, m), Frame(0, FALSE, 2, m),
             Frame(8, TRUE, 0, m), Frame(0, TRUE, k, m), Frame(2, TRUE, 1, m)>> :
              n \in {0, 1}, k \in {0, 3}, m \in Masks }

\* Two modules: two routes of any kind in any order in the first; in the second
\* a path the first may have, and whatever else is posted.
Get(pattern)  == [method |-> "GET", pattern |-> pattern]
Post(pattern) == [method |-> "POST", pattern |-> pattern]

Patterns == { <<"a">>, <<"a", "">>, <<"a", "b">>, <<"a", "{x}">>, <<"{x}", "{y}">>,
              <<"a", "*">>, <<"{x}", "*">>, <<"*">> }

NetTables ==
    { << <<r, Get(p)>>, <<Get(<<"a", "b">>), Post(<<"*">>)>> >> :
        r \in {Get(q) : q \in Patterns} \cup {Post(q) : q \in Patterns}, p \in Patterns }

NetPaths ==
    { <<"">>, <<"a">>, <<"b">>, <<"a", "">>, <<"a", "b">>, <<"b", "b">>, <<"", "a">>,
      <<"a", "", "b">>, <<"a", "b", "a">>, <<"docs", "">>, <<"docs", "", "api.json">> }

\* The request that waits in the parts that dispatch none.
OtherRequest ==
    [ tables |-> << <<Get(<<"a">>), Get(<<"a">>)>>, <<Get(<<"a", "b">>), Post(<<"*">>)>> >>,
      enabled |-> <<TRUE, TRUE>>, path |-> <<"a">>, method |-> "GET", at |-> 1,
      answer |-> R!None ]

VARIABLES
    part,                           \* which part runs
    stream, pos, parser, got        \* WsParser

P  == INSTANCE WsParser WITH Seven <- 4, Radix <- 4, MaskBytes <- 4
MS == INSTANCE SmtpClient WITH Rcpts <- 1, Implicit <- TRUE, Login <- FALSE

wsVars == <<ws, calls, faults>>
hcVars == <<pending, timers, told, refused, client>>
hpVars == <<ctx, deadline, sweep, outcome, reached, proxy>>
smVars == <<smtp, accepted, done, failed, added, sessions>>
ccVars == <<curl, losses>>
wpVars == <<stream, pos, parser, got>>
wcVars == <<conn, wire, sent, quiet, ended>>

Parts == {"WsClient", "HttpClient", "HttpProxy", "SmtpClient", "SmtpClient, port 465",
          "CurlClient", "EventLoop", "WsParser", "WsConnection", "RouteDispatch"}

Is(p) == part = p

\* A part that does not run has nothing armed and nothing on its way.
Init ==
    /\ part \in Parts
    /\ W!Init /\ (Is("WsClient") \/ ws = W!Fresh(FALSE, FALSE))
    /\ H!HttpClientInit
    /\ X!HttpProxyInit
    /\ M!SmtpInit
    /\ C!CurlInit /\ (Is("CurlClient") \/ ~curl.timed)
    /\ LoopInit /\ (Is("EventLoop") \/ ~et)
    /\ P!ParserInit /\ (Is("WsParser") \/ stream = <<Frame(1, TRUE, 0, <<>>)>>)
    /\ S!WsConnectionInit
    /\ \/ Is("RouteDispatch") /\ R!RouteInit
       \/ ~Is("RouteDispatch") /\ rq = OtherRequest

Next ==
    /\ UNCHANGED part
    /\ \/ /\ Is("WsClient") /\ W!Next
          /\ UNCHANGED <<rq, hcVars, hpVars, smVars, ccVars, elVars, wpVars, wcVars>>
       \/ /\ Is("HttpClient") /\ H!HttpClientNext
          /\ UNCHANGED <<rq, wsVars, hpVars, smVars, ccVars, elVars, wpVars, wcVars>>
       \/ /\ Is("HttpProxy") /\ X!HttpProxyNext
          /\ UNCHANGED <<rq, wsVars, hcVars, smVars, ccVars, elVars, wpVars, wcVars>>
       \/ /\ Is("SmtpClient") /\ M!SmtpNext
          /\ UNCHANGED <<rq, wsVars, hcVars, hpVars, ccVars, elVars, wpVars, wcVars>>
       \/ /\ Is("SmtpClient, port 465") /\ MS!SmtpNext
          /\ UNCHANGED <<rq, wsVars, hcVars, hpVars, ccVars, elVars, wpVars, wcVars>>
       \/ /\ Is("CurlClient") /\ C!CurlNext
          /\ UNCHANGED <<rq, wsVars, hcVars, hpVars, smVars, elVars, wpVars, wcVars>>
       \/ /\ Is("EventLoop") /\ LoopNext
          /\ UNCHANGED <<rq, wsVars, hcVars, hpVars, smVars, ccVars, wpVars, wcVars>>
       \/ /\ Is("WsParser") /\ P!ParserNext
          /\ UNCHANGED <<rq, wsVars, hcVars, hpVars, smVars, ccVars, elVars, wcVars>>
       \/ /\ Is("WsConnection") /\ S!WsConnectionNext
          /\ UNCHANGED <<rq, wsVars, hcVars, hpVars, smVars, ccVars, elVars, wpVars>>
       \/ /\ Is("RouteDispatch") /\ R!RouteNext
          /\ UNCHANGED <<wsVars, hcVars, hpVars, smVars, ccVars, elVars, wpVars, wcVars>>

vars == <<part, rq, wsVars, hcVars, hpVars, smVars, ccVars, elVars, wpVars, wcVars>>

\* Nothing a part's fairness asks for is enabled while it does not run.
Spec ==
    /\ Init /\ [][Next]_vars
    /\ W!Fairness /\ H!HttpClientFairness /\ X!HttpProxyFairness
    /\ C!CurlFairness /\ LoopFairness

----------------------------------------------------------------------------
(* Properties; each is stated, and its code named, in the module it is of,  *)
(* CalledForItsOwn and NobodyStarves in EventLoop; those of Sockets are     *)
(* checked as they are.                                                     *)

\* What is sent is what is received: frames through the parser in any pieces
\* (WsParser).
SentIsDelivered == P!SentIsDelivered

\* Whatever was asked for is answered, fails or is given up, and a lost server is
\* connected to again (WsClient, HttpClient, HttpProxy, CurlClient).
CallsEnd ==
    /\ W!RequestsEnd /\ W!Recovers
    /\ H!RequestsSettle /\ H!QuietOnceGone
    /\ X!PlainForwardsEnd
    /\ C!TransfersEnd
=============================================================================

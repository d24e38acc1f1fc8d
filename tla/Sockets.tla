------------------------------- MODULE Sockets -------------------------------
(***************************************************************************)
(* What a process does with its sockets and timers: the event loop, the    *)
(* protocol clients, the server's end of a WebSocket and the routes of     *)
(* requests, side by side.  They share no state: what one tells another is *)
(* an action of its own module.                                            *)
(***************************************************************************)
EXTENDS EventLoop

CONSTANTS
    Req,                                        \* WsClient and HttpClient
    MaxCalls, MaxFaults,                        \* WsClient
    MaxPieces,                                  \* HttpClient
    Fwd, MaxReads,                              \* HttpProxy
    Msg, Rcpts, Implicit, Login, MaxSessions,   \* SmtpClient
    Xfer, Fds, MaxLosses,                       \* CurlClient
    MaxFrames, Size, MaxPending, PingAfter, CloseAfter,   \* WsConnection
    Tables, Paths, Methods                      \* RouteDispatch

\* A socket is told from the steps of a transfer and from no socket.  WsKeepAlive
\* is on (enabled()), and waits some time for an answer (grace).
ASSUME SocketsConstants ==
    /\ MaxCalls \in Nat /\ MaxFaults \in Nat /\ MaxPieces \in Nat /\ MaxReads \in Nat
    /\ MaxSessions \in Nat /\ MaxLosses \in Nat /\ MaxFrames \in Nat /\ MaxPending \in Nat
    /\ Rcpts \in Nat \ {0} /\ Implicit \in BOOLEAN /\ Login \in BOOLEAN
    /\ Size \in Nat \ {0} /\ PingAfter \in Nat \ {0} /\ CloseAfter \in Nat \ {0}
    /\ "over" \notin Fds /\ "turn" \notin Fds /\ "none" \notin Fds

VARIABLES
    ws, calls, faults,                                            \* WsClient
    pending, timers, told, refused, client,                       \* HttpClient
    ctx, deadline, sweep, outcome, reached, proxy,                \* HttpProxy
    smtp, accepted, done, failed, added, sessions,                \* SmtpClient
    curl, losses,                                                 \* CurlClient
    conn, wire, sent, quiet, ended,                               \* WsConnection
    rq                                                            \* RouteDispatch

W  == INSTANCE WsClient
H  == INSTANCE HttpClient
X  == INSTANCE HttpProxy
M  == INSTANCE SmtpClient
C  == INSTANCE CurlClient
S  == INSTANCE WsConnection WITH ws <- conn
R  == INSTANCE RouteDispatch

\* Requests are for the routes that modules make (init_routes()).
ASSUME RouteConstants ==
    /\ \A tables \in Tables :
          /\ Len(tables) \in Nat /\ DOMAIN tables = 1 .. Len(tables)
          /\ \A m \in DOMAIN tables : R!Proper(tables[m])
    /\ Paths \subseteq Seq(STRING)

\* Each part goes its own way.
SocketsSpec ==
    /\ LoopSpec /\ W!Spec /\ H!HttpClientSpec /\ X!HttpProxySpec /\ M!SmtpSpec
    /\ C!CurlSpec /\ S!WsConnectionSpec /\ R!RouteSpec

----------------------------------------------------------------------------
(* Properties; each is stated, and its code named, in the module it is of.  *)

\* The type invariants of the parts.
TypeOK ==
    /\ W!TypeOK /\ H!HttpClientTypeOK /\ X!HttpProxyTypeOK /\ M!SmtpTypeOK
    /\ C!CurlTypeOK /\ LoopTypeOK /\ S!WsConnectionTypeOK

\* What a caller is told is so, and is told once: where a request went, and what
\* became of a message (HttpClient, HttpProxy, SmtpClient).
OutcomesAreTrue ==
    H!ToldOnce /\ X!SafeToRetry /\ M!DoneMeansAccepted

\* A connection has the timers and registrations that will tell it of its end, in
\* time, and until then what is sent over it goes out whole and in order
\* (WsClient, CurlClient, WsConnection).
ConnectionsHold ==
    W!SaysWhatItIs /\ C!CurlIsHeard /\ S!GoneIsNoticed /\ S!StreamIsWhole

\* A request goes to the handler its path and method ask for (RouteDispatch).
RightRouteAnswers == R!RightRouteAnswers
=============================================================================

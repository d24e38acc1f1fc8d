------------------------------ MODULE WsMethods ------------------------------
(***************************************************************************)
(* The methods of the WebSocket client (ws_client.cpp) that a callback of  *)
(* its user may call, and what they are made of: operators from one state  *)
(* of the client, the record of WsClient, to the next.                     *)
(*                                                                         *)
(* A method may tell the user something on its way, and the user's         *)
(* callback may call a method in turn: what it does is the parameter Tell. *)
(* WsClient takes these methods twice, as the loop and the user call them, *)
(* and as a callback does.                                                 *)
(***************************************************************************)
EXTENDS Naturals, TcpClient

CONSTANT Tell(_)    \* a callback of the user, run in a state of the client

Alive == {"Connecting", "Upgrading", "Connected"}

----------------------------------------------------------------------------
(* Timers and the end of a connection.                                     *)

StopPing(w) == [w EXCEPT !.ping = FALSE]

\* start_reconnect_timer(); the growing delay is left out.
Arm(w) == [w EXCEPT !.timer = TRUE]

\* enter_error(): the TCP connection is left as it is.
EnterError(w) == Tell([StopPing(w) EXCEPT !.timer = FALSE, !.st = "Error"])

\* The user is told first, with the state as it was; then the client waits to
\* reconnect, whatever the user did meanwhile.
TellThenWait(w) == Arm([Tell(StopPing(w)) EXCEPT !.st = "Reconnecting"])

\* tcp_.on_close and tcp_.on_error as do_connect() sets them.
OnTcpClose(w) ==
    CASE w.st \in {"Closing", "Closed", "Reconnecting"}     -> w
      [] w.auto /\ w.st \in {"Connected", "Error"}          -> TellThenWait(w)
      [] OTHER -> Tell([StopPing(w) EXCEPT !.st = "Closed"])

OnTcpError(w) ==
    IF w.auto /\ w.st \in Alive THEN TellThenWait(w) ELSE EnterError(w)

\* The client after a method of tcp_ that cannot end in on_connect_.
Ends(w, t) ==
    LET u == [w EXCEPT !.tcp = TcpHeard(t)]
    IN  CASE t.ev = "none"  -> u
          [] t.ev = "close" -> OnTcpClose(u)
          [] t.ev = "error" -> OnTcpError(u)

Send(w) == Ends(w, TcpSend(w.tcp))

\* send_upgrade_request()
SendUpgrade(w) == Send([w EXCEPT !.st = "Upgrading", !.up = TRUE])

\* The same for any method of tcp_.
After(w, t) ==
    IF t.ev = "connect" THEN SendUpgrade([w EXCEPT !.tcp = TcpHeard(t)])
    ELSE Ends(w, t)

----------------------------------------------------------------------------
(* Methods of the user.                                                    *)

DoConnect(w, how) ==
    LET u == [w EXCEPT !.st = "Connecting", !.up = FALSE, !.pong = FALSE,
                       !.miss = 0, !.buf = "none", !.silent = FALSE]
    IN  After(u, TcpConnect(u.tcp, how))

\* connect(): a reconnect timer that is armed stays armed.
Connect(w, how) ==
    IF w.st \in {"Idle", "Closed", "Error", "Reconnecting"}
    THEN DoConnect(w, how)
    ELSE EnterError(w)

Close(w) ==
    IF w.st # "Connected" THEN w
    ELSE Send([StopPing(w) EXCEPT !.st = "Closing"])

Reconnect(w) ==
    IF w.st = "Reconnecting" THEN w
    ELSE LET u == [StopPing(w) EXCEPT !.st = "Reconnecting"]
         IN  Arm(Ends(u, TcpClose(u.tcp)))
=============================================================================

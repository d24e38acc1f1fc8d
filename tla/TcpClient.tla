----------------------------- MODULE TcpClient -----------------------------
(***************************************************************************)
(* The asynchronous TCP client every outgoing protocol of the library is   *)
(* built on (tcp_client.cpp), as operators from one state of the client to *)
(* the next.  A client is a record; an operator is one of its methods.     *)
(*                                                                         *)
(*   st       state_                                                       *)
(*   fd       fd_ >= 0                                                     *)
(*   watched  io_registered_                                               *)
(*   out      output_ holds bytes not yet sent                             *)
(*   connect, idle   connect_timer_ and idle_timer_ are armed              *)
(*   gone     the descriptor was closed under the client (T607)            *)
(*   tls      tls_enabled_                                                 *)
(*   ct, it   connect_timeout_ and idle_timeout_ are set                   *)
(*   ev       the callback this method ends with                           *)
(*                                                                         *)
(* on_connect_, on_close_ and on_error_ are always the last thing a method *)
(* does, so a method returns in `ev` which of them it calls, and the owner *)
(* goes on from there.  on_data_ is called in the middle of                *)
(* handle_readable(): the owner takes TcpReading and goes on with what it  *)
(* does with the bytes.                                                    *)
(***************************************************************************)

TcpFresh(tls, ct, it) ==
    [ st |-> "Idle", fd |-> FALSE, watched |-> FALSE, out |-> FALSE,
      connect |-> FALSE, idle |-> FALSE, gone |-> FALSE,
      tls |-> tls, ct |-> ct, it |-> it, ev |-> "none" ]

TcpRecords ==
    [ st : {"Idle", "Connecting", "TlsHandshake", "Connected", "Closed", "Error"},
      fd : BOOLEAN, watched : BOOLEAN, out : BOOLEAN, connect : BOOLEAN,
      idle : BOOLEAN, gone : BOOLEAN, tls : BOOLEAN, ct : BOOLEAN, it : BOOLEAN,
      ev : {"none"} ]

\* What the owner has taken notice of.
TcpHeard(t) == [t EXCEPT !.ev = "none"]

\* cleanup(): the timers, the registration and the descriptor go together.
TcpCleanup(t) ==
    [t EXCEPT !.connect = FALSE, !.idle = FALSE, !.fd = FALSE,
              !.watched = FALSE, !.gone = FALSE]

\* enter_error(): whatever was going on, on_error_ follows.
TcpError(t) == [TcpCleanup(t) EXCEPT !.st = "Error", !.ev = "error"]

\* watch(): modify_io() fails on a descriptor the loop has let go of.
Watch(t) == IF t.gone THEN TcpError([t EXCEPT !.watched = FALSE]) ELSE t

ResetIdle(t) == [t EXCEPT !.idle = t.it]

\* on_connected(): for an immediate connect the descriptor is added here.
OnConnected(t) ==
    LET u == [t EXCEPT !.connect = FALSE, !.st = "Connected"]
        v == IF u.watched THEN Watch(u) ELSE [u EXCEPT !.watched = TRUE]
    IN  IF v.st = "Error" THEN v ELSE [ResetIdle(v) EXCEPT !.ev = "connect"]

\* connect(): the name does not resolve, the address is refused or there is no
\* socket ("fail"), the kernel connects at once ("now") or later ("wait").
Hows == {"fail", "now", "wait"}

TcpConnect(t, how) ==
    LET u == [TcpCleanup(t) EXCEPT !.out = FALSE]
        v == [u EXCEPT !.fd = TRUE, !.st = "Connecting"]
    IN  IF t.st \notin {"Idle", "Closed", "Error"} THEN TcpError(t) ELSE
        CASE how = "fail" -> TcpError(u)
          [] how = "now"  -> OnConnected(v)
          [] how = "wait" -> [v EXCEPT !.watched = TRUE, !.connect = t.ct]

\* send(): bytes wait for the connection, or for EPOLLOUT.
TcpSend(t) ==
    CASE t.st \in {"Connecting", "TlsHandshake"} -> [t EXCEPT !.out = TRUE]
      [] t.st = "Connected" /\ t.out             -> t
      [] t.st = "Connected" /\ ~t.out            -> Watch([t EXCEPT !.out = TRUE])
      [] OTHER                                   -> TcpError(t)

\* close(): a client that is closed says nothing, any other calls on_close_.
TcpClose(t) ==
    IF t.st = "Closed" THEN t
    ELSE [TcpCleanup(t) EXCEPT !.st = "Closed", !.ev = "close"]

----------------------------------------------------------------------------
(* Events of the loop.                                                     *)

\* An event can come for this client.
Awake(t) == t.fd /\ t.watched /\ ~t.gone

\* handle_connect_result(): the TLS handshake starts in the same step, and the
\* connect timer is off from here on.
TcpConnectResult(t, ok) ==
    LET u == [t EXCEPT !.connect = FALSE]
    IN  CASE ~ok        -> TcpError(t)
          [] ok /\ t.tls  -> Watch([u EXCEPT !.st = "TlsHandshake"])
          [] ok /\ ~t.tls -> OnConnected(u)

\* do_tls_handshake(): done, or refused; when it wants more bytes nothing moves.
TlsStep(t, ok) == IF ok THEN OnConnected(t) ELSE TcpError(t)

\* start_tls() of an owner that talks STARTTLS.
StartTls(t) ==
    IF t.st # "Connected" THEN TcpError(t)
    ELSE Watch([t EXCEPT !.tls = TRUE, !.st = "TlsHandshake"])

\* handle_readable() before its first read.
TcpReading(t) == ResetIdle(t)

\* handle_writable(): the output went out, all of it.
TcpDrained(t) == Watch([ResetIdle(t) EXCEPT !.out = FALSE])

\* What the loop can tell a client, reads apart, and the client after it.  A
\* reset is EPOLLERR or EPOLLHUP, a failed recv() or a failed send().
TcpEvents ==
    {"connected", "refused", "secured", "distrusted", "reset", "eof", "writable",
     "connect timeout", "idle timeout"}

TcpFaults == TcpEvents \ {"connected", "secured", "writable"}

TcpCan(t, e) ==
    CASE e \in {"connected", "refused"}  -> Awake(t) /\ t.st = "Connecting"
      [] e \in {"secured", "distrusted"} -> Awake(t) /\ t.st = "TlsHandshake"
      [] e = "reset"    -> Awake(t) /\ t.st \in {"TlsHandshake", "Connected"}
      [] e = "eof"      -> Awake(t) /\ t.st = "Connected"
      [] e = "writable" -> Awake(t) /\ t.st = "Connected" /\ t.out
      [] e = "connect timeout" -> t.connect
      [] e = "idle timeout"    -> t.idle

TcpOn(t, e) ==
    CASE e = "connected"  -> TcpConnectResult(t, TRUE)
      [] e = "refused"    -> TcpConnectResult(t, FALSE)
      [] e = "secured"    -> TlsStep(t, TRUE)
      [] e = "distrusted" -> TlsStep(t, FALSE)
      [] e = "eof"        -> TcpClose(TcpReading(t))
      [] e = "writable"   -> TcpDrained(t)
      [] OTHER            -> TcpError(t)
=============================================================================

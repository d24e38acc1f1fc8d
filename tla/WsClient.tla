------------------------------ MODULE WsClient ------------------------------
(***************************************************************************)
(* The WebSocket client (ws_client.cpp) on top of TcpClient: the upgrade,  *)
(* frames, requests with an answer, the ping that notices a silent server, *)
(* and the reconnect that follows a lost connection.                       *)
(*                                                                         *)
(* The client is one record, `ws`, and each method an operator on it.      *)
(* Everything runs on the loop's thread, one event or user call at a time, *)
(* so each of those is one action; what makes it hard is that a callback   *)
(* of the user may call the client back in the middle of a method.  React  *)
(* is that callback: the first one of an event does what `react` says,     *)
(* those inside the reaction do nothing.                                   *)
(***************************************************************************)
EXTENDS Naturals, SequencesExt, TcpClient

CONSTANTS
    Req,        \* requests sent with a response handler, named by their id
    MaxCalls,   \* bound on the user's calls, those from callbacks included
    MaxFaults   \* bound on what goes wrong at the server or on the way

VARIABLES
    ws,         \* the client
    calls,      \* the user's calls so far
    faults      \* the faults so far

vars == <<ws, calls, faults>>

(***************************************************************************)
(*   st      state_                    up     upgrading_                   *)
(*   buf     upgrade_buf_: nothing, an unfinished head, a refused one      *)
(*   ping    ping_timer_ is armed      timer  reconnect_timer_ is armed    *)
(*   pong    pong_pending_             miss   pong_miss_count_             *)
(*   pend    pending_responses_        due    their timers                 *)
(*   auto    auto_reconnect_           tcp    tcp_                         *)
(*   react   what the next callback of the user does                       *)
(*   silent  the server of this connection no longer sends anything        *)
(***************************************************************************)
Reactions == {"none", "close", "reconnect", "connect"}

Fresh(auto, tls) ==
    [ st |-> "Idle", up |-> FALSE, buf |-> "none", ping |-> FALSE, timer |-> FALSE,
      pong |-> FALSE, miss |-> 0, pend |-> {}, due |-> {}, auto |-> auto,
      tcp |-> TcpFresh(tls, TRUE, FALSE), react |-> "none", silent |-> FALSE ]

TypeOK ==
    /\ ws \in [ st : {"Idle", "Connecting", "Upgrading", "Connected", "Closing",
                      "Reconnecting", "Closed", "Error"},
                up : BOOLEAN, buf : {"none", "part", "bad"}, ping : BOOLEAN,
                timer : BOOLEAN, pong : BOOLEAN, miss : 0 .. 2, pend : SUBSET Req,
                due : SUBSET Req, auto : BOOLEAN, tcp : TcpRecords,
                react : {"none"}, silent : BOOLEAN ]
    /\ calls \in 0 .. MaxCalls
    /\ faults \in 0 .. MaxFaults

----------------------------------------------------------------------------
(* A callback of the user does, once per event, what `react` says.  What   *)
(* it calls finds it done with that: it tells the user, who does nothing.  *)

Done(w) == [w EXCEPT !.react = "none"]

Inner == INSTANCE WsMethods WITH Tell <- Done

React(w) ==
    CASE w.react = "none"      -> Done(w)
      [] w.react = "close"     -> Inner!Close(Done(w))
      [] w.react = "reconnect" -> Inner!Reconnect(Done(w))
      [] w.react = "connect"   -> Inner!Connect(Done(w), "wait")

\* The methods, as the loop and the user call them.
INSTANCE WsMethods WITH Tell <- React

\* send() with a response handler: nothing happens unless connected.
Request(w, r) ==
    IF w.st # "Connected" THEN w
    ELSE Send([w EXCEPT !.pend = @ \cup {r}, !.due = @ \cup {r}])

----------------------------------------------------------------------------
(* What the server sends.                                                  *)

\* handle_close_frame(): the frame is echoed unless the client began, and only
\* then the client reconnects.  The TCP connection is left to the server.
HandleClose(w) ==
    LET mine == w.st = "Closing"
        u    == IF mine THEN w ELSE Send(w)
        v    == React([StopPing(u) EXCEPT !.st = "Closed"])
    IN  IF w.auto /\ ~mine THEN Arm([v EXCEPT !.st = "Reconnecting"]) ELSE v

\* handle_text_message() of an answer: unknown ids go to on_message_.
HandleAnswer(w, r) == React([w EXCEPT !.pend = @ \ {r}, !.due = @ \ {r}])

\* handle_text_message() of a request of the server: the handler fills in a
\* response, and send_text() drops it unless connected.
HandleAction(w) ==
    LET u == React(w)
    IN  IF u.st = "Connected" THEN Send(u) ELSE u

\* on_ws_message()
Frames == {"message", "action", "ping", "pong", "close"} \cup Req

OnFrame(w, f) ==
    CASE f = "message" -> React(w)
      [] f = "action"  -> HandleAction(w)
      [] f = "ping"    -> Send(w)
      [] f = "pong"    -> [w EXCEPT !.pong = FALSE]
      [] f = "close"   -> HandleClose(w)
      [] f \in Req     -> HandleAnswer(w, f)

\* ws_parser_.feed(): every frame of the bytes, of which there are two at most, is
\* dispatched, whatever the ones before it did to the client.
Feed(w, frames) ==
    LET first == IF frames = <<>> THEN w ELSE OnFrame(w, frames[1])
    IN  IF Len(frames) < 2 THEN first ELSE OnFrame(first, frames[2])

\* on_upgrade_complete()
Upgraded(w) ==
    React([w EXCEPT !.up = FALSE, !.st = "Connected", !.ping = TRUE])

\* on_tcp_data(): a head that was refused stays in the buffer, and is refused
\* again with every byte that follows it.
OnData(w, head, frames) ==
    CASE w.up /\ (w.buf = "bad" \/ head = "bad") ->
            EnterError([w EXCEPT !.buf = "bad"])
      [] w.up /\ w.buf # "bad" /\ head = "part" -> [w EXCEPT !.buf = "part"]
      [] w.up /\ w.buf # "bad" /\ head = "ok" ->
            [Feed(Upgraded(w), frames) EXCEPT !.buf = "none"]
      [] ~w.up /\ w.st \in {"Connected", "Closing"} -> Feed(w, frames)
      [] OTHER -> w

----------------------------------------------------------------------------
(* Timers.                                                                 *)

\* The ping timer: the second ping without a pong in between ends the wait.
PingTick(w) ==
    LET lost == w.pong /\ w.miss + 1 >= 2
        u    == StopPing(w)
        v    == [u EXCEPT !.st = "Reconnecting", !.miss = 2]
    IN  CASE w.st # "Connected"   -> w
          [] w.st = "Connected" /\ lost /\ w.auto  -> Arm(Ends(v, TcpClose(v.tcp)))
          [] w.st = "Connected" /\ lost /\ ~w.auto -> EnterError([u EXCEPT !.miss = 2])
          [] OTHER -> Send([w EXCEPT !.pong = TRUE,
                                     !.miss = IF w.pong THEN @ + 1 ELSE 0])

\* do_reconnect(): what was asked over the old connection is forgotten.
DoReconnect(w, how) ==
    DoConnect([w EXCEPT !.timer = FALSE, !.pend = {}, !.due = {}], how)

\* A response timer: the request is dropped and the user told.
ResponseTimeout(w, r) == React([w EXCEPT !.pend = @ \ {r}, !.due = @ \ {r}])

----------------------------------------------------------------------------
(* Actions: one event of the loop or one call of the user each, with the   *)
(* reaction r of the first callback it runs.                               *)

\* A reaction is a call of the user too.
Count(call, fault, r) ==
    /\ calls' = calls + call + (IF r = "none" THEN 0 ELSE 1)
    /\ faults' = faults + fault
    /\ calls' <= MaxCalls
    /\ faults' <= MaxFaults

Becomes(w) == ws' = [w EXCEPT !.react = "none"]

With(r) == [ws EXCEPT !.react = r]

Failure(how) == IF how = "fail" THEN 1 ELSE 0

UserConnects ==
    \E how \in Hows, r \in Reactions :
        /\ Becomes(Connect(With(r), how))
        /\ Count(1, Failure(how), r)

UserCloses ==
    \E r \in Reactions : Becomes(Close(With(r))) /\ Count(1, 0, r)

UserReconnects ==
    /\ ws.st # "Idle"
    /\ \E r \in Reactions : Becomes(Reconnect(With(r))) /\ Count(1, 0, r)

UserRequests ==
    \E q \in Req \ ws.pend, r \in Reactions :
        Becomes(Request(With(r), q)) /\ Count(1, 0, r)

\* The loop has news of the TCP connection.
TcpNews(e) ==
    /\ TcpCan(ws.tcp, e)
    /\ \E r \in Reactions :
        /\ Becomes(After(With(r), TcpOn(ws.tcp, e)))
        /\ Count(0, IF e \in TcpFaults THEN 1 ELSE 0, r)

\* One read: the head of the answer to the upgrade, frames, or both.
Data(head, frames, fault) ==
    /\ Awake(ws.tcp) /\ ws.tcp.st = "Connected" /\ ~ws.silent
    /\ \E r \in Reactions :
        /\ Becomes(OnData([With(r) EXCEPT !.tcp = TcpReading(@)], head, frames))
        /\ Count(0, fault, r)

\* A close the client did not ask for is a fault of the server.
Closing(fs) == IF Contains(fs, "close") /\ ws.st # "Closing" THEN 1 ELSE 0

ServerUpgrades ==
    ws.up /\ \E fs \in SeqOf(Frames, 1) : Data("ok", fs, Closing(fs))
ServerDelays   == ws.up /\ ws.buf = "none" /\ Data("part", <<>>, 0)
ServerRefuses  == ws.up /\ Data("bad", <<>>, 1)
ServerSends    ==
    ~ws.up /\ \E fs \in SeqOf(Frames, 2) \ {<<>>} : Data("none", fs, Closing(fs))

\* A server that stays connected and mute.
ServerFallsSilent ==
    /\ ws.st = "Connected" /\ ~ws.silent
    /\ Becomes([ws EXCEPT !.silent = TRUE])
    /\ Count(0, 1, "none")

\* Something else in the process closes the descriptor (T607).
DescriptorIsClosed ==
    /\ Awake(ws.tcp) /\ ws.st = "Connected"
    /\ Becomes([ws EXCEPT !.tcp.gone = TRUE, !.silent = TRUE])
    /\ Count(0, 1, "none")

PingTimer ==
    /\ ws.ping
    /\ \E r \in Reactions : Becomes(PingTick(With(r))) /\ Count(0, 0, r)

ReconnectTimer(how) ==
    /\ ws.timer
    /\ \E r \in Reactions :
        Becomes(DoReconnect(With(r), how)) /\ Count(0, Failure(how), r)

ResponseTimer ==
    \E q \in ws.due, r \in Reactions :
        Becomes(ResponseTimeout(With(r), q)) /\ Count(0, 0, r)

----------------------------------------------------------------------------
Init ==
    /\ \E auto, tls \in BOOLEAN : ws = Fresh(auto, tls)
    /\ calls = 0
    /\ faults = 0

Next ==
    \/ UserConnects \/ UserCloses \/ UserReconnects \/ UserRequests
    \/ \E e \in TcpEvents : TcpNews(e)
    \/ ServerUpgrades \/ ServerDelays \/ ServerRefuses \/ ServerSends
    \/ ServerFallsSilent \/ DescriptorIsClosed
    \/ PingTimer \/ ResponseTimer
    \/ \E how \in Hows : ReconnectTimer(how)

Spec == Init /\ [][Next]_vars

\* The loop fires the timers that are armed; a server that is there accepts,
\* answers the handshakes, and reads.
Fairness ==
    /\ WF_vars(PingTimer)
    /\ WF_vars(ResponseTimer)
    /\ WF_vars(ReconnectTimer("wait"))
    /\ WF_vars(TcpNews("connected"))
    /\ WF_vars(TcpNews("secured"))
    /\ WF_vars(ws.up /\ Data("ok", <<>>, 0))

FairSpec == Spec /\ Fairness

----------------------------------------------------------------------------
(* Properties.                                                             *)

\* A client that says it is connected is: its TCP connection stands, the ping
\* that would notice a silent server is armed, and no upgrade is going on; one
\* that says it is reconnecting has the timer that will do it
\* (ws_client.cpp: every way into the two states).
SaysWhatItIs ==
    /\ ws.st = "Connected" =>
           ws.tcp.st = "Connected" /\ ws.ping /\ ~ws.up
    /\ ws.st = "Reconnecting" => ws.timer
    /\ ws.pend = ws.due

\* With auto_reconnect a server lost, by a close, an error or its silence, is
\* followed by a new connection that is upgraded, unless the client has ended,
\* or its user is ending it (ping timer, tcp_.on_close, tcp_.on_error).
Recovers ==
    (ws.st = "Reconnecting" \/ (ws.st = "Connected" /\ ws.silent))
        ~> (ws.st \in {"Closing", "Closed", "Error"} \/ (ws.st = "Connected" /\ ~ws.silent))

\* Every request sent with a response handler is settled: answered, timed out,
\* or dropped with the connection it went out on.
RequestsEnd == \A q \in Req : q \in ws.pend ~> q \notin ws.pend
=============================================================================

---------------------------- MODULE WsConnection ----------------------------
(***************************************************************************)
(* The server's end of a WebSocket (websocket.cpp): frames go out in order *)
(* over a socket that takes part of them, a tail that waits is bounded,    *)
(* and WsKeepAlive ends a connection whose peer is gone.                   *)
(*                                                                         *)
(* A frame is Size units of output.  The owner, a module of the server,    *)
(* calls on_readable() and on_writable() for the events of the loop, and   *)
(* step() at every heartbeat.                                              *)
(***************************************************************************)
EXTENDS Naturals, Sequences, SequencesExt

CONSTANTS
    MaxFrames,  \* bound on the frames sent
    Size,       \* units of a frame
    MaxPending, \* max_pending_, in units
    PingAfter,  \* ping_after, in heartbeats
    CloseAfter  \* close_after

VARIABLES
    ws,         \* the connection
    wire,       \* what the socket has taken, by frame and unit
    sent,       \* frames given to send_raw() of an open connection
    quiet,      \* heartbeats since the peer last sent or took anything
    ended       \* why the connection closed

wcVars == <<ws, wire, sent, quiet, ended>>

(***************************************************************************)
(*   closed   closed_               pending  pending_ from pending_pos_    *)
(*   out      EPOLLOUT is asked for                                        *)
(*   watched  the loop has the socket; gone, it was closed (T607)          *)
(*   read, drained   heartbeats since last_read_ and drained_at_           *)
(*   ping     heartbeats since keepalive_ping_at_, or Never                *)
(***************************************************************************)
Enough == PingAfter + CloseAfter + 1
Never == Enough + 1
Ages == 0 .. Enough

Units == (0 .. MaxFrames) \X (1 .. Size)

WsConnectionTypeOK ==
    /\ ws \in [ closed : BOOLEAN, pending : Seq(Units), out : BOOLEAN,
                watched : BOOLEAN, gone : BOOLEAN, read : Ages, drained : Ages,
                ping : Ages \cup {Never} ]
    /\ wire \in Seq(Units)
    /\ sent \in 0 .. MaxFrames /\ quiet \in Ages
    /\ ended \in {"open", "lost", "cap", "bye", "silence"}

FrameOf(i) == [k \in 1 .. Size |-> <<i, k>>]

----------------------------------------------------------------------------
(* Writing.  A connection, with the socket and the count beside it, goes   *)
(* through several sends in one event.                                     *)

Now == [ws |-> ws, wire |-> wire, sent |-> sent, ended |-> ended]

Becomes(s) ==
    /\ ws' = s.ws /\ wire' = s.wire /\ sent' = s.sent /\ ended' = s.ended

Close(s, why) == [s EXCEPT !.ws.closed = TRUE,
                           !.ended = IF @ = "open" THEN why ELSE @]
Dropped(s) == [s EXCEPT !.ws.pending = <<>>]
Unwatched(s) == [s EXCEPT !.ws.watched = FALSE]

Counted(s) == [s EXCEPT !.sent = @ + 1]
Taken(s, units) == [s EXCEPT !.wire = @ \o units]
Waiting(s, units) == [s EXCEPT !.ws.pending = units]
Drained(s) == [s EXCEPT !.ws.drained = 0]

\* modify_io(), and lost_watch() when the loop has let go of the socket.
Interest(s, out) ==
    IF s.ws.gone THEN Unwatched(Dropped(Close(s, "lost")))
    ELSE [s EXCEPT !.ws.out = out]

\* What the socket takes of n units, and whether it is then full or broken.
Takes(n) == (0 .. n) \X {"full", "broken"}

\* send_raw(): behind a tail that waits a frame waits too, within the limit.
Queued(s, frame) ==
    IF Len(s.ws.pending) + Size > MaxPending THEN Unwatched(Dropped(Close(s, "cap")))
    ELSE Waiting(s, s.ws.pending \o frame)

Started(s, frame, take) ==
    LET w    == Taken(s, SubSeq(frame, 1, take[1]))
        tail == SubSeq(frame, take[1] + 1, Size)
    IN  IF tail = <<>> THEN w
        ELSE IF take[2] = "broken" THEN Close(w, "lost")
        ELSE IF Len(tail) > MaxPending THEN Unwatched(Close(w, "cap"))
        ELSE Interest(Waiting(w, tail), TRUE)

Send(s, take) ==
    LET frame == FrameOf(s.sent + 1)
    IN  IF s.ws.closed \/ s.sent = MaxFrames THEN s
        ELSE IF s.ws.pending # <<>> THEN Queued(Counted(s), frame)
        ELSE Started(Counted(s), frame, take)

\* Mutant: the tail is kept whole when the socket took part of it.
DrainWhole(s, take) ==
    LET w == Taken(s, SubSeq(s.ws.pending, 1, take[1]))
    IN  IF take[1] = Len(s.ws.pending) THEN Interest(Dropped(w), FALSE)
        ELSE IF take[2] = "full" THEN w
        ELSE Dropped(Close(w, "lost"))

\* on_writable()
Drain(s, take) ==
    LET rest == SubSeq(s.ws.pending, take[1] + 1, Len(s.ws.pending))
        v == Waiting(Taken(s, SubSeq(s.ws.pending, 1, take[1])), rest)
        w == IF take[1] > 0 THEN Drained(v) ELSE v
    IN  IF rest = <<>> THEN Interest(w, FALSE)
        ELSE IF take[2] = "full" THEN w
        ELSE Dropped(Close(w, "lost"))

----------------------------------------------------------------------------
(* Events.                                                                 *)

Awake == ws.watched /\ ~ws.gone

\* The owner sends of its own accord.
OwnerSends ==
    /\ sent < MaxFrames /\ ~ws.closed
    /\ \E take \in Takes(Size) : Becomes(Send(Now, take))
    /\ UNCHANGED quiet

\* on_readable(): the messages first, whose handler answers each with a frame,
\* then one pong, then the close frame or the end of input.
Heard(s) == [s EXCEPT !.ws.read = 0, !.ws.ping = Never]

Readable ==
    /\ Awake /\ ~ws.closed
    /\ \E messages \in 0 .. 2, pings, close, eof \in BOOLEAN,
          a, b \in Takes(Size) :
        LET bytes == messages > 0 \/ pings \/ close
            read == IF bytes THEN Heard(Now) ELSE Now
            m1 == IF messages > 0 THEN Send(read, a) ELSE read
            m2 == IF messages > 1 THEN Send(m1, b) ELSE m1
            pong == IF pings THEN Send(m2, b) ELSE m2
        IN  /\ bytes \/ eof
            /\ Becomes(IF close THEN Close(Send(pong, b), "bye")
                       ELSE IF eof THEN Close(pong, "bye")
                       ELSE pong)
            /\ quiet' = IF bytes THEN 0 ELSE quiet

Writable ==
    /\ Awake /\ ~ws.closed /\ ws.out
    /\ \E take \in Takes(Len(ws.pending)) :
        /\ take[1] > 0 \/ take[2] = "broken"
        /\ Becomes(Drain(Now, take))
        /\ quiet' = IF take[1] > 0 THEN 0 ELSE quiet

\* Something else in the process closes the socket.
ClosedUnder ==
    /\ Awake /\ ~ws.closed
    /\ ws' = [ws EXCEPT !.gone = TRUE]
    /\ UNCHANGED <<wire, sent, quiet, ended>>

\* WsKeepAlive::step(): a ping after silence, and the end when nothing at all
\* follows it; a tail that drains starts the wait again.
Older(n) == IF n >= Enough THEN n ELSE n + 1

Aged == [Now EXCEPT !.ws.read = Older(@), !.ws.drained = Older(@),
                    !.ws.ping = Older(@)]

Pinged(s, ping) == [s EXCEPT !.ws.ping = ping]

KeepAlive(s, take) ==
    LET ping == IF s.ws.drained < s.ws.ping THEN s.ws.drained ELSE s.ws.ping
        sent_ping == Send(s, take)
    IN  IF s.ws.closed THEN s
        ELSE IF s.ws.ping # Never
        THEN IF ping < CloseAfter THEN Pinged(s, ping)
             ELSE Close(Send(Pinged(s, Never), take), "silence")
        ELSE IF s.ws.read < PingAfter \/ s.ws.drained < PingAfter THEN s
        ELSE IF sent_ping.ws.closed THEN sent_ping
        ELSE Pinged(sent_ping, 0)

Heartbeat ==
    /\ ~ws.closed
    /\ \E take \in Takes(Size) : Becomes(KeepAlive(Aged, take))
    /\ quiet' = Older(quiet)

----------------------------------------------------------------------------
WsConnectionInit ==
    /\ ws = [closed |-> FALSE, pending |-> <<>>, out |-> FALSE, watched |-> TRUE,
             gone |-> FALSE, read |-> 0, drained |-> Enough, ping |-> Never]
    /\ wire = <<>>
    /\ sent = 0 /\ quiet = 0 /\ ended = "open"

WsConnectionNext == OwnerSends \/ Readable \/ Writable \/ ClosedUnder \/ Heartbeat

WsConnectionSpec == WsConnectionInit /\ [][WsConnectionNext]_wcVars

----------------------------------------------------------------------------
(* Properties.                                                             *)

\* The frames sent so far, one after the other.
UnitAt(n) == <<((n - 1) \div Size) + 1, ((n - 1) % Size) + 1>>
AllFrames == [n \in 1 .. sent * Size |-> UnitAt(n)]

\* Frames go out whole and in order: what the socket took and what waits are
\* the frames sent so far, never one inside another; a connection that is closed
\* has stopped somewhere in them.  What waits is bounded, and the loop is asked
\* to say when it can go out ("Preserve wire order", "Enforce the backpressure
\* cap", lost_watch).
StreamIsWhole ==
    /\ ~ws.closed => wire \o ws.pending = AllFrames
    /\ IsPrefix(wire, AllFrames)
    /\ Len(ws.pending) <= MaxPending
    /\ ~ws.closed /\ ws.pending # <<>> => ws.watched /\ ws.out

\* A peer that is gone is noticed in time, and one that sends or takes anything
\* is not closed for its silence (WsKeepAlive: "So does a backpressure tail that
\* keeps draining").
GoneIsNoticed ==
    /\ ~ws.closed => quiet <= PingAfter + CloseAfter
    /\ ended = "silence" => quiet >= CloseAfter
=============================================================================

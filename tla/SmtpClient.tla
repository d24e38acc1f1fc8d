----------------------------- MODULE SmtpClient -----------------------------
(***************************************************************************)
(* The SMTP client (smtp_client.cpp): one session sends every queued       *)
(* message, a command at a time, each on the reply to the one before.      *)
(***************************************************************************)
EXTENDS Naturals, Sequences, TcpClient

CONSTANTS
    Msg,          \* messages
    Rcpts,        \* recipients of each message, at least one
    Implicit,     \* port 465: TLS from the start; else STARTTLS
    Login,        \* a user name is configured
    MaxSessions   \* bound on the calls of send_mail()

VARIABLES
    smtp,         \* the client
    accepted,     \* how often the server has accepted each message
    done, failed, \* how often on_done and on_error were called for each message
    added,        \* messages added so far
    sessions      \* calls of send_mail() that connected

smVars == <<smtp, accepted, done, failed, added, sessions>>

(***************************************************************************)
(*   st    state_            queue  messages_, by name                     *)
(*   cur   current_msg_, counted from 1       rcpt   current_rcpt_         *)
(*   act   active_           buf    reply_buf_: nothing, the start of a    *)
(*                           line, or bytes no reply can be read behind    *)
(***************************************************************************)
States == {"Idle", "Connecting", "WaitGreeting", "SentEhlo", "SentStartTls",
           "TlsHandshake", "SentEhloAfterTls", "SentAuthLogin", "SentUsername",
           "SentPassword", "SentMailFrom", "SentRcptTo", "SentData", "SentContent",
           "SentQuit", "Done", "Error"}

SmtpTypeOK ==
    /\ smtp.st \in States
    /\ smtp.queue \in Seq(Msg)
    /\ smtp.cur \in 1 .. Len(smtp.queue) + 1
    /\ smtp.rcpt \in 0 .. Rcpts
    /\ smtp.act \in BOOLEAN /\ smtp.buf \in {"empty", "part", "stale"} /\ smtp.tcp \in TcpRecords
    /\ \A m \in Msg : {accepted[m], done[m], failed[m]} \subseteq 0 .. MaxSessions
    /\ added \subseteq Msg
    /\ sessions \in 0 .. MaxSessions

Current(s) == s.queue[s.cur]

----------------------------------------------------------------------------
\* enter_error(): the message in hand is told, no other, and the queue stays.
EnterError(s) ==
    /\ smtp' = IF s.st = "Error" THEN s
               ELSE [s EXCEPT !.st = "Error", !.act = FALSE,
                              !.tcp = TcpHeard(TcpClose(s.tcp))]
    /\ failed' = IF s.st # "Error" /\ s.cur <= Len(s.queue)
                 THEN [failed EXCEPT ![Current(s)] = @ + 1] ELSE failed

\* The client after a method of tcp_: on_connect is the greeting's, or, once
\* STARTTLS was answered, a second EHLO.  on_close after Done or Error is silent.
After(s, t) ==
    LET u == [s EXCEPT !.tcp = TcpHeard(t)]
    IN  CASE t.ev = "none" -> smtp' = u /\ UNCHANGED failed
          [] t.ev = "connect" /\ s.st = "TlsHandshake" ->
                /\ smtp' = [u EXCEPT !.st = "SentEhloAfterTls", !.tcp = TcpSend(@)]
                /\ UNCHANGED failed
          [] t.ev = "connect" /\ s.st # "TlsHandshake" ->
                smtp' = [u EXCEPT !.st = "WaitGreeting"] /\ UNCHANGED failed
          [] t.ev = "close" /\ s.st \in {"Done", "Error"} -> smtp' = u /\ UNCHANGED failed
          [] OTHER -> EnterError(u)

Command(s, st) == [s EXCEPT !.st = st, !.tcp = TcpSend(@)]

\* send_next_message()
NextMessage(s) == Command(s, IF s.cur > Len(s.queue) THEN "SentQuit" ELSE "SentMailFrom")

\* advance() on the reply that is expected, but for the end of a message, of the
\* session, and STARTTLS.
Step(s) ==
    CASE s.st = "WaitGreeting"  -> Command(s, "SentEhlo")
      [] s.st = "SentEhlo" /\ ~Implicit -> Command(s, "SentStartTls")
      [] s.st \in {"SentEhlo", "SentEhloAfterTls"} /\ (Implicit \/ s.st # "SentEhlo") ->
            IF Login THEN Command(s, "SentAuthLogin") ELSE NextMessage(s)
      [] s.st = "SentAuthLogin" -> Command(s, "SentUsername")
      [] s.st = "SentUsername"  -> Command(s, "SentPassword")
      [] s.st = "SentPassword"  -> NextMessage(s)
      [] s.st = "SentMailFrom"  -> Command([s EXCEPT !.rcpt = 0], "SentRcptTo")
      [] s.st = "SentRcptTo"    ->
            Command([s EXCEPT !.rcpt = @ + 1],
                    IF s.rcpt + 1 < Rcpts THEN "SentRcptTo" ELSE "SentData")
      [] s.st = "SentData"      -> Command(s, "SentContent")

----------------------------------------------------------------------------
\* add_message(), before a session or while one is going on.
Add(m) ==
    /\ m \notin added
    /\ added' = added \cup {m}
    /\ smtp' = [smtp EXCEPT !.queue = Append(@, m)]
    /\ UNCHANGED <<accepted, done, failed, sessions>>

\* send_mail(): the first message again, whatever became of it before, and
\* whatever the last session left in the buffer.
SendMail(how) ==
    LET t == [smtp.tcp EXCEPT !.tls = @ \/ Implicit, !.ct = TRUE]
        s == [smtp EXCEPT !.act = TRUE, !.cur = 1, !.rcpt = 0, !.st = "Connecting",
                          !.buf = IF @ = "part" THEN "stale" ELSE @]
    IN  /\ ~smtp.act /\ smtp.queue # <<>>
        /\ sessions < MaxSessions /\ sessions' = sessions + 1
        /\ After(s, TcpConnect(t, how))
        /\ UNCHANGED <<accepted, done, added>>

\* A server that expects plain text first does not answer a TLS handshake with one.
News(e) ==
    /\ TcpCan(smtp.tcp, e)
    /\ e = "secured" => Implicit \/ smtp.st = "TlsHandshake"
    /\ After(smtp, TcpOn(smtp.tcp, e))
    /\ UNCHANGED <<accepted, done, added, sessions>>

Reading ==
    /\ Awake(smtp.tcp) /\ smtp.tcp.st = "Connected"
    /\ smtp.st \notin {"Idle", "Connecting", "Done", "Error"}

\* Part of a reply line.
Partial ==
    /\ Reading /\ smtp.buf = "empty"
    /\ smtp' = [smtp EXCEPT !.buf = "part"]
    /\ UNCHANGED <<accepted, done, failed, added, sessions>>

\* A reply that refuses is taken off the buffer; a line that is no reply stays in
\* it.
Refusal(valid) ==
    /\ Reading
    /\ valid => smtp.buf # "stale" /\ smtp.st # "SentQuit"
    /\ EnterError([smtp EXCEPT !.buf = IF valid THEN "empty" ELSE "stale"])
    /\ UNCHANGED <<accepted, done, added, sessions>>

\* The reply that is expected.
Reply == Reading /\ smtp.buf # "stale"

Expected ==
    /\ Reply
    /\ smtp.st \notin {"SentContent", "SentQuit", "SentStartTls", "TlsHandshake"}
    /\ smtp' = Step([smtp EXCEPT !.buf = "empty"])
    /\ UNCHANGED <<accepted, done, failed, added, sessions>>

TlsReady ==
    /\ Reply /\ smtp.st = "SentStartTls"
    /\ After([smtp EXCEPT !.buf = "empty", !.st = "TlsHandshake"], StartTls(smtp.tcp))
    /\ UNCHANGED <<accepted, done, added, sessions>>

\* The server accepts a message; its reply may not arrive.
Accept(arrives) ==
    /\ Reply /\ smtp.st = "SentContent"
    /\ accepted' = [accepted EXCEPT ![Current(smtp)] = @ + 1]
    /\ IF arrives
       THEN /\ done' = [done EXCEPT ![Current(smtp)] = @ + 1]
            /\ smtp' = NextMessage([smtp EXCEPT !.buf = "empty", !.cur = @ + 1])
            /\ UNCHANGED failed
       ELSE After(smtp, TcpOn(smtp.tcp, "eof")) /\ UNCHANGED done
    /\ UNCHANGED <<added, sessions>>

\* Any reply to QUIT ends the session and empties the queue.
Bye ==
    /\ Reply /\ smtp.st = "SentQuit"
    /\ smtp' = [smtp EXCEPT !.st = "Done", !.act = FALSE, !.buf = "empty",
                            !.queue = <<>>, !.cur = 1, !.tcp = TcpHeard(TcpClose(@))]
    /\ UNCHANGED <<accepted, done, failed, added, sessions>>

----------------------------------------------------------------------------
SmtpInit ==
    /\ smtp = [st |-> "Idle", queue |-> <<>>, cur |-> 1, rcpt |-> 0, act |-> FALSE,
               buf |-> "empty", tcp |-> TcpFresh(FALSE, FALSE, FALSE)]
    /\ accepted = [m \in Msg |-> 0]
    /\ done = [m \in Msg |-> 0]
    /\ failed = [m \in Msg |-> 0]
    /\ added = {}
    /\ sessions = 0

SmtpNext ==
    \/ \E m \in Msg : Add(m)
    \/ \E how \in Hows : SendMail(how)
    \/ \E e \in TcpEvents : News(e)
    \/ \E valid \in BOOLEAN : Refusal(valid)
    \/ Partial \/ Expected \/ TlsReady
    \/ \E arrives \in BOOLEAN : Accept(arrives)
    \/ Bye

SmtpSpec == SmtpInit /\ [][SmtpNext]_smVars

----------------------------------------------------------------------------
(* Properties.                                                             *)

\* on_done means accepted, and a session says QUIT, or ends well, only after the
\* server has accepted every message before the one in hand, the one in hand not
\* before its turn (advance, send_next_message).
DoneMeansAccepted ==
    /\ \A m \in Msg : done[m] <= accepted[m]
    /\ smtp.act => \A i \in 1 .. smtp.cur - 1 : done[smtp.queue[i]] > 0
    /\ smtp.st \in {"SentMailFrom", "SentRcptTo", "SentData", "SentContent"} =>
           smtp.cur <= Len(smtp.queue)

\* A message whose on_done was called is not sent again.
SentOnce == [][\A m \in Msg : done[m] > 0 => accepted'[m] = accepted[m]]_smVars
=============================================================================

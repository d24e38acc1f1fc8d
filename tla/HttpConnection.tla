--------------------------- MODULE HttpConnection ---------------------------
(***************************************************************************)
(* HttpConnection (src/net/http.cpp): one connection of the HTTP server,   *)
(* with its client, the socket, the epoll loop and the modules that answer.*)
(*                                                                         *)
(* The client's requests are numbered.  Each is two pieces of input, so    *)
(* that one may have arrived in part; what was sent, read and parsed are   *)
(* counts of pieces.  An answer is one part of output, or, for a file, a   *)
(* head and a body.  `out` has the parts in the order they are put out; the *)
(* first `gone` are out whole, the others in write_buf_.                   *)
(*                                                                         *)
(* `at` is where the thread stands: in the loop; with an event for this    *)
(* connection collected by epoll_wait() and other callbacks still before   *)
(* it ("batch"); in on_event() past its writing ("event"); or in           *)
(* on_readable() ("feed"), where dispatching_ is set.                      *)
(***************************************************************************)
EXTENDS Naturals, Sequences

CONSTANTS
    MaxRequests, \* bound: requests of the client
    HighWater,   \* kWriteHighWater, in units of output
    LowWater,    \* kWriteLowWater
    MaxTail      \* bound: units of an answer that the socket did not take

ASSUME ConstantsAssumption ==
    /\ MaxRequests \in Nat /\ HighWater \in Nat /\ LowWater \in Nat
    /\ MaxTail \in Nat \ {0} /\ LowWater < HighWater

VARIABLES
    kind,        \* of each request
    sent,        \* pieces the client has sent
    peer,        \* "open"; "half" closed by the client; "reset", then "dead"
    got,         \* pieces read from the socket
    parsed,      \* pieces the parser has taken; those between are pending_in_,
                 \* dropped once stop_reading_ is set
    at,
    events,      \* of the event collected: "IN" (anything to read or to learn), "OUT"
    awaiting,    \* awaiting_
    deferred,    \* the request a module has yet to answer, or 0
    file,        \* the request whose file is going out (file_fd_ >= 0), or 0
    out,         \* the parts put out, those in write_buf_ included
    gone,        \* how many of them are out whole
    tail,        \* buffered_bytes()
    closeAfter,  \* close_after_send_
    stopReading, \* stop_reading_
    throttled,   \* throttled_
    draining,    \* draining_
    closed,      \* closed_
    mask,        \* mask_
    watched      \* the loop has the socket

client == <<kind, sent, peer>>
input == <<got, parsed>>
output == <<out, gone, tail>>
flags == <<closeAfter, stopReading, draining>>
vars == <<client, input, output, flags, at, events, awaiting, deferred, file,
          throttled, closed, mask, watched>>

Request == 1..MaxRequests
Kinds == {"plain", "close", "websocket", "bad"}
Part == [req: Request, what: {"answer", "head", "body", "short"}, close: BOOLEAN]

Init ==
    /\ kind \in [Request -> Kinds]
    /\ sent = 0 /\ peer = "open"
    /\ got = 0 /\ parsed = 0
    /\ at = "loop" /\ events = {}
    /\ awaiting = FALSE /\ deferred = 0 /\ file = 0
    /\ out = <<>> /\ gone = 0 /\ tail = 0
    /\ closeAfter = FALSE /\ stopReading = FALSE /\ throttled = FALSE
    /\ draining = FALSE /\ closed = FALSE
    /\ mask = {"IN", "RDHUP"} /\ watched = TRUE

-----------------------------------------------------------------------------
(* What the handlers are made of.                                          *)

\* Mutant: a file going out is not an answer owed.
OwedNoFile == awaiting

\* owed()
Owed == awaiting \/ file # 0

\* has_pending_writes()
Pending == gone < Len(out) \/ file # 0

Stopped == Owed \/ stopReading \/ throttled

\* Mutant: held bytes are not woken for.
ResumableNot == FALSE

\* resumable(), of a connection not closed.
Resumable == ~Stopped /\ parsed < got

\* The events update_interest() asks for.
Wanted ==
    {ev \in {"IN", "RDHUP", "OUT"} :
        \/ ev = "IN" /\ ~Stopped
        \/ ev = "RDHUP" /\ (Owed \/ ~stopReading)
        \/ ev = "OUT" /\ (Pending \/ Resumable)}

\* closed_ is set and the socket leaves the loop, here or by on_event()'s caller.
Closes == closed' = TRUE /\ watched' = FALSE

Stays == UNCHANGED <<closed, watched>>

\* Writing to a connection the peer has reset fails (EPIPE, ECONNRESET).
Broken == peer \in {"reset", "dead"}

\* What the socket does not take goes to write_buf_, and may be too much.
Buffers(part) ==
    /\ out' = Append(out, part)
    /\ tail' \in tail + 1..tail + MaxTail
    /\ throttled' = (throttled \/ tail' > HighWater)
    /\ UNCHANGED gone

\* Nothing is before the part, and the socket takes it.
GoesOut(part) ==
    /\ ~Pending /\ ~Broken
    /\ out' = Append(out, part) /\ gone' = gone + 1
    /\ UNCHANGED <<tail, throttled>>

\* send_response(), the writing: behind what is buffered, or out, or in part.
Writes(part) ==
    \/ (Pending \/ ~Broken) /\ Buffers(part)
    \/ GoesOut(part)

WriteFails == ~Pending /\ Broken /\ Closes /\ UNCHANGED <<output, throttled>>

BodyOf(r, what) == [req |-> r, what |-> what, close |-> FALSE]

\* drain_file(): out whole, or ended before its length, after all before it.
FileEnds(r, before) ==
    \E what \in {"body", "short"} :
        /\ out' = Append(before, BodyOf(r, what))
        /\ gone' = Len(out')
        /\ file' = 0

\* send_file() of a file that opens; what is left of it waits for EPOLLOUT.
Streams(r, close) ==
    LET head == [req |-> r, what |-> "head", close |-> close]
    IN  \/ Writes(head) /\ file' = r
        \/ /\ ~Pending /\ ~Broken
           /\ FileEnds(r, Append(out, head))
           /\ UNCHANGED <<tail, throttled>>

\* Mutant: the last answer is out, and nobody closes.
AfterResponseStays == mask' = Wanted' /\ Stays /\ UNCHANGED closeAfter

\* after_response(), outside a dispatch: shutdown_and_drain() and close, or
\* update_interest().
AfterResponse ==
    \/ /\ closeAfter /\ ~Owed' /\ ~Pending'
       /\ closeAfter' = FALSE /\ Closes /\ UNCHANGED mask
    \/ /\ ~(closeAfter /\ ~Owed' /\ ~Pending')
       /\ mask' = Wanted' /\ Stays /\ UNCHANGED closeAfter

-----------------------------------------------------------------------------
(* The client and the network.                                             *)

ClientSends ==
    /\ peer = "open" /\ sent < 2 * MaxRequests
    /\ sent' = sent + 1
    /\ UNCHANGED <<kind, peer, input, output, flags, at, events, awaiting, deferred, file,
                   throttled, closed, mask, watched>>

\* It ends its side, or is gone.
ClientLeaves ==
    /\ \/ peer = "open" /\ peer' = "half"
       \/ peer \in {"open", "half"} /\ peer' = "reset"
    /\ UNCHANGED <<kind, sent, input, output, flags, at, events, awaiting, deferred, file,
                   throttled, closed, mask, watched>>

-----------------------------------------------------------------------------
(* on_event()                                                              *)

\* EPOLLHUP and EPOLLERR come whatever the mask.
Readable ==
    \/ "IN" \in mask /\ (got < sent \/ peer # "open")
    \/ "RDHUP" \in mask /\ peer # "open"
    \/ Broken

\* epoll_wait() finds the socket ready; room in it is the client's doing.
Collect(evs) ==
    /\ at = "loop" /\ watched
    /\ ("IN" \in evs) = Readable
    /\ "OUT" \in evs => "OUT" \in mask
    /\ evs # {}
    /\ at' = "batch" /\ events' = evs
    /\ UNCHANGED <<client, input, output, flags, awaiting, deferred, file, throttled, closed,
                   mask, watched>>

\* The event of a socket taken out of the loop meanwhile is dropped.
Discard ==
    /\ at = "batch" /\ ~watched
    /\ at' = "loop" /\ events' = {}
    /\ UNCHANGED <<client, input, output, flags, awaiting, deferred, file, throttled, closed,
                   mask, watched>>

\* on_writable(): all out, and the file behind it if there is one.
Drained ==
    /\ ~Broken \/ ~Pending
    /\ \/ file = 0 /\ gone' = Len(out) /\ UNCHANGED <<out, file>>
       \/ file # 0 /\ FileEnds(file, out)
    /\ tail' = 0 /\ throttled' = FALSE
    /\ AfterResponse

\* on_writable() up to an EAGAIN, in the buffer or in the file.
DrainedInPart ==
    /\ ~Broken
    /\ \/ gone < Len(out) /\ gone' \in gone..Len(out) - 1 /\ tail' \in 1..tail - 1
       \/ file # 0 /\ gone' = Len(out) /\ tail' = 0
    /\ throttled' = (throttled /\ tail' > LowWater)
    /\ UNCHANGED <<out, file, closeAfter, closed, mask, watched>>

\* The socket fails, and with it what was not out.
DrainFails ==
    /\ Broken /\ Pending
    /\ out' = SubSeq(out, 1, gone) /\ UNCHANGED gone
    /\ tail' = 0 /\ file' = 0 /\ throttled' = FALSE
    /\ Closes
    /\ UNCHANGED <<closeAfter, mask>>

Delivers(outcome) ==
    /\ at = "batch" /\ watched
    /\ at' = "event" /\ events' = events \ {"OUT"}
    /\ UNCHANGED <<client, input, stopReading, draining, awaiting, deferred>>
    /\ outcome

DeliversAll == "OUT" \in events /\ Delivers(Drained)

DeliversPart == "OUT" \in events /\ (Delivers(DrainedInPart) \/ Delivers(DrainFails))

DeliversNothing ==
    /\ "OUT" \notin events
    /\ Delivers(UNCHANGED <<output, file, throttled, closeAfter, closed, mask, watched>>)

\* Past the writing: on_readable(), which closes when it was not to be called
\* for anything but a peer that leaves.
Serve ==
    /\ at = "event"
    /\ events' = {}
    /\ \/ closed /\ at' = "loop" /\ watched' = FALSE /\ UNCHANGED closed
       \/ ~closed /\ events = {} /\ ~Resumable /\ at' = "loop" /\ Stays
       \/ ~closed /\ (events # {} \/ Resumable) /\ Stopped /\ at' = "loop" /\ Closes
       \/ ~closed /\ (events # {} \/ Resumable) /\ ~Stopped /\ at' = "feed" /\ Stays
    /\ UNCHANGED <<client, input, output, flags, awaiting, deferred, file, throttled, mask>>

-----------------------------------------------------------------------------
(* on_readable(): parsing and dispatch                                     *)

Feeding == at = "feed" /\ ~closed /\ ~Stopped

\* The request whose last piece comes next.
Coming == (parsed + 1) \div 2

\* The first piece of a request.
ParseHead ==
    /\ Feeding /\ parsed < got /\ parsed % 2 = 0
    /\ parsed' = parsed + 1
    /\ UNCHANGED <<client, got, output, flags, at, events, awaiting, deferred, file, throttled,
                   closed, mask, watched>>

Dispatching(r) == Feeding /\ parsed < got /\ parsed % 2 = 1 /\ r = Coming /\ kind[r] # "bad"

Answer(r, close) == [req |-> r, what |-> "answer", close |-> close]

\* What the answer says if it is sent through the connection inside the dispatch.
Announced(r) == closeAfter \/ draining \/ kind[r] = "close"

\* A handshake refused, a request that asks for it, a process that stops.
Ending(r) == draining \/ kind[r] \in {"close", "websocket"}

\* Mutant: what follows the last request is parsed.
EndsReadingOn(r) ==
    /\ closeAfter' = (closeAfter \/ Ending(r))
    /\ UNCHANGED stopReading

\* The end of the dispatch: nothing after the last request is processed.
Ends(r) ==
    /\ closeAfter' = (closeAfter \/ Ending(r))
    /\ stopReading' = (stopReading \/ Ending(r))

\* The handler fills in the response.
HandlerAnswers(r) ==
    /\ \/ Writes(Answer(r, Announced(r) \/ Ending(r))) /\ Stays
       \/ WriteFails
    /\ UNCHANGED <<awaiting, deferred, file>>

\* It defers, and sends the answer itself before it returns.
HandlerSends(r) ==
    /\ \/ Writes(Answer(r, Announced(r))) /\ Stays /\ UNCHANGED file
       \/ Streams(r, Announced(r)) /\ Stays
       \/ WriteFails /\ UNCHANGED file
    /\ UNCHANGED <<awaiting, deferred>>

\* Mutant: a deferred answer holds nothing up.
HandlerDefersFreely(r) ==
    /\ deferred' = r
    /\ UNCHANGED <<awaiting, file, output, throttled, closed, watched>>

\* It defers.
HandlerDefers(r) ==
    /\ awaiting' = TRUE /\ deferred' = r
    /\ UNCHANGED <<file, output, throttled, closed, watched>>

\* It takes the socket for a WebSocket, or throws.
HandlerTakes(r) ==
    /\ Closes
    /\ UNCHANGED <<awaiting, deferred, file, output, throttled>>

Dispatch(r) ==
    /\ Dispatching(r)
    /\ parsed' = parsed + 1
    /\ HandlerAnswers(r) \/ HandlerSends(r) \/ HandlerDefers(r) \/ HandlerTakes(r)
    /\ Ends(r)
    /\ UNCHANGED <<client, got, at, events, draining, mask>>

\* A request that cannot be parsed: 400, and the connection ends.
BadRequest(r) ==
    /\ Feeding /\ parsed < got /\ parsed % 2 = 1 /\ r = Coming /\ kind[r] = "bad"
    /\ parsed' = parsed + 1
    /\ \/ Writes(Answer(r, TRUE)) /\ Stays /\ closeAfter' = TRUE /\ stopReading' = TRUE
       \/ WriteFails /\ UNCHANGED <<closeAfter, stopReading>>
    /\ UNCHANGED <<client, got, at, events, draining, awaiting, deferred, file, mask>>

\* Mutant: the -1 of recv() is taken for a length.
ReadsError ==
    /\ Feeding /\ parsed = got /\ got < sent
    /\ got' = got - 1
    /\ UNCHANGED <<client, parsed, output, flags, at, events, awaiting, deferred, file,
                   throttled, closed, mask, watched>>

Reads ==
    /\ Feeding /\ parsed = got /\ got < sent
    /\ got' \in got + 1..sent
    /\ UNCHANGED <<client, parsed, output, flags, at, events, awaiting, deferred, file,
                   throttled, closed, mask, watched>>

ReadsEof ==
    /\ Feeding /\ parsed = got /\ got = sent /\ peer \in {"half", "dead"}
    /\ at' = "loop" /\ Closes
    /\ UNCHANGED <<client, input, output, flags, events, awaiting, deferred, file, throttled, mask>>

\* recv() fails once after a reset, which reads as EAGAIN here.
ReadsNothing == Feeding /\ parsed = got /\ got = sent /\ peer \in {"open", "reset"}

\* The end of on_readable(), of a connection still open.
SettleOpen ==
    \/ closeAfter /\ ~Owed /\ ~Pending /\ Closes /\ UNCHANGED <<mask, closeAfter>>
    \/ ~(closeAfter /\ ~Owed /\ ~Pending) /\ mask' = Wanted /\ Stays /\ UNCHANGED closeAfter

Settle ==
    /\ at = "feed"
    /\ at' = "loop"
    /\ \/ closed /\ watched' = FALSE /\ UNCHANGED <<mask, closeAfter, closed, peer>>
       \/ ~closed /\ Stopped /\ SettleOpen /\ UNCHANGED peer
       \/ /\ ReadsNothing
          /\ peer' = IF peer = "reset" THEN "dead" ELSE peer
          /\ SettleOpen
    /\ UNCHANGED <<kind, sent, input, output, stopReading, draining, events, awaiting, deferred,
                   file, throttled>>

-----------------------------------------------------------------------------
(* Calls from other callbacks of the loop.                                 *)

Outside == at \in {"loop", "batch"}

LateAnnounced == draining \/ closeAfter

\* A module answers the request it deferred; on a closed connection it goes nowhere.
LateAnswer ==
    /\ Outside /\ deferred # 0
    /\ deferred' = 0
    /\ UNCHANGED <<client, input, stopReading, draining, at, events>>
    /\ \/ closed /\ UNCHANGED <<awaiting, output, file, throttled, closeAfter, mask, closed, watched>>
       \/ /\ ~closed
          /\ awaiting' = FALSE
          /\ \/ Writes(Answer(deferred, LateAnnounced)) /\ UNCHANGED file /\ AfterResponse
             \/ Streams(deferred, LateAnnounced) /\ AfterResponse
             \/ WriteFails /\ UNCHANGED <<file, closeAfter, mask>>

\* Held, in the parser in part, or in the socket.
OnItsWay == parsed < got \/ parsed % 2 = 1 \/ got < sent

\* stop_keep_alive(), once, as the process stops.
StopKeepAlive ==
    /\ Outside /\ ~draining /\ ~closed
    /\ draining' = TRUE
    /\ \/ /\ Owed \/ Pending
          /\ closeAfter' = TRUE /\ stopReading' = TRUE
          /\ Stays
       \/ /\ ~Owed /\ ~Pending /\ OnItsWay
          /\ UNCHANGED <<closeAfter, stopReading>> /\ Stays
       \/ /\ ~Owed /\ ~Pending /\ ~OnItsWay
          /\ Closes /\ UNCHANGED <<closeAfter, stopReading>>
    /\ UNCHANGED <<client, input, output, at, events, awaiting, deferred, file, throttled, mask>>

Next ==
    \/ ClientSends \/ ClientLeaves
    \/ \E evs \in SUBSET {"IN", "OUT"} : Collect(evs)
    \/ Discard \/ DeliversAll \/ DeliversPart \/ DeliversNothing \/ Serve
    \/ ParseHead \/ Reads \/ ReadsEof \/ Settle
    \/ \E r \in Request : Dispatch(r) \/ BadRequest(r)
    \/ LateAnswer \/ StopKeepAlive

Spec == Init /\ [][Next]_vars

Thread ==
    \/ Discard \/ DeliversNothing \/ Serve \/ ParseHead \/ Reads \/ ReadsEof \/ Settle
    \/ \E r \in Request : Dispatch(r) \/ BadRequest(r)

FinishesRequest == sent % 2 = 1 /\ ClientSends

CollectsRoom == \E evs \in SUBSET {"IN", "OUT"} : "OUT" \in evs /\ Collect(evs)

CollectsInput == \E evs \in SUBSET {"IN", "OUT"} : "IN" \in evs /\ Collect(evs)

\* The loop serves what is ready, a client reads what it is sent and finishes
\* what it began, and modules answer.
FairSpec ==
    /\ Spec
    /\ WF_vars(Thread) /\ WF_vars(DeliversPart) /\ SF_vars(DeliversAll)
    /\ SF_vars(CollectsRoom) /\ SF_vars(CollectsInput)
    /\ WF_vars(FinishesRequest) /\ SF_vars(LateAnswer)

-----------------------------------------------------------------------------
(* Properties.                                                             *)

\* The variables have the values the code can give them.
TypeOK ==
    /\ kind \in [Request -> Kinds] /\ sent \in 0..2 * MaxRequests
    /\ peer \in {"open", "half", "reset", "dead"}
    /\ got \in 0..sent /\ parsed \in 0..got
    /\ at \in {"loop", "batch", "event", "feed"} /\ events \subseteq {"IN", "OUT"}
    /\ awaiting \in BOOLEAN /\ deferred \in 0..MaxRequests /\ file \in 0..MaxRequests
    /\ out \in Seq(Part) /\ gone \in 0..Len(out) /\ tail \in Nat
    /\ closeAfter \in BOOLEAN /\ stopReading \in BOOLEAN /\ throttled \in BOOLEAN
    /\ draining \in BOOLEAN /\ closed \in BOOLEAN /\ watched \in BOOLEAN
    /\ mask \subseteq {"IN", "RDHUP", "OUT"}

\* What is put out, and what follows from a file.
Stream == IF file = 0 THEN out ELSE Append(out, BodyOf(file, "body"))

IsHead(part) == part.what \in {"answer", "head"}

\* The requests whose answers have begun.
Begun == parsed \div 2 - (IF deferred = 0 THEN 0 ELSE 1)

\* T314 (http.hpp:429): the answers go out in the order of the requests, one for
\* each, and none is missing but the one a module owes.
AnswersInOrder ==
    /\ \A i \in 1..Len(Stream) :
        IsHead(Stream[i]) => Stream[i].req = IF i = 1 THEN 1 ELSE Stream[i - 1].req + 1
    /\ ~closed => Begun = IF Stream = <<>> THEN 0 ELSE Stream[Len(Stream)].req

\* Nothing gets between the head of a file and its body, wherever each waits
\* (write_buf_, file_fd_), and no head is left without.
FilesFollowHeads ==
    \A i \in 1..Len(Stream) :
        /\ ~IsHead(Stream[i]) =>
               i > 1 /\ Stream[i - 1].what = "head" /\ Stream[i - 1].req = Stream[i].req
        /\ Stream[i].what = "head" /\ ~closed => i < Len(Stream) /\ ~IsHead(Stream[i + 1])

\* RFC 9112 §9.6 (http.cpp:877): nothing follows an answer that says "close".
NothingAfterClose ==
    \A i, j \in 1..Len(Stream) : i < j /\ IsHead(Stream[j]) => ~Stream[i].close

\* http.cpp:848: the answer to a request that closes the connection says so, now,
\* later or as a file — but not the refusal of a handshake that its handler sends
\* itself, nor an answer already going out when the process stops.
EndAnnounced ==
    stopReading /\ Begun = parsed \div 2 /\ ~closed /\ ~draining =>
        kind[Begun] = "websocket" \/ \E i \in 1..Len(Stream) : Stream[i].close

\* Between events the loop has a connection that is open, and of no other, and
\* is asked for whatever there is to be done: nobody waits for an event that
\* does not come.
NeverDeaf ==
    at = "loop" =>
        /\ watched = ~closed
        /\ ~closed => /\ Pending \/ Resumable => "OUT" \in mask
                      /\ ~Stopped => mask \cap {"IN", "OUT"} # {}
                      /\ ~stopReading => "RDHUP" \in mask

\* http.hpp:345: what a client that does not read costs is bounded.
TailBounded == tail <= HighWater + MaxTail

\* A client that pipelines is not taken for one that left: an event closes the
\* connection with an answer owed or going out only if the peer has closed its
\* side, or if the process stops.
OnlyLeaversDropped ==
    [][at = "event" /\ ~closed /\ closed' => peer # "open" \/ draining]_vars

\* http.hpp:410: the answer in work as the process stops is the last one, and
\* then the connection closes: it is not closed before, unless the peer left.
LastAnswerDelivered ==
    [][at = "event" /\ draining /\ ~closed /\ closed' => peer # "open"]_vars

\* Whether the whole answer to r is out.
Whole(r) == \E i \in 1..gone : out[i].req = r /\ out[i].what # "head"

\* Every request that was sent whole is answered whole, unless the connection
\* closes.
Answered == \A r \in Request : sent >= 2 * r ~> Whole(r) \/ closed

\* README:484: as the process stops, every connection closes.
StopEnds == draining ~> closed

=============================================================================

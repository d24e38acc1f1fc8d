----------------------------- MODULE EventLoop -----------------------------
(***************************************************************************)
(* The event loop (event_loop.cpp): epoll reports descriptor numbers, in   *)
(* batches, and a handler run for one event of a batch may close numbers   *)
(* and register others under them before the events behind it are          *)
(* dispatched.                                                             *)
(*                                                                         *)
(* A number names at different times different descriptors; each gets an   *)
(* identity of its own, which the code cannot see and the properties are   *)
(* about.  Both builds are modelled: level-triggered, and edge-triggered   *)
(* with one shot (APOSTOL_EPOLL_ET), where a reported socket is off until  *)
(* it is armed again.                                                      *)
(***************************************************************************)
EXTENDS Naturals, Sequences, SequencesExt, FiniteSets

CONSTANTS
    Nums,       \* descriptor numbers, from 1
    MaxRegs,    \* bound on registrations
    MaxStops    \* bound on what stops the loop: signals and calls of stop()

\* 0 is signal_fd_ here; two sockets are registered before the loop runs.
ASSUME LoopConstants ==
    /\ Nums \in SUBSET (Nat \ {0}) /\ IsFiniteSet(Nums)
    /\ MaxRegs \in Nat /\ MaxRegs >= 2 /\ MaxStops \in Nat

VARIABLES
    kernel,     \* what each number names, and what epoll knows of it
    handlers,   \* io_handlers_ and timers_, by number
    seq,        \* registration_seq_
    batch,      \* the events of poll_once() not yet dispatched
    at,         \* collected_at of this batch
    call,       \* the callback that runs
    running,    \* running_
    signal,     \* whether signals wait in signal_fd_, and the stops so far
    et          \* APOSTOL_EPOLL_ET

elVars == <<kernel, handlers, seq, batch, at, call, running, signal, et>>

Kinds == {"socket", "once", "every"}
SignalFd == 0

(***************************************************************************)
(*   id     who the number names; 0 is nobody                              *)
(*   input  input or an expiry waits             shut   SHUT_RD            *)
(*   armed  epoll reports it; FALSE once taken off, or closed (T607)       *)
(***************************************************************************)
Closed == [id |-> 0, kind |-> "socket", input |-> FALSE, shut |-> FALSE, known |-> FALSE,
           armed |-> FALSE]

\* An entry of io_handlers_ or timers_: whose it is, when it was made, and
\* whether the handler threw.  reg = 0 is no entry.
NoEntry == [id |-> 0, reg |-> 0, kind |-> "socket", faulted |-> FALSE]
NoCall == [num |-> 0, raised |-> 0, entry |-> NoEntry]

Entries == [id : 0 .. MaxRegs, reg : 0 .. MaxRegs, kind : Kinds, faulted : BOOLEAN]

LoopTypeOK ==
    /\ kernel \in [Nums -> [id : 0 .. MaxRegs, kind : Kinds, input : BOOLEAN,
                            shut : BOOLEAN, known : BOOLEAN, armed : BOOLEAN]]
    /\ handlers \in [Nums -> Entries]
    /\ seq \in 0 .. MaxRegs
    /\ batch \in Seq((Nums \cup {SignalFd}) \X (0 .. MaxRegs))
    /\ at \in 0 .. MaxRegs
    /\ call \in [num : Nums \cup {0}, raised : 0 .. MaxRegs, entry : Entries]
    /\ running \in BOOLEAN /\ et \in BOOLEAN
    /\ signal \in [waits : BOOLEAN, stops : 0 .. MaxStops]

InCall == call.num # 0
mine == call.num
\* The entry a handler was called from is still in the loop.
Holds == handlers[mine].reg = call.entry.reg

----------------------------------------------------------------------------
(* epoll_wait() and the batch.                                             *)

Reported == {n \in Nums : kernel[n].known /\ kernel[n].armed /\ kernel[n].input}

\* poll_once() collects what is ready, in any order, before any handler runs.
Poll ==
    LET ready == {<<n, kernel[n].id>> : n \in Reported}
                   \cup (IF signal.waits THEN {<<SignalFd, 0>>} ELSE {})
    IN  /\ running /\ ~InCall /\ batch = <<>> /\ ready # {}
        /\ batch' \in SetToSeqs(ready)
        /\ at' = seq
        /\ kernel' = [n \in Nums |->
                         IF et /\ n \in Reported /\ kernel[n].kind = "socket"
                         THEN [kernel[n] EXCEPT !.armed = FALSE] ELSE kernel[n]]
        /\ UNCHANGED <<handlers, seq, call, running, signal, et>>

Event == Head(batch)
Dispatching == running /\ ~InCall /\ batch # <<>> /\ batch' = Tail(batch)

\* dispatch_signals(): the handlers of the process stop the loop.
DispatchSignal ==
    /\ Dispatching /\ Event[1] = SignalFd
    /\ running' = (running /\ ~signal.waits)
    /\ signal' = [signal EXCEPT !.waits = FALSE]
    /\ UNCHANGED <<kernel, handlers, seq, at, call, et>>

\* Mutant: an event is dispatched by its number alone.
NewerNever(n) == FALSE

\* An event for an entry that is newer than the batch is not the entry's.
Newer(n) == handlers[n].reg > at

Skip ==
    /\ Dispatching /\ Event[1] # SignalFd
    /\ \/ handlers[Event[1]].reg = 0
       \/ Newer(Event[1])
       \/ handlers[Event[1]].kind # "socket" /\ ~kernel[Event[1]].input
    /\ UNCHANGED <<kernel, handlers, seq, at, call, running, signal, et>>

\* dispatch_io() and dispatch_timer() up to the callback: a timer's expiry is
\* read first, and there must be one.
Dispatch ==
    /\ Dispatching /\ Event[1] # SignalFd
    /\ LET n == Event[1] IN
        /\ handlers[n].reg # 0 /\ ~Newer(n)
        /\ handlers[n].kind # "socket" => kernel[n].input
        /\ call' = [num |-> n, raised |-> Event[2], entry |-> handlers[n]]
        /\ kernel' = IF handlers[n].kind = "socket" THEN kernel
                     ELSE [kernel EXCEPT ![n].input = FALSE]
    /\ UNCHANGED <<handlers, seq, at, running, signal, et>>

\* Mutant: what was taken off a batch and not dispatched stays disarmed.
AbandonDisarmed ==
    /\ ~running /\ ~InCall /\ batch # <<>>
    /\ batch' = <<>>
    /\ UNCHANGED <<kernel, handlers, seq, at, call, running, signal, et>>

\* Stopped in the middle of a batch: what was taken off is armed again.
Abandon ==
    /\ ~running /\ ~InCall /\ batch # <<>>
    /\ batch' = <<>>
    /\ kernel' = [n \in Nums |->
                     IF /\ et /\ \E i \in DOMAIN batch : batch[i][1] = n
                        /\ handlers[n].reg # 0 /\ handlers[n].kind = "socket"
                        /\ ~Newer(n) /\ kernel[n].known
                     THEN [kernel[n] EXCEPT !.armed = TRUE] ELSE kernel[n]]
    /\ handlers' = [n \in Nums |->
                       IF /\ et /\ \E i \in DOMAIN batch : batch[i][1] = n
                          /\ handlers[n].kind = "socket" /\ ~Newer(n) /\ ~kernel[n].known
                       THEN NoEntry ELSE handlers[n]]
    /\ UNCHANGED <<seq, at, call, running, signal, et>>

----------------------------------------------------------------------------
(* What a handler does while it runs.                                      *)

InHandler == InCall /\ UNCHANGED <<batch, at, call, et>>

\* The kernel gives the lowest number that is free.  One closed under its
\* holder is taken by something that is not on this loop, until the holder
\* lets go of it.
FreeNums == {n \in Nums : kernel[n].id = 0 /\ handlers[n].reg = 0}
Lowest == CHOOSE n \in FreeNums : \A m \in FreeNums : n <= m

\* add_io() on a new socket, or add_timer().
Register(kind) ==
    /\ InHandler /\ FreeNums # {} /\ seq < MaxRegs
    /\ seq' = seq + 1
    /\ kernel' = [kernel EXCEPT ![Lowest] =
                    [Closed EXCEPT !.id = seq + 1, !.kind = kind, !.known = TRUE, !.armed = TRUE]]
    /\ handlers' = [handlers EXCEPT ![Lowest] =
                      [id |-> seq + 1, reg |-> seq + 1, kind |-> kind, faulted |-> FALSE]]
    /\ UNCHANGED <<running, signal>>

\* remove_io() and close() of a socket, by its handler or another, or after the
\* loop took it off; cancel_timer().
LetGo(n) ==
    /\ InHandler /\ (handlers[n].reg # 0 \/ kernel[n].id # 0)
    /\ handlers' = [handlers EXCEPT ![n] = NoEntry]
    /\ kernel' = [kernel EXCEPT ![n] = Closed]
    /\ UNCHANGED <<seq, running, signal>>

\* remove_io() and add_io() of a socket that stays open, as curl does.
Again(n) ==
    /\ InHandler /\ handlers[n].reg # 0 /\ handlers[n].kind = "socket" /\ kernel[n].known
    /\ seq < MaxRegs /\ seq' = seq + 1
    /\ handlers' = [handlers EXCEPT ![n] = [@ EXCEPT !.reg = seq + 1, !.faulted = FALSE]]
    /\ kernel' = [kernel EXCEPT ![n].armed = TRUE]
    /\ UNCHANGED <<running, signal>>

\* The handler takes its input.
Drain ==
    /\ InHandler /\ Holds /\ call.entry.kind = "socket" /\ ~kernel[mine].shut
    /\ kernel' = [kernel EXCEPT ![mine].input = FALSE]
    /\ UNCHANGED <<handlers, seq, running, signal>>

\* A socket is closed, and the holder does not know (T607).
CloseUnder(n) ==
    /\ InHandler /\ handlers[n].reg # 0 /\ handlers[n].kind = "socket" /\ kernel[n].known
    /\ kernel' = [kernel EXCEPT ![n] = Closed]
    /\ UNCHANGED <<handlers, seq, running, signal>>

\* modify_io() finds the registration gone, and drops the handler.
Modify(n) ==
    /\ InHandler /\ handlers[n].reg # 0 /\ handlers[n].kind = "socket"
    /\ IF kernel[n].known
       THEN kernel' = [kernel EXCEPT ![n].armed = TRUE] /\ UNCHANGED handlers
       ELSE handlers' = [handlers EXCEPT ![n] = NoEntry] /\ UNCHANGED kernel
    /\ UNCHANGED <<seq, running, signal>>

Stop ==
    /\ InHandler /\ running /\ running' = FALSE
    /\ signal.stops < MaxStops /\ signal' = [signal EXCEPT !.stops = @ + 1]
    /\ UNCHANGED <<kernel, handlers, seq>>

----------------------------------------------------------------------------
(* The end of a callback.                                                  *)

TakeOff(n) ==
    /\ handlers' = [handlers EXCEPT ![n] = NoEntry]
    /\ kernel' = [kernel EXCEPT ![n].known = FALSE, ![n].armed = FALSE]

\* rearm_io(), the last thing a handler of the edge-triggered build does.
Rearm(n) ==
    IF et /\ ~kernel[n].known
    THEN handlers' = [handlers EXCEPT ![n] = NoEntry] /\ UNCHANGED kernel
    ELSE /\ kernel' = IF et THEN [kernel EXCEPT ![n].armed = TRUE] ELSE kernel
         /\ UNCHANGED handlers

Done == call' = NoCall /\ UNCHANGED <<seq, batch, at, running, signal, et>>

\* A socket's handler returns: one that was faulted, and is still there, goes.
Returns ==
    /\ InCall /\ call.entry.kind = "socket"
    /\ IF ~Holds THEN UNCHANGED <<handlers, kernel>>
       ELSE IF call.entry.faulted THEN TakeOff(mine)
       ELSE Rearm(mine)
    /\ Done

\* A timer that does not repeat is cancelled after its callback.
TimerReturns ==
    /\ InCall /\ call.entry.kind # "socket"
    /\ IF Holds /\ call.entry.kind = "once"
       THEN /\ handlers' = [handlers EXCEPT ![mine] = NoEntry]
            /\ kernel' = [kernel EXCEPT ![mine] = Closed]
       ELSE UNCHANGED <<handlers, kernel>>
    /\ Done

\* io_handler_threw(): the holder is told by an end of input, once, if its socket
\* can be shut.
Throws(shuts) ==
    /\ InCall /\ call.entry.kind = "socket"
    /\ IF ~Holds THEN UNCHANGED <<handlers, kernel>>
       ELSE IF handlers[mine].faulted \/ ~shuts \/ ~kernel[mine].known THEN TakeOff(mine)
       ELSE /\ handlers' = [handlers EXCEPT ![mine].faulted = TRUE]
            /\ kernel' = [kernel EXCEPT ![mine].shut = TRUE, ![mine].input = TRUE,
                                        ![mine].armed = TRUE]
    /\ Done

----------------------------------------------------------------------------
(* The world.  What comes while handlers run is seen at the next           *)
(* epoll_wait(), so it comes there.                                        *)

Waiting == running /\ ~InCall /\ batch = <<>>

Input(n) ==
    /\ Waiting /\ kernel[n].known /\ ~kernel[n].input
    /\ kernel' = [kernel EXCEPT ![n].input = TRUE]
    /\ UNCHANGED <<handlers, seq, batch, at, call, running, signal, et>>

Signal ==
    /\ Waiting /\ signal.stops < MaxStops /\ signal' = [waits |-> TRUE, stops |-> signal.stops + 1]
    /\ UNCHANGED <<kernel, handlers, seq, batch, at, call, running, et>>

\* The process has left run() and runs the loop once more, to finish its work.
RunAgain ==
    /\ ~running /\ ~InCall /\ batch = <<>>
    /\ running' = TRUE
    /\ UNCHANGED <<kernel, handlers, seq, batch, at, call, signal, et>>

----------------------------------------------------------------------------
\* Two sockets were registered before the loop runs.
LoopInit ==
    /\ kernel = [n \in Nums |-> IF n <= 2
                    THEN [Closed EXCEPT !.id = n, !.known = TRUE, !.armed = TRUE] ELSE Closed]
    /\ handlers = [n \in Nums |-> IF n <= 2
                      THEN [NoEntry EXCEPT !.id = n, !.reg = n] ELSE NoEntry]
    /\ seq = 2
    /\ batch = <<>> /\ at = 0 /\ call = NoCall
    /\ running = TRUE
    /\ signal = [waits |-> FALSE, stops |-> 0]
    /\ et \in BOOLEAN

LoopNext ==
    \/ Poll \/ DispatchSignal \/ Skip \/ Dispatch \/ Abandon
    \/ \E kind \in Kinds : Register(kind)
    \/ \E n \in Nums : LetGo(n) \/ Again(n) \/ CloseUnder(n) \/ Modify(n) \/ Input(n)
    \/ Drain \/ Stop
    \/ Returns \/ TimerReturns \/ \E shuts \in BOOLEAN : Throws(shuts)
    \/ Signal \/ RunAgain

LoopSpec == LoopInit /\ [][LoopNext]_elVars

\* The loop goes on while there is work, handlers come to an end, and the
\* process runs the loop again.
LoopFairness ==
    /\ WF_elVars(Poll) /\ WF_elVars(DispatchSignal \/ Skip \/ Dispatch \/ Abandon)
    /\ WF_elVars(Returns \/ TimerReturns) /\ WF_elVars(RunAgain)

----------------------------------------------------------------------------
(* Properties.                                                             *)

\* A handler is called for what was raised for its own descriptor, whatever the
\* handlers before it in the batch did to the number (poll_once, T619).
CalledForItsOwn == InCall => call.raised = call.entry.id

\* A socket with input gets its handler called, or is let go of: dropping an
\* event of a batch, stopping in the middle of one, and one-shot delivery lose
\* nothing ("nothing is lost", poll_once; io_handler_threw).
NobodyStarves ==
    \A n \in Nums :
        (kernel[n].known /\ kernel[n].kind = "socket" /\ kernel[n].input)
            ~> (call.num = n \/ ~kernel[n].input \/ ~kernel[n].known)
=============================================================================

---------------------------- MODULE SocketProofs ----------------------------
(***************************************************************************)
(* Proofs about Sockets, for any sets of descriptors, requests, forwards,  *)
(* messages and transfers, and any bounds: each section has the inductive  *)
(* invariant of one part, and the last one the theorems of them all.       *)
(***************************************************************************)
EXTENDS Sockets, TLAPS, FiniteSetTheorems, SequenceTheorems, WellFoundedInduction

-----------------------------------------------------------------------------
(* EventLoop: an event is dispatched for who it was raised for.            *)

\* What the kernel knows has its entry, and it is that of the same descriptor.
Paired(k, h) == k.known => h.reg # 0 /\ h.id = k.id

KnownIsHeld == \A n \in Nums : Paired(kernel[n], handlers[n])

\* An event that is still to be dispatched was raised for who has the number's
\* entry, unless the entry is gone or newer than the batch.
RaisedFor(h, id) == h.reg # 0 /\ ~(h.reg > at) => h.id = id

RaisedForHolder ==
    \A i \in DOMAIN batch : batch[i][1] # SignalFd => RaisedFor(handlers[batch[i][1]], batch[i][2])

LoopInv == LoopTypeOK /\ at <= seq /\ KnownIsHeld /\ RaisedForHolder /\ CalledForItsOwn

-----------------------------------------------------------------------------
(* The values the state is made of.                                        *)

LoopSlots == [id : 0 .. MaxRegs, kind : Kinds, input : BOOLEAN, shut : BOOLEAN, known : BOOLEAN,
          armed : BOOLEAN]

LoopEvents == (Nums \cup {SignalFd}) \X (0 .. MaxRegs)

LEMMA Nobody ==
    /\ Closed \in LoopSlots /\ NoEntry \in Entries
    /\ NoCall \in [num : Nums \cup {0}, raised : 0 .. MaxRegs, entry : Entries]
    /\ ~Closed.known /\ NoEntry.reg = 0 /\ NoCall.num = 0
  BY LoopConstants DEF Closed, NoEntry, NoCall, LoopSlots, Entries, Kinds

LEMMA LowestIsFree == FreeNums # {} => Lowest \in FreeNums
  <1> SUFFICES ASSUME FreeNums # {} PROVE Lowest \in FreeNums
    OBVIOUS
  <1>1. FreeNums \subseteq Nat
    BY LoopConstants DEF FreeNums
  <1>2. IsWellFoundedOn(OpToRel(<, Nat), Nat)
    BY NatLessThanWellFounded
  <1>3. PICK n \in FreeNums : \A m \in FreeNums : ~(<<m, n>> \in OpToRel(<, Nat))
    BY <1>1, <1>2, WFMin
  <1>4. \A m \in FreeNums : ~(m < n)
    BY <1>1, <1>3 DEF OpToRel
  <1>5. \A m \in FreeNums : n <= m
    BY <1>1, <1>4
  <1> QED
    BY <1>5 DEF Lowest

\* The events that are ready are finitely many, and a batch is made of them.
LEMMA BatchIsReady ==
    ASSUME NEW evs \in SUBSET LoopEvents, NEW s \in SetToSeqs(evs)
    PROVE  s \in Seq(LoopEvents) /\ \A i \in DOMAIN s : s[i] \in evs
  <1>1. IsFiniteSet(0 .. MaxRegs)
    BY FS_Interval, LoopConstants
  <1>2. IsFiniteSet(Nums \cup {SignalFd})
    BY FS_AddElement, LoopConstants
  <1>3. IsFiniteSet(evs)
    BY <1>1, <1>2, FS_Product, FS_Subset DEF LoopEvents
  <1>4. Cardinality(evs) \in Nat
    BY <1>3, FS_CardinalityType
  <1>5. s \in [1 .. Cardinality(evs) -> evs]
    BY DEF SetToSeqs
  <1> QED
    BY <1>4, <1>5

\* A step that leaves the batch alone keeps what is known of it when each entry is
\* as before, gone, or newer than the batch.
LEMMA EntriesChange ==
    ASSUME LoopInv, UNCHANGED <<batch, at>>, seq' \in 0 .. MaxRegs, seq <= seq',
           kernel' \in [Nums -> LoopSlots], handlers' \in [Nums -> Entries],
           \A n \in Nums : Paired(kernel'[n], handlers'[n]),
           \A n \in Nums : \/ handlers'[n].reg = 0
                           \/ handlers'[n].reg > at
                           \/ /\ handlers'[n].reg = handlers[n].reg
                              /\ handlers'[n].id = handlers[n].id
    PROVE  /\ kernel' \in [Nums -> LoopSlots] /\ handlers' \in [Nums -> Entries]
           /\ seq' \in 0 .. MaxRegs /\ batch' \in Seq(LoopEvents) /\ at' \in 0 .. MaxRegs
           /\ at' <= seq' /\ KnownIsHeld' /\ RaisedForHolder'
  <1>1. batch' \in Seq(LoopEvents) /\ at' \in 0 .. MaxRegs /\ at' <= seq'
    BY LoopConstants DEF LoopInv, LoopTypeOK, LoopEvents
  <1>2. KnownIsHeld'
    BY DEF KnownIsHeld
  <1>3. RaisedForHolder'
    <2> SUFFICES ASSUME NEW i \in DOMAIN batch, batch[i][1] # SignalFd
                 PROVE  RaisedFor(handlers[batch[i][1]], batch[i][2])'
      BY DEF RaisedForHolder
    <2>1. batch[i] \in LoopEvents
      BY DEF LoopInv, LoopTypeOK, LoopEvents
    <2>2. batch[i][1] \in Nums
      BY <2>1 DEF LoopEvents
    <2>3. RaisedFor(handlers[batch[i][1]], batch[i][2])
      BY DEF LoopInv, RaisedForHolder
    <2> QED
      BY <2>2, <2>3 DEF RaisedFor
  <1> QED
    BY <1>1, <1>2, <1>3

\* The rest of what the invariant says.
LEMMA CallAndRest ==
    ASSUME kernel' \in [Nums -> LoopSlots], handlers' \in [Nums -> Entries],
           seq' \in 0 .. MaxRegs, batch' \in Seq(LoopEvents), at' \in 0 .. MaxRegs,
           at' <= seq', KnownIsHeld', RaisedForHolder',
           call' \in [num : Nums \cup {0}, raised : 0 .. MaxRegs, entry : Entries],
           InCall' => call'.raised = call'.entry.id,
           running' \in BOOLEAN, et' \in BOOLEAN,
           signal' \in [waits : BOOLEAN, stops : 0 .. MaxStops]
    PROVE  LoopInv'
  BY DEF LoopInv, LoopTypeOK, CalledForItsOwn, LoopSlots, LoopEvents

-----------------------------------------------------------------------------
(* epoll_wait() and the batch.                                             *)

LEMMA PollKeeps == LoopInv /\ Poll => LoopInv'
  <1> SUFFICES ASSUME LoopInv, Poll PROVE LoopInv'
    OBVIOUS
  <1> DEFINE ready == {<<n, kernel[n].id>> : n \in Reported}
                         \cup (IF signal.waits THEN {<<SignalFd, 0>>} ELSE {})
  <1>1. kernel \in [Nums -> LoopSlots] /\ handlers \in [Nums -> Entries]
    BY DEF LoopInv, LoopTypeOK, LoopSlots
  <1>2. ready \in SUBSET LoopEvents
    <2>1. \A n \in Reported : n \in Nums /\ kernel[n].id \in 0 .. MaxRegs
      BY <1>1 DEF Reported, LoopSlots
    <2>2. <<SignalFd, 0>> \in LoopEvents
      BY LoopConstants DEF LoopEvents
    <2> QED
      BY <2>1, <2>2 DEF LoopEvents
  <1>3. batch' \in SetToSeqs(ready)
    BY DEF Poll
  <1>4. batch' \in Seq(LoopEvents) /\ \A i \in DOMAIN batch' : batch'[i] \in ready
    BY <1>2, <1>3, BatchIsReady
  <1>5. /\ kernel' \in [Nums -> LoopSlots]
        /\ \A n \in Nums : kernel'[n].known = kernel[n].known /\ kernel'[n].id = kernel[n].id
    BY <1>1 DEF Poll, LoopSlots
  <1>6. KnownIsHeld'
    BY <1>5 DEF LoopInv, KnownIsHeld, Paired, Poll
  <1>7. RaisedForHolder'
    <2> SUFFICES ASSUME NEW i \in DOMAIN batch', batch'[i][1] # SignalFd
                 PROVE  RaisedFor(handlers[batch[i][1]], batch[i][2])'
      BY DEF RaisedForHolder
    <2>1. batch'[i] \in ready
      BY <1>4
    <2>2. PICK n \in Reported : batch'[i] = <<n, kernel[n].id>>
      BY <2>1
    <2>3. kernel[n].known /\ n \in Nums
      BY DEF Reported
    <2>4. handlers[n].id = kernel[n].id
      BY <2>3 DEF LoopInv, KnownIsHeld, Paired
    <2> QED
      BY <2>2, <2>4 DEF RaisedFor, Poll
  <1>8. at' \in 0 .. MaxRegs /\ at' <= seq' /\ seq' \in 0 .. MaxRegs
    BY LoopConstants DEF LoopInv, LoopTypeOK, Poll
  <1>9. /\ call' \in [num : Nums \cup {0}, raised : 0 .. MaxRegs, entry : Entries]
        /\ InCall' => call'.raised = call'.entry.id
        /\ running' \in BOOLEAN /\ et' \in BOOLEAN
        /\ signal' \in [waits : BOOLEAN, stops : 0 .. MaxStops]
    BY DEF LoopInv, LoopTypeOK, CalledForItsOwn, Poll, InCall
  <1> HIDE DEF ready
  <1> QED
    BY <1>1, <1>4, <1>5, <1>6, <1>7, <1>8, <1>9, CallAndRest DEF Poll

\* What is behind the first event stays as it was.
LEMMA TailKeeps ==
    ASSUME LoopInv, batch # <<>>, batch' = Tail(batch), UNCHANGED <<handlers, at>>
    PROVE  /\ batch' \in Seq(LoopEvents) /\ RaisedForHolder'
           /\ Event \in LoopEvents
           /\ Event[1] # SignalFd =>
                /\ Event[1] \in Nums
                /\ RaisedFor(handlers[Event[1]], Event[2])
  <1>1. batch \in Seq(LoopEvents)
    BY DEF LoopInv, LoopTypeOK, LoopEvents
  <1>2. batch' \in Seq(LoopEvents) /\ Event \in LoopEvents /\ Event = batch[1] /\ 1 \in DOMAIN batch
    BY <1>1 DEF Event
  <1>3. \A i \in DOMAIN batch' : i + 1 \in DOMAIN batch /\ batch'[i] = batch[i + 1]
    BY <1>1
  <1>4. RaisedForHolder'
    BY <1>3 DEF LoopInv, RaisedForHolder, RaisedFor
  <1>5. Event[1] # SignalFd => Event[1] \in Nums /\ RaisedFor(handlers[Event[1]], Event[2])
    BY <1>2 DEF LoopInv, RaisedForHolder, LoopEvents
  <1> QED
    BY <1>2, <1>4, <1>5

LEMMA DispatchSignalKeeps == LoopInv /\ DispatchSignal => LoopInv'
  <1> SUFFICES ASSUME LoopInv, DispatchSignal PROVE LoopInv'
    OBVIOUS
  <1>1. batch' \in Seq(LoopEvents) /\ RaisedForHolder'
    BY TailKeeps DEF DispatchSignal, Dispatching
  <1>2. running' \in BOOLEAN /\ signal' \in [waits : BOOLEAN, stops : 0 .. MaxStops]
    BY DEF LoopInv, LoopTypeOK, DispatchSignal
  <1> QED
    BY <1>1, <1>2 DEF LoopInv, LoopTypeOK, KnownIsHeld, CalledForItsOwn, InCall, DispatchSignal, LoopEvents

LEMMA SkipKeeps == LoopInv /\ Skip => LoopInv'
  <1> SUFFICES ASSUME LoopInv, Skip PROVE LoopInv'
    OBVIOUS
  <1>1. batch' \in Seq(LoopEvents) /\ RaisedForHolder'
    BY TailKeeps DEF Skip, Dispatching
  <1> QED
    BY <1>1 DEF LoopInv, LoopTypeOK, KnownIsHeld, CalledForItsOwn, InCall, Skip, LoopEvents

LEMMA DispatchKeeps == LoopInv /\ Dispatch => LoopInv'
  <1> SUFFICES ASSUME LoopInv, Dispatch PROVE LoopInv'
    OBVIOUS
  <1> DEFINE n == Event[1]
  <1>1. /\ batch' \in Seq(LoopEvents) /\ RaisedForHolder' /\ Event \in LoopEvents
        /\ n \in Nums /\ RaisedFor(handlers[n], Event[2])
    BY TailKeeps DEF Dispatch, Dispatching
  <1>2. kernel \in [Nums -> LoopSlots] /\ handlers \in [Nums -> Entries]
    BY DEF LoopInv, LoopTypeOK, LoopSlots
  <1>3. handlers[n].id = Event[2]
    BY <1>1 DEF Dispatch, RaisedFor, Newer
  <1>4. /\ call' \in [num : Nums \cup {0}, raised : 0 .. MaxRegs, entry : Entries]
        /\ call'.raised = call'.entry.id
    BY <1>1, <1>2, <1>3 DEF Dispatch, LoopEvents
  <1>5. /\ kernel' \in [Nums -> LoopSlots]
        /\ \A m \in Nums : kernel'[m].known = kernel[m].known /\ kernel'[m].id = kernel[m].id
    BY <1>1, <1>2 DEF Dispatch, LoopSlots
  <1>6. KnownIsHeld'
    BY <1>5 DEF LoopInv, KnownIsHeld, Paired, Dispatch
  <1> HIDE DEF n
  <1> QED
    BY <1>1, <1>2, <1>4, <1>5, <1>6, CallAndRest DEF Dispatch, LoopInv, LoopTypeOK

-----------------------------------------------------------------------------
(* Handlers, and how they end.                                             *)

\* A handler's step changes the descriptor and the entry of one number.
LEMMA OneNumberKeeps ==
    ASSUME LoopInv, NEW n \in Nums, UNCHANGED <<batch, at, et>>,
           UNCHANGED call \/ call' = NoCall,
           seq' \in 0 .. MaxRegs, seq <= seq', running' \in BOOLEAN,
           signal' \in [waits : BOOLEAN, stops : 0 .. MaxStops],
           kernel' \in [Nums -> LoopSlots], handlers' \in [Nums -> Entries],
           \A m \in Nums : m # n => kernel'[m] = kernel[m] /\ handlers'[m] = handlers[m],
           Paired(kernel'[n], handlers'[n]),
           \/ handlers'[n].reg = 0
           \/ handlers'[n].reg > at
           \/ handlers'[n].reg = handlers[n].reg /\ handlers'[n].id = handlers[n].id
    PROVE  LoopInv'
  <1>1. \A m \in Nums : Paired(kernel'[m], handlers'[m])
    BY DEF LoopInv, KnownIsHeld
  <1>2. \A m \in Nums : \/ handlers'[m].reg = 0
                        \/ handlers'[m].reg > at
                        \/ /\ handlers'[m].reg = handlers[m].reg
                           /\ handlers'[m].id = handlers[m].id
    OBVIOUS
  <1>3. /\ batch' \in Seq(LoopEvents) /\ at' \in 0 .. MaxRegs /\ at' <= seq'
        /\ KnownIsHeld' /\ RaisedForHolder'
    BY <1>1, <1>2, EntriesChange
  <1>4. /\ call' \in [num : Nums \cup {0}, raised : 0 .. MaxRegs, entry : Entries]
        /\ InCall' => call'.raised = call'.entry.id
        /\ et' \in BOOLEAN
    BY Nobody DEF LoopInv, LoopTypeOK, CalledForItsOwn, InCall
  <1> QED
    BY <1>3, <1>4, CallAndRest

LEMMA StateTyped ==
    LoopInv => /\ kernel \in [Nums -> LoopSlots] /\ handlers \in [Nums -> Entries]
           /\ seq \in 0 .. MaxRegs /\ at \in 0 .. MaxRegs /\ at <= seq
           /\ running \in BOOLEAN /\ et \in BOOLEAN
           /\ signal \in [waits : BOOLEAN, stops : 0 .. MaxStops]
           /\ call \in [num : Nums \cup {0}, raised : 0 .. MaxRegs, entry : Entries]
           /\ \A n \in Nums : Paired(kernel[n], handlers[n])
           /\ InCall => mine \in Nums
  BY DEF LoopInv, LoopTypeOK, LoopSlots, KnownIsHeld, InCall, mine

LEMMA MineIsNum == LoopInv /\ InCall => mine \in Nums
  BY DEF LoopInv, LoopTypeOK, InCall, mine

LEMMA StatePaired ==
    LoopInv => /\ \A n \in Nums : Paired(kernel[n], handlers[n])
           /\ seq \in 0 .. MaxRegs /\ at \in 0 .. MaxRegs /\ at <= seq
  BY DEF LoopInv, LoopTypeOK, KnownIsHeld

LEMMA RegisterKeeps == ASSUME NEW kind \in Kinds PROVE LoopInv /\ Register(kind) => LoopInv'
  <1> SUFFICES ASSUME LoopInv, Register(kind) PROVE LoopInv'
    OBVIOUS
  <1> DEFINE k == [Closed EXCEPT !.id = seq + 1, !.kind = kind, !.known = TRUE, !.armed = TRUE]
             h == [id |-> seq + 1, reg |-> seq + 1, kind |-> kind, faulted |-> FALSE]
             n == Lowest
  <1>1. n \in Nums
    BY LowestIsFree DEF Register, FreeNums
  <1>2. seq' = seq + 1 /\ seq' \in 0 .. MaxRegs /\ seq + 1 > at /\ seq <= seq'
    BY StateTyped, LoopConstants DEF Register
  <1>3. k \in LoopSlots /\ h \in Entries /\ h.reg > at /\ Paired(k, h)
    <2>1. seq + 1 \in 0 .. MaxRegs /\ seq + 1 # 0
      BY <1>2, StateTyped
    <2>2. k \in LoopSlots /\ k.id = seq + 1
      BY <2>1, Nobody DEF LoopSlots
    <2>3. h \in Entries /\ h.reg = seq + 1 /\ h.id = seq + 1
      BY <2>1 DEF Entries
    <2> HIDE DEF k, h
    <2> QED
      BY <1>2, <2>1, <2>2, <2>3 DEF Paired
  <1>4. kernel' = [kernel EXCEPT ![n] = k] /\ handlers' = [handlers EXCEPT ![n] = h]
    BY Zenon DEF Register
  <1> HIDE DEF k, h, n
  <1>5. /\ kernel' \in [Nums -> LoopSlots] /\ handlers' \in [Nums -> Entries]
        /\ kernel'[n] = k /\ handlers'[n] = h
        /\ \A m \in Nums : m # n => kernel'[m] = kernel[m] /\ handlers'[m] = handlers[m]
    BY <1>1, <1>3, <1>4, StateTyped
  <1> QED
    BY <1>1, <1>2, <1>3, <1>5, StateTyped, OneNumberKeeps DEF Register, InHandler

LEMMA LetGoKeeps == ASSUME NEW n \in Nums PROVE LoopInv /\ LetGo(n) => LoopInv'
  <1> SUFFICES ASSUME LoopInv, LetGo(n) PROVE LoopInv'
    OBVIOUS
  <1>1. kernel' = [kernel EXCEPT ![n] = Closed] /\ handlers' = [handlers EXCEPT ![n] = NoEntry]
    BY DEF LetGo
  <1>2. /\ kernel' \in [Nums -> LoopSlots] /\ handlers' \in [Nums -> Entries]
        /\ kernel'[n] = Closed /\ handlers'[n] = NoEntry
        /\ \A m \in Nums : m # n => kernel'[m] = kernel[m] /\ handlers'[m] = handlers[m]
    BY <1>1, StateTyped, Nobody
  <1>3. Paired(kernel'[n], handlers'[n])
    BY <1>2, Nobody DEF Paired
  <1>4. seq' \in 0 .. MaxRegs /\ seq <= seq'
    BY StateTyped DEF LetGo
  <1> QED
    BY <1>2, <1>3, <1>4, StateTyped, Nobody, OneNumberKeeps DEF LetGo, InHandler

LEMMA AgainKeeps == ASSUME NEW n \in Nums PROVE LoopInv /\ Again(n) => LoopInv'
  <1> SUFFICES ASSUME LoopInv, Again(n) PROVE LoopInv'
    OBVIOUS
  <1> DEFINE k == [kernel[n] EXCEPT !.armed = TRUE]
             h == [handlers[n] EXCEPT !.reg = seq + 1, !.faulted = FALSE]
  <1>1. seq' = seq + 1 /\ seq' \in 0 .. MaxRegs /\ seq + 1 > at /\ seq <= seq'
    BY StateTyped, LoopConstants DEF Again
  <1>2. /\ k \in LoopSlots /\ k.known = kernel[n].known /\ k.id = kernel[n].id
        /\ h \in Entries /\ h.reg = seq + 1 /\ h.id = handlers[n].id
    <2>1. kernel[n] \in LoopSlots /\ handlers[n] \in Entries /\ seq + 1 \in 0 .. MaxRegs
      BY <1>1, StateTyped
    <2>2. k \in LoopSlots /\ k.known = kernel[n].known /\ k.id = kernel[n].id
      BY <2>1 DEF LoopSlots
    <2>3. h \in Entries /\ h.reg = seq + 1 /\ h.id = handlers[n].id
      BY <2>1 DEF Entries
    <2> QED
      BY <2>2, <2>3
  <1>3. Paired(k, h) /\ h.reg > at
    BY <1>1, <1>2, StatePaired DEF Paired
  <1>4. kernel' = [kernel EXCEPT ![n] = k] /\ handlers' = [handlers EXCEPT ![n] = h]
    BY StateTyped DEF Again
  <1> HIDE DEF k, h
  <1>5. /\ kernel' \in [Nums -> LoopSlots] /\ handlers' \in [Nums -> Entries]
        /\ kernel'[n] = k /\ handlers'[n] = h
        /\ \A m \in Nums : m # n => kernel'[m] = kernel[m] /\ handlers'[m] = handlers[m]
    BY <1>2, <1>4, StateTyped
  <1> QED
    BY <1>1, <1>3, <1>5, StateTyped, OneNumberKeeps DEF Again, InHandler

\* A descriptor that only gets input, is shut or is armed stays who it is.
LEMMA SameDescriptor ==
    ASSUME LoopInv, NEW n \in Nums, NEW k \in LoopSlots, UNCHANGED <<batch, at, et, seq, running, signal>>,
           UNCHANGED call \/ call' = NoCall,
           kernel' = [kernel EXCEPT ![n] = k], UNCHANGED handlers,
           k.known => kernel[n].known /\ k.id = kernel[n].id
    PROVE  LoopInv'
  <1>1. /\ kernel' \in [Nums -> LoopSlots] /\ kernel'[n] = k
        /\ \A m \in Nums : m # n => kernel'[m] = kernel[m]
    BY StateTyped
  <1>2. Paired(kernel'[n], handlers'[n])
    BY <1>1, StatePaired DEF Paired
  <1>3. seq' \in 0 .. MaxRegs /\ seq <= seq'
    BY StateTyped
  <1> QED
    BY <1>1, <1>2, <1>3, StateTyped, OneNumberKeeps

LEMMA DrainKeeps == LoopInv /\ Drain => LoopInv'
  <1> SUFFICES ASSUME LoopInv, Drain PROVE LoopInv'
    OBVIOUS
  <1> DEFINE k == [kernel[mine] EXCEPT !.input = FALSE]
  <1>1. mine \in Nums
    BY MineIsNum DEF Drain, InHandler
  <1>2. k \in LoopSlots /\ k.known = kernel[mine].known /\ k.id = kernel[mine].id
    BY <1>1, StateTyped DEF LoopSlots
  <1>3. kernel' = [kernel EXCEPT ![mine] = k]
    BY <1>1, StateTyped DEF Drain
  <1> HIDE DEF k
  <1> QED
    BY <1>1, <1>2, <1>3, SameDescriptor DEF Drain, InHandler

LEMMA CloseUnderKeeps == ASSUME NEW n \in Nums PROVE LoopInv /\ CloseUnder(n) => LoopInv'
  BY SameDescriptor, Nobody DEF CloseUnder, InHandler

\* The loop drops an entry whose descriptor it does not know any more.
LEMMA EntryGoes ==
    ASSUME LoopInv, NEW n \in Nums, UNCHANGED <<batch, at, et, seq, running, signal, kernel>>,
           UNCHANGED call \/ call' = NoCall,
           handlers' = [handlers EXCEPT ![n] = NoEntry], ~kernel[n].known
    PROVE  LoopInv'
  <1>1. /\ handlers' \in [Nums -> Entries] /\ handlers'[n] = NoEntry
        /\ \A m \in Nums : m # n => handlers'[m] = handlers[m]
    BY StateTyped, Nobody
  <1>2. Paired(kernel'[n], handlers'[n])
    BY DEF Paired
  <1>3. seq' \in 0 .. MaxRegs /\ seq <= seq'
    BY StateTyped
  <1> QED
    BY <1>1, <1>2, <1>3, StateTyped, Nobody, OneNumberKeeps

\* A callback that leaves all as it was only ends.
LEMMA NobodyCalled ==
    ASSUME LoopInv, UNCHANGED <<kernel, handlers, seq, batch, at, running, signal, et>>,
           call' = NoCall
    PROVE  LoopInv'
  BY Nobody DEF LoopInv, LoopTypeOK, KnownIsHeld, RaisedForHolder, RaisedFor, CalledForItsOwn, InCall

LEMMA TakeOffKeeps == ASSUME NEW n \in Nums PROVE LoopInv /\ TakeOff(n) /\ Done => LoopInv'
  <1> SUFFICES ASSUME LoopInv, TakeOff(n), Done PROVE LoopInv'
    OBVIOUS
  <1>1. /\ kernel' \in [Nums -> LoopSlots] /\ handlers' \in [Nums -> Entries]
        /\ ~kernel'[n].known /\ handlers'[n] = NoEntry
        /\ \A m \in Nums : m # n => kernel'[m] = kernel[m] /\ handlers'[m] = handlers[m]
    BY StateTyped, Nobody DEF TakeOff, LoopSlots
  <1>2. Paired(kernel'[n], handlers'[n])
    BY <1>1 DEF Paired
  <1>3. seq' \in 0 .. MaxRegs /\ seq <= seq'
    BY StateTyped DEF Done
  <1> QED
    BY <1>1, <1>2, <1>3, StateTyped, Nobody, OneNumberKeeps DEF Done

LEMMA ModifyKeeps == ASSUME NEW n \in Nums PROVE LoopInv /\ Modify(n) => LoopInv'
  <1> SUFFICES ASSUME LoopInv, Modify(n) PROVE LoopInv'
    OBVIOUS
  <1>1. CASE kernel[n].known
    <2> DEFINE k == [kernel[n] EXCEPT !.armed = TRUE]
    <2>1. k \in LoopSlots /\ k.known = kernel[n].known /\ k.id = kernel[n].id
      BY StateTyped DEF LoopSlots
    <2>2. kernel' = [kernel EXCEPT ![n] = k] /\ UNCHANGED handlers
      BY <1>1, StateTyped DEF Modify
    <2> HIDE DEF k
    <2> QED
      BY <2>1, <2>2, SameDescriptor DEF Modify, InHandler
  <1>2. CASE ~kernel[n].known
    BY <1>2, EntryGoes DEF Modify, InHandler
  <1> QED
    BY <1>1, <1>2

LEMMA StopKeeps == LoopInv /\ Stop => LoopInv'
  <1> SUFFICES ASSUME LoopInv, Stop PROVE LoopInv'
    OBVIOUS
  <1>1. running' \in BOOLEAN /\ signal' \in [waits : BOOLEAN, stops : 0 .. MaxStops]
    <2>1. signal.stops + 1 \in 0 .. MaxStops
      BY StateTyped, LoopConstants DEF Stop
    <2>2. [signal EXCEPT !.stops = signal.stops + 1] \in [waits : BOOLEAN, stops : 0 .. MaxStops]
      BY <2>1, StateTyped
    <2> QED
      BY <2>2 DEF Stop
  <1> QED
    BY <1>1 DEF Stop, InHandler, LoopInv, LoopTypeOK, KnownIsHeld, RaisedForHolder, RaisedFor,
                CalledForItsOwn, InCall

LEMMA ReturnsKeeps == LoopInv /\ Returns => LoopInv'
  <1> SUFFICES ASSUME LoopInv, Returns PROVE LoopInv'
    OBVIOUS
  <1>1. mine \in Nums
    BY MineIsNum DEF Returns
  <1>2. CASE UNCHANGED <<handlers, kernel>>
    BY <1>1, <1>2, NobodyCalled DEF Returns, Done
  <1>3. CASE TakeOff(mine)
    BY <1>1, <1>3, TakeOffKeeps DEF Returns
  <1>4. CASE Rearm(mine)
    <2>1. CASE et /\ ~kernel[mine].known
      BY <1>1, <1>4, <2>1, EntryGoes DEF Rearm, Returns, Done
    <2>2. CASE ~(et /\ ~kernel[mine].known)
      <3>1. CASE et
        <4> DEFINE k == [kernel[mine] EXCEPT !.armed = TRUE]
        <4>1. k \in LoopSlots /\ k.known = kernel[mine].known /\ k.id = kernel[mine].id
          BY <1>1, StateTyped DEF LoopSlots
        <4>2. kernel' = [kernel EXCEPT ![mine] = k] /\ UNCHANGED handlers
          BY <1>1, <1>4, <2>2, <3>1, StateTyped DEF Rearm
        <4> HIDE DEF k
        <4> QED
          BY <1>1, <4>1, <4>2, SameDescriptor DEF Returns, Done
      <3>2. CASE ~et
        BY <2>2, <1>4, <3>2, NobodyCalled DEF Rearm, Returns, Done
      <3> QED
        BY <3>1, <3>2
    <2> QED
      BY <2>1, <2>2
  <1> QED
    BY <1>2, <1>3, <1>4 DEF Returns

LEMMA TimerReturnsKeeps == LoopInv /\ TimerReturns => LoopInv'
  <1> SUFFICES ASSUME LoopInv, TimerReturns PROVE LoopInv'
    OBVIOUS
  <1>1. mine \in Nums
    BY MineIsNum DEF TimerReturns
  <1>2. CASE Holds /\ call.entry.kind = "once"
    <2>1. /\ kernel' \in [Nums -> LoopSlots] /\ handlers' \in [Nums -> Entries]
          /\ kernel'[mine] = Closed /\ handlers'[mine] = NoEntry
          /\ \A m \in Nums : m # mine => kernel'[m] = kernel[m] /\ handlers'[m] = handlers[m]
      BY <1>1, <1>2, StateTyped, Nobody DEF TimerReturns
    <2>2. Paired(kernel'[mine], handlers'[mine])
      BY <2>1, Nobody DEF Paired
    <2>3. seq' \in 0 .. MaxRegs /\ seq <= seq'
      BY StateTyped DEF TimerReturns, Done
    <2> QED
      BY <1>1, <2>1, <2>2, <2>3, StateTyped, Nobody, OneNumberKeeps DEF TimerReturns, Done
  <1>3. CASE ~(Holds /\ call.entry.kind = "once")
    BY <1>3, NobodyCalled DEF TimerReturns, Done
  <1> QED
    BY <1>2, <1>3

LEMMA ThrowsKeeps == ASSUME NEW shuts \in BOOLEAN PROVE LoopInv /\ Throws(shuts) => LoopInv'
  <1> SUFFICES ASSUME LoopInv, Throws(shuts) PROVE LoopInv'
    OBVIOUS
  <1>1. mine \in Nums
    BY MineIsNum DEF Throws
  <1>2. CASE UNCHANGED <<handlers, kernel>>
    BY <1>2, NobodyCalled DEF Throws, Done
  <1>3. CASE TakeOff(mine)
    BY <1>1, <1>3, TakeOffKeeps DEF Throws
  <1>4. ASSUME handlers' = [handlers EXCEPT ![mine].faulted = TRUE],
               kernel' = [kernel EXCEPT ![mine].shut = TRUE, ![mine].input = TRUE,
                                        ![mine].armed = TRUE]
        PROVE  LoopInv'
    <2>1. /\ kernel' \in [Nums -> LoopSlots] /\ handlers' \in [Nums -> Entries]
          /\ kernel'[mine].known = kernel[mine].known /\ kernel'[mine].id = kernel[mine].id
          /\ handlers'[mine].reg = handlers[mine].reg /\ handlers'[mine].id = handlers[mine].id
          /\ \A m \in Nums : m # mine => kernel'[m] = kernel[m] /\ handlers'[m] = handlers[m]
      <3> DEFINE k == [kernel[mine] EXCEPT !.shut = TRUE, !.input = TRUE, !.armed = TRUE]
                 h == [handlers[mine] EXCEPT !.faulted = TRUE]
      <3>1. kernel[mine] \in LoopSlots /\ handlers[mine] \in Entries
        BY <1>1, StateTyped
      <3>2. k \in LoopSlots /\ k.known = kernel[mine].known /\ k.id = kernel[mine].id
        BY <3>1 DEF LoopSlots
      <3>3. h \in Entries /\ h.reg = handlers[mine].reg /\ h.id = handlers[mine].id
        BY <3>1 DEF Entries
      <3>4. kernel' = [kernel EXCEPT ![mine] = k]
        BY <1>1, <1>4, StateTyped
      <3>5. handlers' = [handlers EXCEPT ![mine] = h]
        BY <1>1, <1>4, StateTyped
      <3> HIDE DEF k, h
      <3> QED
        BY <1>1, <3>2, <3>3, <3>4, <3>5, StateTyped
    <2>2. Paired(kernel'[mine], handlers'[mine])
      BY <1>1, <2>1, StatePaired DEF Paired
    <2>3. seq' \in 0 .. MaxRegs /\ seq <= seq'
      BY StateTyped DEF Throws, Done
    <2> QED
      BY <1>1, <2>1, <2>2, <2>3, StateTyped, OneNumberKeeps DEF Throws, Done
  <1> QED
    BY <1>2, <1>3, <1>4 DEF Throws

-----------------------------------------------------------------------------
(* The rest of the steps.                                                  *)

\* A batch that is abandoned is empty after it: nothing is left to be raised.
LEMMA AbandonKeeps == LoopInv /\ Abandon => LoopInv'
  <1> SUFFICES ASSUME LoopInv, Abandon PROVE LoopInv'
    OBVIOUS
  <1> DEFINE Armed(n) == /\ et /\ \E i \in DOMAIN batch : batch[i][1] = n
                         /\ handlers[n].reg # 0 /\ handlers[n].kind = "socket"
                         /\ ~Newer(n) /\ kernel[n].known
             Gone(n) == /\ et /\ \E i \in DOMAIN batch : batch[i][1] = n
                        /\ handlers[n].kind = "socket" /\ ~Newer(n) /\ ~kernel[n].known
  <1>1. /\ kernel' = [n \in Nums |-> IF Armed(n) THEN [kernel[n] EXCEPT !.armed = TRUE]
                                    ELSE kernel[n]]
        /\ handlers' = [n \in Nums |-> IF Gone(n) THEN NoEntry ELSE handlers[n]]
        /\ batch' = <<>>
    BY DEF Abandon
  <1>2. \A n \in Nums : Gone(n) => ~kernel[n].known
    OBVIOUS
  <1> HIDE DEF Armed, Gone
  <1>3. /\ kernel' \in [Nums -> LoopSlots]
        /\ \A n \in Nums : kernel'[n].known = kernel[n].known /\ kernel'[n].id = kernel[n].id
    BY <1>1, StateTyped DEF LoopSlots
  <1>4. handlers' \in [Nums -> Entries]
    BY <1>1, StateTyped, Nobody
  <1>5. KnownIsHeld'
    <2> SUFFICES ASSUME NEW n \in Nums PROVE Paired(kernel'[n], handlers'[n])
      BY DEF KnownIsHeld
    <2>1. CASE Gone(n)
      BY <1>2, <1>3, <2>1 DEF Paired
    <2>2. CASE ~Gone(n)
      BY <1>1, <1>3, <2>2, StatePaired DEF Paired
    <2> QED
      BY <2>1, <2>2
  <1>6. batch' \in Seq(LoopEvents) /\ RaisedForHolder'
    BY <1>1 DEF RaisedForHolder
  <1>7. /\ seq' \in 0 .. MaxRegs /\ at' \in 0 .. MaxRegs /\ at' <= seq'
        /\ running' \in BOOLEAN /\ et' \in BOOLEAN
        /\ signal' \in [waits : BOOLEAN, stops : 0 .. MaxStops]
        /\ call' \in [num : Nums \cup {0}, raised : 0 .. MaxRegs, entry : Entries]
        /\ InCall' => call'.raised = call'.entry.id
    BY StateTyped DEF Abandon, LoopInv, CalledForItsOwn, InCall
  <1> QED
    BY <1>3, <1>4, <1>5, <1>6, <1>7, CallAndRest

LEMMA InputKeeps == ASSUME NEW n \in Nums PROVE LoopInv /\ Input(n) => LoopInv'
  <1> SUFFICES ASSUME LoopInv, Input(n) PROVE LoopInv'
    OBVIOUS
  <1> DEFINE k == [kernel[n] EXCEPT !.input = TRUE]
  <1>1. k \in LoopSlots /\ k.known = kernel[n].known /\ k.id = kernel[n].id
    BY StateTyped DEF LoopSlots
  <1>2. kernel' = [kernel EXCEPT ![n] = k]
    BY StateTyped DEF Input
  <1> HIDE DEF k
  <1> QED
    BY <1>1, <1>2, SameDescriptor DEF Input

LEMMA OutsideKeeps == LoopInv /\ (Signal \/ RunAgain) => LoopInv'
  <1> SUFFICES ASSUME LoopInv, Signal \/ RunAgain PROVE LoopInv'
    OBVIOUS
  <1>1. running' \in BOOLEAN /\ signal' \in [waits : BOOLEAN, stops : 0 .. MaxStops]
    <2>1. CASE Signal
      <3>1. signal.stops + 1 \in 0 .. MaxStops
        BY <2>1, StateTyped, LoopConstants DEF Signal
      <3> QED
        BY <2>1, <3>1, StateTyped DEF Signal
    <2>2. CASE RunAgain
      BY <2>2, StateTyped DEF RunAgain
    <2> QED
      BY <2>1, <2>2
  <1>2. UNCHANGED <<kernel, handlers, seq, batch, at, call, et>>
    BY DEF Signal, RunAgain
  <1> QED
    BY <1>1, <1>2 DEF LoopInv, LoopTypeOK, KnownIsHeld, RaisedForHolder, RaisedFor, CalledForItsOwn,
                      InCall

-----------------------------------------------------------------------------
(* The theorems.                                                           *)

LEMMA LoopBegins == LoopInit => LoopInv
  <1> SUFFICES ASSUME LoopInit PROVE LoopInv
    OBVIOUS
  <1>1. kernel \in [Nums -> LoopSlots]
    <2>1. \A n \in Nums : n <= 2 => n \in 0 .. MaxRegs
      BY LoopConstants
    <2>2. \A n \in Nums : n <= 2 =>
              [Closed EXCEPT !.id = n, !.known = TRUE, !.armed = TRUE] \in LoopSlots
      BY <2>1, Nobody DEF LoopSlots
    <2> QED
      BY <2>2, Nobody, Zenon DEF LoopInit
  <1>2. handlers \in [Nums -> Entries]
    <2>1. \A n \in Nums : n <= 2 => n \in 0 .. MaxRegs
      BY LoopConstants
    <2>2. \A n \in Nums : n <= 2 => [NoEntry EXCEPT !.id = n, !.reg = n] \in Entries
      BY <2>1, Nobody DEF Entries
    <2> QED
      BY <2>2, Nobody, Zenon DEF LoopInit
  <1>3. KnownIsHeld
    <2> SUFFICES ASSUME NEW n \in Nums PROVE Paired(kernel[n], handlers[n])
      BY DEF KnownIsHeld
    <2>1. CASE n <= 2
      <3>1. kernel[n] = [Closed EXCEPT !.id = n, !.known = TRUE, !.armed = TRUE]
        BY <2>1, Zenon DEF LoopInit
      <3>2. handlers[n] = [NoEntry EXCEPT !.id = n, !.reg = n]
        BY <2>1, Zenon DEF LoopInit
      <3>3. kernel[n].id = n /\ handlers[n].id = n /\ handlers[n].reg = n
        BY <3>1, <3>2, Nobody DEF LoopSlots, Entries
      <3> QED
        BY <3>3, LoopConstants DEF Paired
    <2>2. CASE ~(n <= 2)
      BY <2>2, Nobody DEF LoopInit, Paired
    <2> QED
      BY <2>1, <2>2
  <1>4. batch \in Seq(LoopEvents) /\ RaisedForHolder
    <2>1. batch = <<>>
      BY Zenon DEF LoopInit
    <2> QED
      BY <2>1 DEF RaisedForHolder
  <1>5. /\ seq \in 0 .. MaxRegs /\ at \in 0 .. MaxRegs /\ at <= seq
        /\ call \in [num : Nums \cup {0}, raised : 0 .. MaxRegs, entry : Entries]
        /\ ~InCall /\ running \in BOOLEAN /\ et \in BOOLEAN
        /\ signal \in [waits : BOOLEAN, stops : 0 .. MaxStops]
    <2>1. /\ seq = 2 /\ at = 0 /\ call = NoCall /\ running = TRUE /\ et \in BOOLEAN
          /\ signal = [waits |-> FALSE, stops |-> 0]
      BY Zenon DEF LoopInit
    <2> QED
      BY <2>1, Nobody, LoopConstants DEF InCall
  <1> QED
    BY <1>1, <1>2, <1>3, <1>4, <1>5 DEF LoopInv, LoopTypeOK, CalledForItsOwn, LoopSlots, LoopEvents

LEMMA LoopNextKeeps == LoopInv /\ [LoopNext]_elVars => LoopInv'
  <1> SUFFICES ASSUME LoopInv, [LoopNext]_elVars PROVE LoopInv'
    OBVIOUS
  <1>1. CASE UNCHANGED elVars
    BY <1>1 DEF elVars, LoopInv, LoopTypeOK, KnownIsHeld, RaisedForHolder, RaisedFor, CalledForItsOwn,
                InCall
  <1>2. CASE Poll \/ DispatchSignal \/ Skip \/ Dispatch \/ Abandon
    BY <1>2, PollKeeps, DispatchSignalKeeps, SkipKeeps, DispatchKeeps, AbandonKeeps
  <1>3. ASSUME NEW kind \in Kinds, Register(kind) PROVE LoopInv'
    BY <1>3, RegisterKeeps
  <1>4. ASSUME NEW n \in Nums, LetGo(n) \/ Again(n) \/ CloseUnder(n) \/ Modify(n) \/ Input(n)
        PROVE  LoopInv'
    BY <1>4, LetGoKeeps, AgainKeeps, CloseUnderKeeps, ModifyKeeps, InputKeeps
  <1>5. CASE Drain \/ Stop \/ Returns \/ TimerReturns
    BY <1>5, DrainKeeps, StopKeeps, ReturnsKeeps, TimerReturnsKeeps
  <1>6. ASSUME NEW shuts \in BOOLEAN, Throws(shuts) PROVE LoopInv'
    BY <1>6, ThrowsKeeps
  <1>7. CASE Signal \/ RunAgain
    BY <1>7, OutsideKeeps
  <1> QED
    BY <1>1, <1>2, <1>3, <1>4, <1>5, <1>6, <1>7 DEF LoopNext

\* The invariant of the loop: what epoll knows has its entry, and each event still
\* in the batch is for who has the number's entry, or for nobody (poll_once).
THEOREM LoopInvariant == LoopSpec => []LoopInv
  BY LoopBegins, LoopNextKeeps, PTL DEF LoopSpec

\* The state of the loop keeps its type, a batch of events and all.
THEOREM LoopTypeCorrect == LoopSpec => []LoopTypeOK
  <1>1. LoopInv => LoopTypeOK
    BY DEF LoopInv
  <1> QED
    BY LoopInvariant, <1>1, PTL

\* A handler is called for what was raised for its own descriptor, however many
\* numbers were closed and given out again before it in the batch (poll_once, T619).
THEOREM CalledForItsOwnHolds == LoopSpec => []CalledForItsOwn
  <1>1. LoopInv => CalledForItsOwn
    BY DEF LoopInv
  <1> QED
    BY LoopInvariant, <1>1, PTL

-----------------------------------------------------------------------------
(* The TCP client under the protocol clients.                              *)

T == INSTANCE TcpClient

\* A TCP client when a method of it has returned, and its owner is to be told.
TcpStates ==
    [ st : {"Idle", "Connecting", "TlsHandshake", "Connected", "Closed", "Error"},
      fd : BOOLEAN, watched : BOOLEAN, out : BOOLEAN, connect : BOOLEAN,
      idle : BOOLEAN, gone : BOOLEAN, tls : BOOLEAN, ct : BOOLEAN, it : BOOLEAN,
      ev : {"none", "connect", "close", "error"} ]

LEMMA TcpRecordsAreStates == T!TcpRecords \subseteq TcpStates
  BY DEF T!TcpRecords, TcpStates

LEMMA TcpFreshTyped ==
    ASSUME NEW tls \in BOOLEAN, NEW ct \in BOOLEAN, NEW it \in BOOLEAN
    PROVE  T!TcpFresh(tls, ct, it) \in T!TcpRecords
  BY DEF T!TcpFresh, T!TcpRecords

\* A method says who is told, and is in one of the states; what of it the owner
\* has taken notice of is a record.
LEMMA TcpParts ==
    ASSUME NEW t \in TcpStates
    PROVE  /\ T!TcpHeard(t) \in T!TcpRecords
           /\ T!TcpCleanup(t) \in TcpStates
           /\ T!TcpError(t) \in TcpStates
           /\ T!ResetIdle(t) \in TcpStates
           /\ T!TcpClose(t) \in TcpStates
           /\ T!Watch(t) \in TcpStates
  <1>1. T!TcpHeard(t) \in T!TcpRecords
    BY DEF T!TcpHeard, T!TcpRecords, TcpStates
  <1>2. T!TcpCleanup(t) \in TcpStates
    BY DEF T!TcpCleanup, TcpStates
  <1>3. T!TcpError(t) \in TcpStates
    BY DEF T!TcpCleanup, T!TcpError, TcpStates
  <1>4. T!ResetIdle(t) \in TcpStates
    BY DEF T!ResetIdle, TcpStates
  <1>5. T!TcpClose(t) \in TcpStates
    <2>1. [T!TcpCleanup(t) EXCEPT !.st = "Closed", !.ev = "close"] \in TcpStates
      BY <1>2 DEF TcpStates
    <2> QED
      BY <2>1 DEF T!TcpClose
  <1>6. T!Watch(t) \in TcpStates
    BY DEF T!TcpCleanup, T!TcpError, T!Watch, TcpStates
  <1> QED
    BY <1>1, <1>2, <1>3, <1>4, <1>5, <1>6

LEMMA OnConnectedTyped == ASSUME NEW t \in TcpStates PROVE T!OnConnected(t) \in TcpStates
  <1> DEFINE u == [t EXCEPT !.connect = FALSE, !.st = "Connected"]
             v == IF u.watched THEN T!Watch(u) ELSE [u EXCEPT !.watched = TRUE]
  <1>1. u \in TcpStates
    BY DEF TcpStates
  <1> HIDE DEF u
  <1>2. v \in TcpStates
    BY <1>1, TcpParts DEF TcpStates
  <1>3. T!OnConnected(t) = IF v.st = "Error" THEN v ELSE [T!ResetIdle(v) EXCEPT !.ev = "connect"]
    BY DEF T!OnConnected, u, v
  <1> HIDE DEF v
  <1>4. T!ResetIdle(v) \in TcpStates
    BY <1>2, TcpParts
  <1>5. [T!ResetIdle(v) EXCEPT !.ev = "connect"] \in TcpStates
    BY <1>4 DEF TcpStates
  <1> QED
    BY <1>2, <1>3, <1>5

LEMMA TcpConnectTyped ==
    ASSUME NEW t \in TcpStates, NEW how \in T!Hows
    PROVE  T!TcpConnect(t, how) \in TcpStates
  <1> DEFINE u == [T!TcpCleanup(t) EXCEPT !.out = FALSE]
             v == [u EXCEPT !.fd = TRUE, !.st = "Connecting"]
             w == [v EXCEPT !.watched = TRUE, !.connect = t.ct]
  <1>1. T!TcpCleanup(t) \in TcpStates
    BY TcpParts
  <1>2. u \in TcpStates
    BY <1>1 DEF TcpStates
  <1>3. T!TcpConnect(t, how) \in {T!TcpError(t), T!TcpError(u), T!OnConnected(v), w}
    BY DEF T!TcpConnect, T!Hows
  <1> HIDE DEF u
  <1>4. v \in TcpStates
    BY <1>2 DEF TcpStates
  <1> HIDE DEF v
  <1>5. t.ct \in BOOLEAN
    BY DEF TcpStates
  <1>6. w \in TcpStates
    BY <1>4, <1>5 DEF TcpStates
  <1> HIDE DEF w
  <1>7. /\ T!TcpError(t) \in TcpStates
        /\ T!TcpError(u) \in TcpStates
        /\ T!OnConnected(v) \in TcpStates
    BY <1>2, <1>4, TcpParts, OnConnectedTyped
  <1> QED
    BY <1>3, <1>6, <1>7

LEMMA TcpSendTyped == ASSUME NEW t \in TcpStates PROVE T!TcpSend(t) \in TcpStates
  <1>1. [t EXCEPT !.out = TRUE] \in TcpStates
    BY DEF TcpStates
  <1> QED
    BY <1>1, TcpParts DEF T!TcpSend

LEMMA StartTlsTyped == ASSUME NEW t \in TcpStates PROVE T!StartTls(t) \in TcpStates
  <1>1. [t EXCEPT !.tls = TRUE, !.st = "TlsHandshake"] \in TcpStates
    BY DEF TcpStates
  <1> QED
    BY <1>1, TcpParts DEF T!StartTls

LEMMA TcpOnTyped ==
    ASSUME NEW t \in TcpStates, NEW e \in T!TcpEvents
    PROVE  T!TcpOn(t, e) \in TcpStates
  <1> DEFINE u == [t EXCEPT !.connect = FALSE]
             v == [u EXCEPT !.st = "TlsHandshake"]
             d == [T!ResetIdle(t) EXCEPT !.out = FALSE]
  <1>1. T!ResetIdle(t) \in TcpStates
    BY TcpParts
  <1>2. T!TcpOn(t, e) \in {T!TcpError(t), T!OnConnected(t), T!OnConnected(u), T!Watch(v),
                           T!Watch(d), T!TcpClose(T!ResetIdle(t))}
    BY DEF T!TcpOn, T!TcpConnectResult, T!TlsStep, T!TcpReading, T!TcpDrained
  <1>3. u \in TcpStates /\ d \in TcpStates
    BY <1>1 DEF TcpStates
  <1> HIDE DEF u, d
  <1>4. v \in TcpStates
    BY <1>3 DEF TcpStates
  <1> HIDE DEF v
  <1>5. /\ T!TcpError(t) \in TcpStates
        /\ T!OnConnected(t) \in TcpStates
        /\ T!OnConnected(u) \in TcpStates
        /\ T!Watch(v) \in TcpStates
        /\ T!Watch(d) \in TcpStates
        /\ T!TcpClose(T!ResetIdle(t)) \in TcpStates
    BY <1>1, <1>3, <1>4, TcpParts, OnConnectedTyped
  <1> QED
    BY <1>2, <1>5

\* A connection that is over: its owner is told, and nothing of it is left in the loop.
TcpOver(t) ==
    /\ t.ev \in {"close", "error"} /\ t.st \in {"Closed", "Error"}
    /\ ~t.fd /\ ~t.connect /\ ~t.idle /\ ~t.watched /\ ~t.gone

Failed(t) == TcpOver(t) /\ t.ev = "error" /\ t.st = "Error"

LEMMA TcpEnds ==
    ASSUME NEW t \in TcpStates
    PROVE  /\ Failed(T!TcpError(t))
           /\ T!TcpClose(t) = t \/ (TcpOver(T!TcpClose(t)) /\ T!TcpClose(t).ev = "close")
           /\ T!Watch(t) = t \/ Failed(T!Watch(t))
  <1>1. ASSUME NEW s \in TcpStates PROVE Failed(T!TcpError(s))
    BY DEF Failed, TcpOver, T!TcpError, T!TcpCleanup, TcpStates
  <1>2. T!TcpClose(t) = t \/ (TcpOver(T!TcpClose(t)) /\ T!TcpClose(t).ev = "close")
    BY DEF TcpOver, T!TcpClose, T!TcpCleanup, TcpStates
  <1>3. [t EXCEPT !.watched = FALSE] \in TcpStates
    BY DEF TcpStates
  <1> QED
    BY <1>1, <1>2, <1>3 DEF T!Watch

LEMMA OnConnectedEnds ==
    ASSUME NEW t \in TcpStates
    PROVE  \/ T!OnConnected(t).ev = "connect" /\ T!OnConnected(t).st = "Connected"
           \/ Failed(T!OnConnected(t))
  <1> DEFINE u == [t EXCEPT !.connect = FALSE, !.st = "Connected"]
             v == IF u.watched THEN T!Watch(u) ELSE [u EXCEPT !.watched = TRUE]
             w == [T!ResetIdle(v) EXCEPT !.ev = "connect"]
  <1>1. u \in TcpStates /\ u.st = "Connected"
    BY DEF TcpStates
  <1> HIDE DEF u
  <1>2. /\ v \in TcpStates
        /\ v.st = "Connected" \/ Failed(v)
    BY <1>1, TcpParts, TcpEnds DEF TcpStates
  <1>3. T!OnConnected(t) = IF v.st = "Error" THEN v ELSE w
    BY DEF T!OnConnected, u, v, w
  <1> HIDE DEF v
  <1>4. T!ResetIdle(v) \in TcpStates /\ T!ResetIdle(v).st = v.st
    BY <1>2, TcpParts DEF T!ResetIdle, TcpStates
  <1>5. w.ev = "connect" /\ w.st = v.st
    BY <1>4 DEF TcpStates
  <1> HIDE DEF w
  <1> QED
    BY <1>2, <1>3, <1>5 DEF Failed

\* What an event makes of a connection: it is over, it is connected, or, with nobody
\* told, it is connected only if it was before.
LEMMA TcpOnEnds ==
    ASSUME NEW t \in T!TcpRecords, NEW e \in T!TcpEvents
    PROVE  LET s == T!TcpOn(t, e)
           IN  \/ TcpOver(s)
               \/ s.ev = "connect" /\ s.st = "Connected"
               \/ s.ev = "none" /\ s.st \in {t.st, "TlsHandshake"}
  <1> DEFINE u == [t EXCEPT !.connect = FALSE]
             v == [u EXCEPT !.st = "TlsHandshake"]
             d == [T!ResetIdle(t) EXCEPT !.out = FALSE]
             i == T!ResetIdle(t)
             Good(s) == \/ TcpOver(s)
                        \/ s.ev = "connect" /\ s.st = "Connected"
                        \/ s.ev = "none" /\ s.st \in {t.st, "TlsHandshake"}
  <1>0. t \in TcpStates /\ t.ev = "none"
    BY TcpRecordsAreStates DEF T!TcpRecords
  <1>1. T!TcpOn(t, e) \in {T!TcpError(t), T!OnConnected(t), T!OnConnected(u), T!Watch(v),
                           T!Watch(d), T!TcpClose(i)}
    BY DEF T!TcpOn, T!TcpConnectResult, T!TlsStep, T!TcpReading, T!TcpDrained
  <1>2. i \in TcpStates /\ i.ev = "none" /\ i.st = t.st
    BY <1>0 DEF T!ResetIdle, TcpStates
  <1>3. d \in TcpStates /\ d.ev = "none" /\ d.st = t.st
    BY <1>0 DEF T!ResetIdle, TcpStates
  <1>4. u \in TcpStates /\ u.ev = "none" /\ u.st = t.st
    BY <1>0 DEF TcpStates
  <1>5. v \in TcpStates /\ v.ev = "none" /\ v.st = "TlsHandshake"
    BY <1>0 DEF TcpStates
  <1> HIDE DEF i, d, u, v
  <1>6. Good(T!TcpError(t)) /\ Good(T!OnConnected(t)) /\ Good(T!OnConnected(u))
    BY <1>0, <1>4, TcpEnds, OnConnectedEnds DEF Failed
  <1>7. Good(T!Watch(v)) /\ Good(T!Watch(d)) /\ Good(T!TcpClose(i))
    BY <1>2, <1>3, <1>5, TcpEnds DEF Failed
  <1> QED
    BY <1>1, <1>6, <1>7

\* The same of connect() and of a client that is not connected.
LEMMA TcpConnectEnds ==
    ASSUME NEW t \in T!TcpRecords, NEW how \in T!Hows
    PROVE  LET s == T!TcpConnect(t, how)
           IN  \/ TcpOver(s)
               \/ s.ev = "connect" /\ s.st = "Connected"
               \/ s.ev = "none" /\ s.st = "Connecting"
  <1> DEFINE u == [T!TcpCleanup(t) EXCEPT !.out = FALSE]
             v == [u EXCEPT !.fd = TRUE, !.st = "Connecting"]
             w == [v EXCEPT !.watched = TRUE, !.connect = t.ct]
             Good(s) == \/ TcpOver(s)
                        \/ s.ev = "connect" /\ s.st = "Connected"
                        \/ s.ev = "none" /\ s.st = "Connecting"
  <1>1. t \in TcpStates /\ T!TcpCleanup(t) \in TcpStates /\ T!TcpCleanup(t).ev = "none"
    BY TcpParts, TcpRecordsAreStates DEF T!TcpCleanup, T!TcpRecords
  <1>2. u \in TcpStates /\ u.ev = "none"
    BY <1>1 DEF TcpStates
  <1>3. T!TcpConnect(t, how) \in {T!TcpError(t), T!TcpError(u), T!OnConnected(v), w}
    BY DEF T!TcpConnect, T!Hows
  <1> HIDE DEF u
  <1>4. v \in TcpStates /\ v.ev = "none" /\ v.st = "Connecting"
    BY <1>2 DEF TcpStates
  <1> HIDE DEF v
  <1>5. Good(w)
    BY <1>4 DEF TcpStates
  <1> HIDE DEF w
  <1>6. Good(T!TcpError(t)) /\ Good(T!TcpError(u)) /\ Good(T!OnConnected(v))
    BY <1>1, <1>2, <1>4, TcpEnds, OnConnectedEnds DEF Failed
  <1> QED
    BY <1>3, <1>5, <1>6

\* The loop has nothing for a connection that is over.
LEMMA OverIsOver ==
    ASSUME NEW t \in TcpStates, ~t.fd, ~t.connect, ~t.idle, NEW e \in T!TcpEvents
    PROVE  ~T!TcpCan(t, e)
  BY DEF T!TcpCan, T!Awake, T!TcpEvents

-----------------------------------------------------------------------------
(* HttpClient: who is told of a request.                                   *)

\* The TCP client of HttpClient is that of the section before.
LEMMA HttpTcp ==
    /\ H!TcpRecords = T!TcpRecords /\ H!Hows = T!Hows /\ H!TcpEvents = T!TcpEvents
    /\ \A a, b, c : H!TcpFresh(a, b, c) = T!TcpFresh(a, b, c)
    /\ \A t : /\ H!TcpHeard(t) = T!TcpHeard(t)
              /\ H!TcpSend(t) = T!TcpSend(t)
              /\ H!TcpClose(t) = T!TcpClose(t)
              /\ H!TcpReading(t) = T!TcpReading(t)
              /\ \A how : H!TcpConnect(t, how) = T!TcpConnect(t, how)
              /\ \A e : H!TcpOn(t, e) = T!TcpOn(t, e)
  BY DEF H!TcpRecords, T!TcpRecords, H!Hows, T!Hows, H!TcpEvents, T!TcpEvents, H!TcpFresh,
         T!TcpFresh, H!TcpHeard, T!TcpHeard, H!TcpSend, T!TcpSend, H!TcpClose, T!TcpClose,
         H!TcpReading, T!TcpReading, H!TcpConnect, T!TcpConnect, H!TcpOn, T!TcpOn, H!Watch,
         T!Watch, H!TcpError, T!TcpError, H!TcpCleanup, T!TcpCleanup, H!ResetIdle, T!ResetIdle,
         H!OnConnected, T!OnConnected, H!TcpConnectResult, T!TcpConnectResult, H!TlsStep,
         T!TlsStep, H!TcpDrained, T!TcpDrained

HttpHeld ==
    [tcp : T!TcpRecords, broken : BOOLEAN, done : BOOLEAN, held : BOOLEAN,
     pieces : 0 .. MaxPieces]

HttpTimers == {H!Timer("refusal", r, 1) : r \in Req} \cup {H!Timer("sweep", r, 0) : r \in Req}

HttpState ==
    /\ pending \in [Req -> HttpHeld]
    /\ timers \subseteq HttpTimers
    /\ told \in [Req -> 0 .. 1]
    /\ refused \subseteq Req
    /\ client \in {"live", "gone"}

\* A request that is going on is not settled and was not refused; one that was
\* refused, and whose timer still waits, has not been told.  A client that is gone has
\* neither.
HttpUntold(r) ==
    /\ pending[r].held => r \notin refused
    /\ pending[r].held /\ ~pending[r].done => told[r] = 0
    /\ H!Timer("refusal", r, 1) \in timers => r \in refused /\ told[r] = 0
    /\ client = "gone" => ~pending[r].held /\ H!Timer("refusal", r, 1) \notin timers

HttpInv == HttpState /\ \A r \in Req : HttpUntold(r)

LEMMA HttpAbsent == H!Absent \in HttpHeld /\ ~H!Absent.held
  <1> DEFINE fresh == H!TcpFresh(FALSE, FALSE, FALSE)
  <1>1. fresh \in T!TcpRecords
    BY HttpTcp, TcpFreshTyped
  <1>2. 0 \in 0 .. MaxPieces
    BY SocketsConstants
  <1>3. H!Absent = [tcp |-> fresh, broken |-> FALSE, done |-> FALSE, held |-> FALSE, pieces |-> 0]
    BY DEF H!Absent
  <1> HIDE DEF fresh
  <1> QED
    BY <1>1, <1>2, <1>3 DEF HttpHeld

LEMMA HttpBegins == H!HttpClientInit => HttpInv
  <1> SUFFICES ASSUME H!HttpClientInit PROVE HttpInv
    OBVIOUS
  <1> USE DEF H!HttpClientInit
  <1>1. HttpState
    BY HttpAbsent DEF HttpState
  <1>2. \A r \in Req : HttpUntold(r)
    BY HttpAbsent DEF HttpUntold
  <1> QED
    BY <1>1, <1>2 DEF HttpInv

\* A timer is of one kind and one request.
LEMMA TimersDiffer ==
    /\ \A r, q : H!Timer("refusal", r, 1) = H!Timer("refusal", q, 1) => r = q
    /\ \A r, q : H!Timer("refusal", r, 1) # H!Timer("sweep", q, 0)
    /\ \A t \in HttpTimers :
         H!Fires(t) => t.what = "refusal" /\ t.req \in Req /\ t = H!Timer("refusal", t.req, 1)
  BY DEF H!Timer, H!Fires, HttpTimers

\* The record of a request is replaced, and its user is told if it was not settled.
LEMMA SettleTells ==
    ASSUME HttpInv, NEW r \in Req, NEW p \in HttpHeld, H!Settle(r, p),
           client = "live", r \notin refused,
           ~p.done => told[r] = 0, UNCHANGED <<refused, client>>
    PROVE  HttpInv'
  <1>1. [p EXCEPT !.done = TRUE] \in HttpHeld /\ [p EXCEPT !.done = TRUE].done
    BY DEF HttpHeld
  <1>2. PICK q \in HttpHeld : pending' = [pending EXCEPT ![r] = q] /\ q.done
    BY <1>1 DEF H!Settle
  <1>3. told' \in [Req -> 0 .. 1] /\ \A g \in Req : g # r => told'[g] = told[g]
    BY DEF H!Settle, HttpInv, HttpState
  <1>4. timers' \subseteq HttpTimers /\ timers' \subseteq timers \cup {H!Timer("sweep", r, 0)}
    BY DEF H!Settle, HttpInv, HttpState, HttpTimers
  <1>5. HttpState'
    BY <1>2, <1>3, <1>4 DEF HttpInv, HttpState
  <1>6. H!Timer("refusal", r, 1) \notin timers
    BY DEF HttpInv, HttpUntold
  <1>7. ASSUME NEW g \in Req PROVE HttpUntold(g)'
    BY <1>2, <1>3, <1>4, <1>6, TimersDiffer DEF HttpInv, HttpState, HttpUntold
  <1> QED
    BY <1>5, <1>7 DEF HttpInv

\* The record of a request that goes on is replaced, and nobody is told.
LEMMA RecordIsKept ==
    ASSUME HttpInv, NEW r \in Req, NEW p \in HttpHeld, pending' = [pending EXCEPT ![r] = p],
           client = "live", r \notin refused,
           ~p.done => told[r] = 0,
           UNCHANGED <<told, timers, refused, client>>
    PROVE  HttpInv'
  <1>1. HttpState'
    BY DEF HttpInv, HttpState
  <1>2. ASSUME NEW g \in Req PROVE HttpUntold(g)'
    BY DEF HttpInv, HttpState, HttpUntold
  <1> QED
    BY <1>1, <1>2 DEF HttpInv

LEMMA HandleTells ==
    ASSUME HttpInv, NEW r \in Req, NEW p \in HttpHeld, NEW t \in TcpStates,
           H!Handle(r, p, t), client = "live", r \notin refused,
           ~p.done => told[r] = 0,
           UNCHANGED <<refused, client>>
    PROVE  HttpInv'
  <1> DEFINE u == IF t.ev = "connect" THEN H!TcpSend(H!TcpHeard(t)) ELSE t
             q == [p EXCEPT !.tcp = H!TcpHeard(u)]
  <1>1. u \in TcpStates
    BY HttpTcp, TcpParts, TcpSendTyped, TcpRecordsAreStates
  <1>2. IF u.ev = "none"
        THEN pending' = [pending EXCEPT ![r] = q] /\ UNCHANGED <<told, timers>>
        ELSE H!Settle(r, q)
    BY DEF H!Handle
  <1> HIDE DEF u
  <1>3. H!TcpHeard(u) \in T!TcpRecords
    BY <1>1, HttpTcp, TcpParts
  <1>4. q \in HttpHeld /\ q.done = p.done
    BY <1>3 DEF HttpHeld
  <1> HIDE DEF q
  <1>5. CASE u.ev = "none"
    BY <1>2, <1>4, <1>5, RecordIsKept
  <1>6. CASE u.ev # "none"
    BY <1>2, <1>4, <1>6, SettleTells
  <1> QED
    BY <1>5, <1>6

LEMMA RefuseTells == ASSUME NEW r \in Req PROVE HttpInv /\ H!Refuse(r) => HttpInv'
  <1> SUFFICES ASSUME HttpInv, H!Refuse(r) PROVE HttpInv'
    OBVIOUS
  <1> USE DEF H!Refuse, HttpInv
  <1>1. HttpState'
    BY DEF HttpState, HttpTimers
  <1>2. ~pending[r].held /\ told[r] = 0
    BY DEF H!Asked, HttpState
  <1>3. ASSUME NEW g \in Req PROVE HttpUntold(g)'
    BY <1>2, TimersDiffer DEF HttpUntold, HttpState
  <1> QED
    BY <1>1, <1>3

LEMMA RequestTells ==
    ASSUME NEW r \in Req, NEW how \in T!Hows, NEW tls \in BOOLEAN, NEW timeout \in BOOLEAN,
           HttpInv, H!Request(r, how, tls, timeout)
    PROVE  HttpInv'
  <1> DEFINE t == H!TcpConnect(H!TcpFresh(tls, timeout, timeout), how)
             p == [H!Absent EXCEPT !.held = TRUE]
  <1>1. H!TcpFresh(tls, timeout, timeout) \in TcpStates
    BY HttpTcp, TcpFreshTyped, TcpRecordsAreStates
  <1>2. t \in TcpStates
    BY <1>1, HttpTcp, TcpConnectTyped
  <1>3. p \in HttpHeld
    BY HttpAbsent DEF HttpHeld
  <1>4. /\ H!Handle(r, p, t) /\ UNCHANGED <<refused, client>>
        /\ client = "live" /\ r \notin refused /\ told[r] = 0
    BY DEF H!Request, H!Asked, HttpInv, HttpState
  <1> HIDE DEF t, p
  <1> QED
    BY <1>2, <1>3, <1>4, HandleTells

LEMMA NewsTells ==
    ASSUME NEW r \in Req, NEW e \in T!TcpEvents, HttpInv, H!News(r, e)
    PROVE  HttpInv'
  <1>1. pending[r] \in HttpHeld /\ pending[r].tcp \in TcpStates
    BY TcpRecordsAreStates DEF HttpInv, HttpState, HttpHeld
  <1>2. H!TcpOn(pending[r].tcp, e) \in TcpStates
    BY <1>1, HttpTcp, TcpOnTyped
  <1>3. client = "live" /\ r \notin refused /\ (~pending[r].done => told[r] = 0)
    BY DEF H!News, HttpInv, HttpUntold, HttpState
  <1>4. H!Handle(r, pending[r], H!TcpOn(pending[r].tcp, e)) /\ UNCHANGED <<refused, client>>
    BY DEF H!News
  <1> QED
    BY <1>1, <1>2, <1>3, <1>4, HandleTells

LEMMA ReadTells ==
    ASSUME NEW r \in Req, NEW what \in {"piece", "end", "garbage"}, HttpInv,
           H!Read(r, what)
    PROVE  HttpInv'
  <1> DEFINE p == [pending[r] EXCEPT !.tcp = H!TcpReading(@)]
             q == [p EXCEPT !.tcp = H!TcpHeard(H!TcpClose(@))]
             k == [p EXCEPT !.broken = @ \/ what = "garbage", !.pieces = @ + 1]
  <1>1. pending[r] \in HttpHeld /\ pending[r].tcp \in TcpStates
    BY TcpRecordsAreStates DEF HttpInv, HttpState, HttpHeld
  <1>2. client = "live" /\ r \notin refused /\ (~pending[r].done => told[r] = 0)
    BY DEF H!Read, HttpInv, HttpUntold, HttpState
  <1>3. H!TcpReading(pending[r].tcp) \in T!TcpRecords
    <2>1. pending[r].tcp \in T!TcpRecords
      BY <1>1 DEF HttpHeld
    <2> QED
      BY <2>1 DEF H!TcpReading, H!ResetIdle, T!TcpRecords
  <1>4. p \in HttpHeld /\ p.done = pending[r].done
    BY <1>1, <1>3 DEF HttpHeld
  <1>5. /\ p.pieces < MaxPieces /\ UNCHANGED <<refused, client>>
        /\ \/ H!Settle(r, q) /\ ~p.done
           \/ pending' = [pending EXCEPT ![r] = k] /\ UNCHANGED <<told, timers>>
    BY DEF H!Read
  <1> HIDE DEF p
  <1>6. H!TcpHeard(H!TcpClose(p.tcp)) \in T!TcpRecords
    BY <1>4, HttpTcp, TcpParts, TcpRecordsAreStates DEF HttpHeld
  <1>7. q \in HttpHeld /\ q.done = p.done
    BY <1>4, <1>6 DEF HttpHeld
  <1>8. k \in HttpHeld /\ k.done = p.done
    <2>1. p.pieces + 1 \in 0 .. MaxPieces
      BY <1>4, <1>5, SocketsConstants DEF HttpHeld
    <2>2. (p.broken \/ what = "garbage") \in BOOLEAN
      OBVIOUS
    <2> QED
      BY <1>4, <2>1, <2>2 DEF HttpHeld
  <1> HIDE DEF q, k
  <1> QED
    BY <1>2, <1>4, <1>5, <1>7, <1>8, SettleTells, RecordIsKept

LEMMA TimerTells == ASSUME NEW t \in timers PROVE HttpInv /\ H!TimerFires(t) => HttpInv'
  <1> SUFFICES ASSUME HttpInv, H!TimerFires(t) PROVE HttpInv'
    OBVIOUS
  <1>1. t.what = "refusal" /\ t.req \in Req /\ t = H!Timer("refusal", t.req, 1)
    BY TimersDiffer DEF H!TimerFires, HttpInv, HttpState
  <1>2. t.req \in refused /\ told[t.req] = 0
    BY <1>1 DEF HttpInv, HttpUntold
  <1>3. /\ timers' = timers \ {t} /\ UNCHANGED <<pending, refused, client>>
        /\ told' = [told EXCEPT ![t.req] = @ + 1]
    BY <1>1 DEF H!TimerFires
  <1>4. HttpState'
    BY <1>1, <1>2, <1>3 DEF HttpInv, HttpState
  <1>5. ASSUME NEW g \in Req PROVE HttpUntold(g)'
    BY <1>1, <1>2, <1>3 DEF HttpInv, HttpState, HttpUntold
  <1> QED
    BY <1>4, <1>5 DEF HttpInv

LEMMA DestroyTells == HttpInv /\ H!Destroy => HttpInv'
  <1> SUFFICES ASSUME HttpInv, H!Destroy PROVE HttpInv'
    OBVIOUS
  <1>1. /\ timers' \subseteq timers /\ pending' = [r \in Req |-> H!Absent]
        /\ \A t \in timers' : t.what # "refusal"
    BY DEF H!Destroy
  <1>2. HttpState'
    BY <1>1, HttpAbsent DEF H!Destroy, HttpInv, HttpState
  <1>3. ASSUME NEW g \in Req PROVE HttpUntold(g)'
    BY <1>1, HttpAbsent DEF H!Destroy, HttpInv, HttpUntold, H!Timer
  <1> QED
    BY <1>2, <1>3 DEF HttpInv

LEMMA HttpNextKeeps == HttpInv /\ [H!HttpClientNext]_(H!hcVars) => HttpInv'
  <1> SUFFICES ASSUME HttpInv, [H!HttpClientNext]_(H!hcVars) PROVE HttpInv'
    OBVIOUS
  <1>1. CASE \E r \in Req : H!Refuse(r)
    BY <1>1, RefuseTells
  <1>2. CASE \E r \in Req, how \in H!Hows, tls \in BOOLEAN, timeout \in BOOLEAN :
               H!Request(r, how, tls, timeout)
    BY <1>2, RequestTells, HttpTcp
  <1>3. CASE \E r \in Req, e \in H!TcpEvents : H!News(r, e)
    BY <1>3, NewsTells, HttpTcp
  <1>4. CASE \E r \in Req, what \in {"piece", "end", "garbage"} : H!Read(r, what)
    BY <1>4, ReadTells
  <1>5. CASE \E t \in timers : H!TimerFires(t)
    BY <1>5, TimerTells
  <1>6. CASE H!Destroy
    BY <1>6, DestroyTells
  <1>7. CASE UNCHANGED H!hcVars
    <2>1. UNCHANGED <<pending, timers, told, refused, client>>
      BY <1>7 DEF H!hcVars
    <2>2. HttpState'
      BY <2>1 DEF HttpInv, HttpState
    <2>3. ASSUME NEW g \in Req PROVE HttpUntold(g)'
      BY <2>1 DEF HttpInv, HttpUntold
    <2> QED
      BY <2>2, <2>3 DEF HttpInv
  <1> QED
    BY <1>1, <1>2, <1>3, <1>4, <1>5, <1>6, <1>7 DEF H!HttpClientNext

LEMMA HttpPromises == HttpInv => H!ToldOnce /\ H!HttpClientTypeOK
  <1> SUFFICES ASSUME HttpInv PROVE H!ToldOnce /\ H!HttpClientTypeOK
    OBVIOUS
  <1>1. H!ToldOnce
    BY DEF H!ToldOnce, HttpInv, HttpState
  <1>2. told \in [Req -> 0 .. 2]
    BY DEF HttpInv, HttpState
  <1>3. H!HttpClientTypeOK
    BY <1>2, HttpTcp DEF H!HttpClientTypeOK, HttpInv, HttpState, HttpHeld, HttpTimers
  <1> QED
    BY <1>1, <1>3

LEMMA GoneIsQuiet ==
    HttpInv /\ [H!HttpClientNext]_(H!hcVars) => (client = "gone" => UNCHANGED told)
  <1> SUFFICES ASSUME HttpInv, [H!HttpClientNext]_(H!hcVars), client = "gone"
               PROVE  UNCHANGED told
    OBVIOUS
  <1>1. \A r \in Req : ~pending[r].held /\ H!Timer("refusal", r, 1) \notin timers
    BY DEF HttpInv, HttpUntold
  <1>2. ASSUME NEW t \in timers PROVE ~H!Fires(t)
    BY <1>1, TimersDiffer DEF HttpInv, HttpState
  <1> QED
    BY <1>1, <1>2 DEF H!HttpClientNext, H!Refuse, H!Request, H!News, H!Read, H!TimerFires,
       H!Destroy, H!hcVars

-----------------------------------------------------------------------------
(* HttpProxy: what a caller is told of a forward.                          *)

LEMMA ProxyTcp ==
    /\ X!TcpRecords = T!TcpRecords /\ X!Hows = T!Hows /\ X!TcpEvents = T!TcpEvents
    /\ \A a, b, c : X!TcpFresh(a, b, c) = T!TcpFresh(a, b, c)
    /\ \A t : /\ X!TcpHeard(t) = T!TcpHeard(t)
              /\ X!TcpSend(t) = T!TcpSend(t)
              /\ X!TcpClose(t) = T!TcpClose(t)
              /\ X!TcpReading(t) = T!TcpReading(t)
              /\ \A how : X!TcpConnect(t, how) = T!TcpConnect(t, how)
              /\ \A e : X!TcpOn(t, e) = T!TcpOn(t, e) /\ X!TcpCan(t, e) = T!TcpCan(t, e)
  BY DEF X!TcpRecords, T!TcpRecords, X!Hows, T!Hows, X!TcpEvents, T!TcpEvents, X!TcpFresh,
         T!TcpFresh, X!TcpHeard, T!TcpHeard, X!TcpSend, T!TcpSend, X!TcpClose, T!TcpClose,
         X!TcpReading, T!TcpReading, X!TcpConnect, T!TcpConnect, X!TcpOn, T!TcpOn, X!Watch,
         T!Watch, X!TcpError, T!TcpError, X!TcpCleanup, T!TcpCleanup, X!ResetIdle, T!ResetIdle,
         X!OnConnected, T!OnConnected, X!TcpConnectResult, T!TcpConnectResult, X!TlsStep,
         T!TlsStep, X!TcpDrained, T!TcpDrained, X!TcpCan, T!TcpCan, X!Awake, T!Awake

Context ==
    [tcp : T!TcpRecords, held : BOOLEAN, done : BOOLEAN, sent : BOOLEAN, limit : BOOLEAN,
     broken : BOOLEAN, reads : 0 .. MaxReads]

ProxyState ==
    /\ ctx \in [Fwd -> Context]
    /\ deadline \subseteq Fwd
    /\ sweep \in {"none", "0 ms"}
    /\ outcome \in [Fwd -> {<<>>} \cup {<<o>> : o \in X!Outcomes}]
    /\ reached \subseteq Fwd
    /\ proxy \in {"live", "gone"}

\* Nothing more comes of a connection that is dead.
Dead(t) == ~t.fd /\ ~t.connect /\ ~t.idle

\* Of a forward that is not sent nothing has gone out, and nothing will once it is
\* settled.
NotSent(c) == c.tcp.st # "Connected" /\ (c.done => Dead(c.tcp))

ToldTruly(f) ==
    \A i \in DOMAIN outcome[f] :
        /\ outcome[f][i][2] <=> outcome[f][i][1] # "connect"
        /\ outcome[f][i][1] = "connect" => f \notin reached /\ (ctx[f].held => ~ctx[f].sent)

Forwarding(f) ==
    /\ ctx[f].held /\ ~ctx[f].done => outcome[f] = <<>>
    /\ ctx[f].held /\ ~ctx[f].sent => NotSent(ctx[f]) /\ f \notin reached
    /\ f \in deadline => proxy = "gone" \/ (ctx[f].held /\ ctx[f].sent)
    /\ f \in reached => proxy = "gone" \/ ctx[f].held \/ outcome[f] # <<>>
    /\ proxy = "gone" => ~ctx[f].held
    /\ ToldTruly(f)

ProxyInv == ProxyState /\ \A f \in Fwd : Forwarding(f)

LEMMA NoContext == X!None \in Context /\ ~X!None.held /\ ~X!None.done /\ ~X!None.sent
  <1> DEFINE fresh == X!TcpFresh(FALSE, FALSE, FALSE)
  <1>1. fresh \in T!TcpRecords
    BY ProxyTcp, TcpFreshTyped
  <1>2. 0 \in 0 .. MaxReads
    BY SocketsConstants
  <1>3. X!None = [tcp |-> fresh, held |-> FALSE, done |-> FALSE, sent |-> FALSE,
                  limit |-> FALSE, broken |-> FALSE, reads |-> 0]
    BY DEF X!None
  <1> HIDE DEF fresh
  <1> QED
    BY <1>1, <1>2, <1>3 DEF Context

LEMMA ProxyBegins == X!HttpProxyInit => ProxyInv
  <1> SUFFICES ASSUME X!HttpProxyInit PROVE ProxyInv
    OBVIOUS
  <1> USE DEF X!HttpProxyInit
  <1>1. ProxyState
    BY NoContext DEF ProxyState
  <1>2. \A f \in Fwd : Forwarding(f)
    BY NoContext DEF Forwarding, ToldTruly
  <1> QED
    BY <1>1, <1>2 DEF ProxyInv

LEMMA OutcomesAreOne ==
    ASSUME NEW s \in {<<>>} \cup {<<o>> : o \in X!Outcomes}
    PROVE  /\ \A i \in DOMAIN s : i = 1 /\ s[i] \in X!Outcomes
           /\ s = <<>> => DOMAIN s = {}
  OBVIOUS

\* A context is replaced, and nobody is told.
LEMMA ContextKept ==
    ASSUME ProxyInv, NEW f \in Fwd, NEW c \in Context, c.held, proxy = "live",
           ctx' = [ctx EXCEPT ![f] = c], deadline' \in {deadline, deadline \cup {f}},
           reached' \in {reached, reached \cup {f}}, UNCHANGED <<sweep, outcome, proxy>>,
           ~c.done => outcome[f] = <<>>,
           c.sent => \A i \in DOMAIN outcome[f] : outcome[f][i][1] # "connect",
           ~c.sent => f \notin deadline' /\ f \notin reached' /\ NotSent(c)
    PROVE  ProxyInv'
  <1>1. ProxyState'
    BY DEF ProxyInv, ProxyState
  <1>2. ASSUME NEW g \in Fwd, g # f PROVE Forwarding(g)'
    BY <1>2 DEF ProxyInv, ProxyState, Forwarding, ToldTruly, NotSent, Dead
  <1>3. Forwarding(f)'
    BY DEF ProxyInv, ProxyState, Forwarding, ToldTruly, NotSent, Dead
  <1> QED
    BY <1>1, <1>2, <1>3 DEF ProxyInv

\* A forward is settled, its caller told, and the proxy perhaps destroyed.
LEMMA SettleIsTrue ==
    ASSUME ProxyInv, NEW f \in Fwd, NEW c \in Context, NEW o \in X!Outcomes,
           NEW destroys \in BOOLEAN, X!Settle(f, c, o, destroys), c.held, proxy = "live",
           outcome[f] = <<>>, reached' \in {reached, reached \cup {f}},
           o[2] = c.sent, o[2] <=> o[1] # "connect",
           ~c.sent => f \notin reached' /\ c.tcp.st # "Connected" /\ Dead(c.tcp)
    PROVE  ProxyInv'
  <1> DEFINE d == [c EXCEPT !.done = TRUE]
  <1>1. d \in Context /\ d.held /\ d.done /\ d.sent = c.sent /\ d.tcp = c.tcp
    BY DEF Context
  <1>2. ctx' = IF destroys THEN [g \in Fwd |-> X!None] ELSE [ctx EXCEPT ![f] = d]
    BY DEF X!Settle
  <1> HIDE DEF d
  <1>3. outcome' = [outcome EXCEPT ![f] = <<o>>]
    <2>1. outcome' = [outcome EXCEPT ![f] = Append(outcome[f], o)]
      BY DEF X!Settle
    <2>2. Append(outcome[f], o) = <<o>>
      OBVIOUS
    <2> QED
      BY <2>1, <2>2
  <1>4. /\ deadline' = deadline \ {f} /\ sweep' = "0 ms"
        /\ proxy' = IF destroys THEN "gone" ELSE proxy
    BY DEF X!Settle
  <1>5. ProxyState'
    BY <1>1, <1>2, <1>3, <1>4, NoContext DEF ProxyInv, ProxyState
  <1>6. ASSUME NEW g \in Fwd, g # f PROVE Forwarding(g)'
    BY <1>2, <1>3, <1>4, <1>6, NoContext DEF ProxyInv, ProxyState, Forwarding, ToldTruly, NotSent, Dead
  <1>7. outcome'[f] = <<o>> /\ ctx'[f] \in {X!None, d}
    BY <1>2, <1>3 DEF ProxyInv, ProxyState
  <1>8. Forwarding(f)'
    <2>1. c.sent \in BOOLEAN
      BY DEF Context
    <2>2. f \notin deadline' /\ outcome'[f] # <<>>
      <3>1. <<o>> # <<>>
        OBVIOUS
      <3> QED
        BY <1>4, <1>7, <3>1
    <2>3. ~ctx'[f].sent \/ (ctx'[f] = d /\ c.sent)
      BY <1>1, <1>7, <2>1, NoContext
    <2>4. ctx'[f].held => ctx'[f] = d /\ d.done /\ proxy' = "live"
      BY <1>1, <1>2, <1>4, <1>7, NoContext DEF ProxyInv, ProxyState
    <2>5. ToldTruly(f)'
      <3>1. \A i \in DOMAIN outcome'[f] : outcome'[f][i] = o
        BY <1>7
      <3>2. o[1] = "connect" => ~c.sent
        OBVIOUS
      <3> QED
        BY <1>1, <2>3, <3>1, <3>2 DEF ToldTruly
    <2>6. ctx'[f].held /\ ~ctx'[f].sent => NotSent(ctx[f])' /\ f \notin reached'
      <3>1. SUFFICES ASSUME ctx'[f].held, ~ctx'[f].sent PROVE NotSent(ctx[f])' /\ f \notin reached'
        OBVIOUS
      <3>2. ctx'[f] = d /\ ~c.sent
        BY <1>1, <2>4, <3>1
      <3> QED
        BY <1>1, <3>2 DEF NotSent
    <2> QED
      BY <1>1, <2>2, <2>4, <2>5, <2>6 DEF Forwarding
  <1> QED
    BY <1>5, <1>6, <1>8 DEF ProxyInv

\* A method of the connection has returned.
LEMMA HandleIsTrue ==
    ASSUME ProxyInv, NEW f \in Fwd, NEW c \in Context, NEW t \in TcpStates,
           NEW idle \in BOOLEAN, NEW destroys \in BOOLEAN,
           X!Handle(f, c, t, idle, destroys), c.held, proxy = "live",
           \/ TcpOver(t)
           \/ t.ev = "connect"
           \/ t.ev = "none" /\ (~c.sent => t.st # "Connected"),
           reached' \in {reached, reached \cup {f}},
           ~c.done => outcome[f] = <<>>,
           c.done => c.sent,
           c.sent \/ t.ev = "connect" =>
               \A i \in DOMAIN outcome[f] : outcome[f][i][1] # "connect",
           ~c.sent => f \notin deadline /\ f \notin reached'
    PROVE  ProxyInv'
  <1> DEFINE u == X!TcpHeard(X!TcpSend(X!TcpHeard(t)))
             h == X!TcpHeard(t)
             k == [c EXCEPT !.sent = TRUE, !.tcp = u]
             d == [c EXCEPT !.tcp = h]
  <1>1. u \in T!TcpRecords /\ h \in T!TcpRecords
    BY ProxyTcp, TcpParts, TcpSendTyped, TcpRecordsAreStates
  <1>2. h.st = t.st /\ (TcpOver(t) => Dead(h) /\ h.st # "Connected")
    BY DEF X!TcpHeard, TcpStates, TcpOver, Dead
  <1>3. CASE t.ev = "connect"
    <2>1. /\ ctx' = [ctx EXCEPT ![f] = k]
          /\ deadline' = IF c.limit THEN deadline \cup {f} ELSE deadline
          /\ UNCHANGED <<sweep, outcome, proxy>>
      BY <1>3 DEF X!Handle, X!Connected
    <2> HIDE DEF u
    <2>2. k \in Context /\ k.held /\ k.sent /\ k.done = c.done
      BY <1>1 DEF Context
    <2> HIDE DEF k
    <2> QED
      BY <1>3, <2>1, <2>2, ContextKept
  <1>4. CASE t.ev # "connect"
    <2> HIDE DEF h
    <2>1. d \in Context /\ d.held /\ d.sent = c.sent /\ d.done = c.done /\ d.tcp = h
      BY <1>1 DEF Context
    <2>2. PICK reason \in X!Reasons :
            /\ reason = "connect" <=> ~d.sent
            /\ IF t.ev = "none" \/ d.done THEN X!Keep(f, d)
               ELSE X!Settle(f, d, <<reason, d.sent>>, destroys)
      <3> DEFINE why == IF ~c.sent THEN "connect"
                        ELSE IF t.ev = "close" THEN "closed"
                        ELSE IF idle THEN "idle_timeout" ELSE "other"
      <3>1. IF t.ev = "none" THEN X!Keep(f, d) ELSE X!Fail(f, d, why, destroys)
        BY <1>4 DEF X!Handle, X!Ended, h
      <3>2. why \in X!Reasons /\ (why = "connect" <=> ~c.sent)
        BY DEF X!Reasons
      <3> HIDE DEF d, why
      <3> QED
        BY <2>1, <3>1, <3>2 DEF X!Fail
    <2> HIDE DEF d
    <2>3. <<reason, d.sent>> \in X!Outcomes
      BY <2>1 DEF X!Outcomes, Context
    <2>4. CASE t.ev = "none" \/ d.done
      <3>1. X!Keep(f, d)
        BY <2>2, <2>4
      <3>2. ~d.sent => NotSent(d)
        BY <1>2, <1>4, <2>1, <2>4 DEF NotSent, TcpOver
      <3> QED
        BY <2>1, <3>1, <3>2, ContextKept DEF X!Keep
    <2>5. CASE ~(t.ev = "none" \/ d.done)
      <3>1. TcpOver(t)
        BY <1>4, <2>5
      <3>2. ~d.sent => d.tcp.st # "Connected" /\ Dead(d.tcp)
        BY <1>2, <2>1, <3>1
      <3> DEFINE o == <<reason, d.sent>>
      <3>3. o \in X!Outcomes /\ o[1] = reason /\ o[2] = d.sent
        BY <2>3
      <3>4. X!Settle(f, d, o, destroys)
        BY <2>2, <2>5
      <3> HIDE DEF o
      <3> QED
        BY <2>1, <2>2, <2>5, <3>2, <3>3, <3>4, SettleIsTrue
    <2> QED
      BY <2>4, <2>5
  <1> QED
    BY <1>3, <1>4

LEMMA ForwardIsTrue ==
    ASSUME NEW f \in Fwd, NEW how \in T!Hows, NEW tls \in BOOLEAN, NEW limit \in BOOLEAN,
           ProxyInv, X!Forward(f, how, tls, limit)
    PROVE  ProxyInv'
  <1> DEFINE t == X!TcpConnect(X!TcpFresh(tls, TRUE, TRUE), how)
             c == [X!None EXCEPT !.held = TRUE, !.limit = limit]
  <1>1. X!TcpFresh(tls, TRUE, TRUE) \in T!TcpRecords
    BY ProxyTcp, TcpFreshTyped
  <1>2. /\ t \in TcpStates
        /\ TcpOver(t) \/ t.ev = "connect" \/ (t.ev = "none" /\ t.st # "Connected")
    BY <1>1, ProxyTcp, TcpConnectTyped, TcpConnectEnds, TcpRecordsAreStates
  <1>3. c \in Context /\ c.held /\ ~c.done /\ ~c.sent
    BY NoContext DEF Context
  <1>4. /\ X!Handle(f, c, t, FALSE, FALSE) /\ reached' = reached
        /\ proxy = "live" /\ ~ctx[f].held /\ outcome[f] = <<>>
    BY DEF X!Forward
  <1>5. f \notin deadline /\ f \notin reached
    BY <1>4 DEF ProxyInv, Forwarding
  <1> HIDE DEF t, c
  <1>6. DOMAIN outcome[f] = {}
    BY <1>4
  <1> QED
    BY <1>2, <1>3, <1>4, <1>5, <1>6, HandleIsTrue

LEMMA ForwardNewsIsTrue ==
    ASSUME NEW f \in Fwd, NEW e \in T!TcpEvents, NEW destroys \in BOOLEAN,
           ProxyInv, X!News(f, e, destroys)
    PROVE  ProxyInv'
  <1> DEFINE c == ctx[f]
             t == X!TcpOn(c.tcp, e)
  <1>1. c \in Context /\ c.tcp \in T!TcpRecords /\ c.tcp \in TcpStates
    BY TcpRecordsAreStates DEF ProxyInv, ProxyState, Context
  <1>2. /\ c.held /\ T!TcpCan(c.tcp, e)
        /\ X!Handle(f, c, t, e = "idle timeout", destroys)
        /\ reached' = IF e = "writable" THEN reached \cup {f} ELSE reached
    BY ProxyTcp DEF X!News
  <1>3. Forwarding(f)
    BY DEF ProxyInv
  <1>4. ~Dead(c.tcp)
    BY <1>1, <1>2, OverIsOver DEF Dead
  <1>5. c.done => c.sent
    BY <1>2, <1>3, <1>4 DEF Forwarding, NotSent
  <1>6. e = "writable" => c.tcp.st = "Connected"
    BY <1>2 DEF T!TcpCan
  <1>7. ~c.sent => c.tcp.st # "Connected" /\ f \notin reached' /\ f \notin deadline
    BY <1>2, <1>3, <1>6 DEF Forwarding, NotSent, ProxyInv, ProxyState
  <1>8. /\ t \in TcpStates
        /\ \/ TcpOver(t)
           \/ t.ev = "connect"
           \/ t.ev = "none" /\ (~c.sent => t.st # "Connected")
    <2>1. t = T!TcpOn(c.tcp, e)
      BY ProxyTcp
    <2> HIDE DEF t, c
    <2> QED
      BY <1>1, <1>7, <2>1, TcpOnTyped, TcpOnEnds
  <1>9. ~c.done => outcome[f] = <<>>
    BY <1>2, <1>3 DEF Forwarding
  <1>10. \A i \in DOMAIN outcome[f] : outcome[f][i][1] # "connect"
    <2>1. CASE c.done
      BY <1>2, <1>3, <1>5, <2>1 DEF Forwarding, ToldTruly
    <2>2. CASE ~c.done
      BY <1>9, <2>2
    <2> QED
      BY <2>1, <2>2
  <1>11. proxy = "live"
    BY <1>2, <1>3 DEF Forwarding, ProxyInv, ProxyState
  <1>12. (e = "idle timeout") \in BOOLEAN
    OBVIOUS
  <1> HIDE DEF t, c
  <1> QED
    BY <1>1, <1>2, <1>5, <1>7, <1>8, <1>9, <1>10, <1>11, <1>12, HandleIsTrue

LEMMA AnswerIsTrue ==
    ASSUME NEW f \in Fwd, NEW what \in {"piece", "end", "garbage"}, NEW destroys \in BOOLEAN,
           ProxyInv, X!Read(f, what, destroys)
    PROVE  ProxyInv'
  <1> DEFINE r == X!TcpReading(ctx[f].tcp)
             c == [ctx[f] EXCEPT !.tcp = r, !.reads = @ + 1]
             q == X!TcpHeard(X!TcpClose(r))
             d == [c EXCEPT !.tcp = q]
             k == [c EXCEPT !.broken = @ \/ what = "garbage"]
  <1>1. ctx[f] \in Context /\ ctx[f].tcp \in T!TcpRecords /\ Forwarding(f)
    BY DEF ProxyInv, ProxyState, Context
  <1>2. r \in T!TcpRecords
    BY <1>1 DEF X!TcpReading, X!ResetIdle, T!TcpRecords
  <1>3. q \in T!TcpRecords
    BY <1>2, ProxyTcp, TcpParts, TcpRecordsAreStates
  <1>4. /\ ctx[f].held /\ ctx[f].tcp.st = "Connected" /\ ctx[f].reads < MaxReads
        /\ reached' = reached
        /\ \/ X!Settle(f, d, <<"answered", TRUE>>, destroys) /\ ~c.done
           \/ X!Keep(f, k)
    BY DEF X!Read
  <1>5. ctx[f].sent /\ proxy = "live"
    BY <1>1, <1>4 DEF Forwarding, NotSent, ProxyInv, ProxyState
  <1>6. ctx[f].reads + 1 \in 0 .. MaxReads
    BY <1>1, <1>4, SocketsConstants DEF Context
  <1> HIDE DEF r, q
  <1>7. c \in Context /\ c.held /\ c.sent /\ c.done = ctx[f].done
    BY <1>1, <1>2, <1>4, <1>5, <1>6 DEF Context
  <1> HIDE DEF c
  <1>8. d \in Context /\ d.held /\ d.sent /\ d.done = c.done
    BY <1>3, <1>7 DEF Context
  <1>9. k \in Context /\ k.held /\ k.sent /\ k.done = c.done
    <2>1. (c.broken \/ what = "garbage") \in BOOLEAN
      OBVIOUS
    <2> QED
      BY <1>7, <2>1 DEF Context
  <1> HIDE DEF d, k
  <1>10. ~c.done => outcome[f] = <<>>
    BY <1>1, <1>4, <1>7 DEF Forwarding
  <1>11. \A i \in DOMAIN outcome[f] : outcome[f][i][1] # "connect"
    BY <1>1, <1>4, <1>5 DEF Forwarding, ToldTruly
  <1>12. CASE X!Settle(f, d, <<"answered", TRUE>>, destroys) /\ ~c.done
    <2> DEFINE o == <<"answered", TRUE>>
    <2>1. o \in X!Outcomes /\ o[1] = "answered" /\ o[2] = TRUE
      BY DEF X!Outcomes
    <2>2. X!Settle(f, d, o, destroys)
      BY <1>12
    <2> HIDE DEF o
    <2> QED
      BY <1>4, <1>5, <1>8, <1>10, <1>12, <2>1, <2>2, SettleIsTrue
  <1>13. CASE X!Keep(f, k)
    BY <1>4, <1>5, <1>7, <1>9, <1>10, <1>11, <1>13, ContextKept DEF X!Keep
  <1> QED
    BY <1>4, <1>12, <1>13

LEMMA ResponseTimerIsTrue ==
    ASSUME NEW f \in Fwd, NEW destroys \in BOOLEAN, ProxyInv, X!ResponseTimer(f, destroys)
    PROVE  ProxyInv'
  <1> DEFINE q == X!TcpHeard(X!TcpClose(ctx[f].tcp))
             c == [ctx[f] EXCEPT !.tcp = q]
  <1>1. ctx[f] \in Context /\ ctx[f].tcp \in T!TcpRecords /\ Forwarding(f)
    BY DEF ProxyInv, ProxyState, Context
  <1>2. q \in T!TcpRecords
    BY <1>1, ProxyTcp, TcpParts, TcpRecordsAreStates
  <1>3. CASE ~ctx[f].held \/ ctx[f].done
    <2>1. deadline' = deadline \ {f} /\ UNCHANGED <<ctx, sweep, outcome, reached, proxy>>
      BY <1>3 DEF X!ResponseTimer
    <2>2. ProxyState'
      BY <2>1 DEF ProxyInv, ProxyState
    <2>3. ASSUME NEW g \in Fwd PROVE Forwarding(g)'
      BY <2>1 DEF ProxyInv, Forwarding, ToldTruly
    <2> QED
      BY <2>2, <2>3 DEF ProxyInv
  <1>4. CASE ctx[f].held /\ ~ctx[f].done
    <2>1. X!Settle(f, c, <<"response_timeout", c.sent>>, destroys) /\ f \in deadline /\ reached' = reached
      BY <1>4 DEF X!ResponseTimer
    <2> HIDE DEF q
    <2>2. ctx[f].sent /\ proxy = "live" /\ outcome[f] = <<>>
      BY <1>1, <1>4, <2>1 DEF Forwarding, ProxyInv, ProxyState
    <2>3. c \in Context /\ c.held /\ c.sent = TRUE
      BY <1>1, <1>2, <1>4, <2>2 DEF Context
    <2> HIDE DEF c
    <2> DEFINE o == <<"response_timeout", c.sent>>
    <2>4. o \in X!Outcomes /\ o[1] = "response_timeout" /\ o[2] = c.sent
      BY <2>3 DEF X!Outcomes, X!Reasons
    <2>5. X!Settle(f, c, o, destroys)
      BY <2>1
    <2> HIDE DEF o
    <2> QED
      BY <2>1, <2>2, <2>3, <2>4, <2>5, SettleIsTrue
  <1> QED
    BY <1>3, <1>4

LEMMA DestroyIsTrue == ProxyInv /\ X!Destroy => ProxyInv'
  <1> SUFFICES ASSUME ProxyInv, X!Destroy PROVE ProxyInv'
    OBVIOUS
  <1> USE DEF X!Destroy, ProxyInv
  <1>1. ProxyState'
    BY NoContext DEF ProxyState
  <1>2. ASSUME NEW g \in Fwd PROVE Forwarding(g)'
    BY NoContext DEF Forwarding, ToldTruly
  <1> QED
    BY <1>1, <1>2

LEMMA ProxyNextKeeps == ProxyInv /\ [X!HttpProxyNext]_(X!hpVars) => ProxyInv'
  <1> SUFFICES ASSUME ProxyInv, [X!HttpProxyNext]_(X!hpVars) PROVE ProxyInv'
    OBVIOUS
  <1>1. CASE \E f \in Fwd, how \in X!Hows, tls \in BOOLEAN, limit \in BOOLEAN :
               X!Forward(f, how, tls, limit)
    BY <1>1, ForwardIsTrue, ProxyTcp
  <1>2. CASE \E f \in Fwd, e \in X!TcpEvents, destroys \in BOOLEAN : X!News(f, e, destroys)
    BY <1>2, ForwardNewsIsTrue, ProxyTcp
  <1>3. CASE \E f \in Fwd, what \in {"piece", "end", "garbage"}, destroys \in BOOLEAN :
               X!Read(f, what, destroys)
    BY <1>3, AnswerIsTrue
  <1>4. CASE \E f \in Fwd, destroys \in BOOLEAN : X!ResponseTimer(f, destroys)
    BY <1>4, ResponseTimerIsTrue
  <1>5. CASE X!Destroy
    BY <1>5, DestroyIsTrue
  <1>6. CASE UNCHANGED X!hpVars
    <2>1. UNCHANGED <<ctx, deadline, sweep, outcome, reached, proxy>>
      BY <1>6 DEF X!hpVars
    <2>2. ProxyState'
      BY <2>1 DEF ProxyInv, ProxyState
    <2>3. ASSUME NEW g \in Fwd PROVE Forwarding(g)'
      BY <2>1 DEF ProxyInv, Forwarding, ToldTruly
    <2> QED
      BY <2>2, <2>3 DEF ProxyInv
  <1> QED
    BY <1>1, <1>2, <1>3, <1>4, <1>5, <1>6 DEF X!HttpProxyNext

LEMMA ProxyPromises == ProxyInv => X!SafeToRetry /\ X!HttpProxyTypeOK
  <1> SUFFICES ASSUME ProxyInv PROVE X!SafeToRetry /\ X!HttpProxyTypeOK
    OBVIOUS
  <1>1. X!SafeToRetry
    BY OutcomesAreOne DEF X!SafeToRetry, ProxyInv, ProxyState, Forwarding, ToldTruly
  <1>2. X!HttpProxyTypeOK
    BY ProxyTcp DEF X!HttpProxyTypeOK, ProxyInv, ProxyState, Context
  <1> QED
    BY <1>1, <1>2

-----------------------------------------------------------------------------
(* SmtpClient: what is said of a message is so.                            *)

LEMMA SmtpTcp ==
    /\ M!TcpRecords = T!TcpRecords /\ M!Hows = T!Hows /\ M!TcpEvents = T!TcpEvents
    /\ \A a, b, c : M!TcpFresh(a, b, c) = T!TcpFresh(a, b, c)
    /\ \A t : /\ M!TcpHeard(t) = T!TcpHeard(t)
              /\ M!TcpSend(t) = T!TcpSend(t)
              /\ M!TcpClose(t) = T!TcpClose(t)
              /\ M!StartTls(t) = T!StartTls(t)
              /\ M!Awake(t) = T!Awake(t)
              /\ \A how : M!TcpConnect(t, how) = T!TcpConnect(t, how)
              /\ \A e : M!TcpOn(t, e) = T!TcpOn(t, e) /\ M!TcpCan(t, e) = T!TcpCan(t, e)
  BY DEF M!TcpRecords, T!TcpRecords, M!Hows, T!Hows, M!TcpEvents, T!TcpEvents, M!TcpFresh,
         T!TcpFresh, M!TcpHeard, T!TcpHeard, M!TcpSend, T!TcpSend, M!TcpClose, T!TcpClose,
         M!TcpReading, T!TcpReading, M!TcpConnect, T!TcpConnect, M!TcpOn, T!TcpOn, M!Watch,
         T!Watch, M!TcpError, T!TcpError, M!TcpCleanup, T!TcpCleanup, M!ResetIdle, T!ResetIdle,
         M!OnConnected, T!OnConnected, M!TcpConnectResult, T!TcpConnectResult, M!TlsStep,
         T!TlsStep, M!TcpDrained, T!TcpDrained, M!TcpCan, T!TcpCan, M!Awake, T!Awake,
         M!StartTls, T!StartTls

\* Nobody closes a descriptor of the client under it.
Kept(t) == t \in TcpStates /\ ~t.gone

LEMMA KeptParts ==
    ASSUME NEW t \in TcpStates, ~t.gone
    PROVE  /\ Kept(T!TcpHeard(t)) /\ T!TcpHeard(t).st = t.st
           /\ Kept(T!TcpCleanup(t))
           /\ Kept(T!TcpError(t))
           /\ Kept(T!TcpClose(t))
           /\ Kept(T!ResetIdle(t)) /\ T!ResetIdle(t).st = t.st /\ T!ResetIdle(t).ev = t.ev
           /\ T!Watch(t) = t
  <1>1. Kept(T!TcpHeard(t)) /\ T!TcpHeard(t).st = t.st
    BY DEF Kept, T!TcpHeard, TcpStates
  <1>2. Kept(T!TcpCleanup(t))
    BY TcpParts DEF Kept, T!TcpCleanup, TcpStates
  <1>3. Kept(T!TcpError(t))
    BY DEF Kept, T!TcpError, T!TcpCleanup, TcpStates
  <1>4. Kept(T!TcpClose(t))
    BY DEF Kept, T!TcpClose, T!TcpCleanup, TcpStates
  <1>5. Kept(T!ResetIdle(t)) /\ T!ResetIdle(t).st = t.st /\ T!ResetIdle(t).ev = t.ev
    BY DEF Kept, T!ResetIdle, TcpStates
  <1>6. T!Watch(t) = t
    BY DEF T!Watch
  <1> QED
    BY <1>1, <1>2, <1>3, <1>4, <1>5, <1>6

LEMMA OnConnectedKept == ASSUME NEW t \in TcpStates, ~t.gone PROVE Kept(T!OnConnected(t))
  <1> DEFINE u == [t EXCEPT !.connect = FALSE, !.st = "Connected"]
             v == IF u.watched THEN T!Watch(u) ELSE [u EXCEPT !.watched = TRUE]
  <1>1. Kept(u)
    BY DEF Kept, TcpStates
  <1> HIDE DEF u
  <1>2. Kept(v)
    <2>1. T!Watch(u) = u
      BY <1>1, KeptParts DEF Kept
    <2>2. Kept([u EXCEPT !.watched = TRUE])
      BY <1>1 DEF Kept, TcpStates
    <2> QED
      BY <1>1, <2>1, <2>2
  <1>3. T!OnConnected(t) = IF v.st = "Error" THEN v ELSE [T!ResetIdle(v) EXCEPT !.ev = "connect"]
    BY DEF T!OnConnected, u, v
  <1> HIDE DEF v
  <1>4. Kept(T!ResetIdle(v))
    BY <1>2, KeptParts DEF Kept
  <1> QED
    BY <1>2, <1>3, <1>4 DEF Kept, TcpStates

LEMMA TcpOnKept ==
    ASSUME NEW t \in T!TcpRecords, NEW e \in T!TcpEvents, ~t.gone
    PROVE  Kept(T!TcpOn(t, e))
  <1> DEFINE u == [t EXCEPT !.connect = FALSE]
             v == [u EXCEPT !.st = "TlsHandshake"]
             d == [T!ResetIdle(t) EXCEPT !.out = FALSE]
             i == T!ResetIdle(t)
  <1>1. T!TcpOn(t, e) \in {T!TcpError(t), T!OnConnected(t), T!OnConnected(u), T!Watch(v),
                           T!Watch(d), T!TcpClose(i)}
    BY DEF T!TcpOn, T!TcpConnectResult, T!TlsStep, T!TcpReading, T!TcpDrained
  <1>2. Kept(t)
    BY TcpRecordsAreStates DEF Kept
  <1>3. Kept(i) /\ Kept(d)
    BY <1>2 DEF Kept, T!ResetIdle, TcpStates
  <1>4. Kept(u) /\ Kept(v)
    BY <1>2 DEF Kept, TcpStates
  <1> HIDE DEF i, d, u, v
  <1>5. Kept(T!TcpError(t)) /\ Kept(T!OnConnected(t)) /\ Kept(T!OnConnected(u))
    BY <1>2, <1>4, KeptParts, OnConnectedKept DEF Kept
  <1>6. Kept(T!Watch(v)) /\ Kept(T!Watch(d)) /\ Kept(T!TcpClose(i))
    BY <1>3, <1>4, KeptParts DEF Kept
  <1> QED
    BY <1>1, <1>5, <1>6

LEMMA TcpConnectKept ==
    ASSUME NEW t \in T!TcpRecords, NEW how \in T!Hows, ~t.gone
    PROVE  Kept(T!TcpConnect(t, how))
  <1> DEFINE u == [T!TcpCleanup(t) EXCEPT !.out = FALSE]
             v == [u EXCEPT !.fd = TRUE, !.st = "Connecting"]
             w == [v EXCEPT !.watched = TRUE, !.connect = t.ct]
  <1>1. Kept(t) /\ Kept(T!TcpCleanup(t)) /\ t.ct \in BOOLEAN
    BY KeptParts, TcpRecordsAreStates DEF Kept, T!TcpRecords
  <1>2. T!TcpConnect(t, how) \in {T!TcpError(t), T!TcpError(u), T!OnConnected(v), w}
    BY DEF T!TcpConnect, T!Hows
  <1>3. Kept(u)
    BY <1>1 DEF Kept, TcpStates
  <1> HIDE DEF u
  <1>4. Kept(v)
    BY <1>3 DEF Kept, TcpStates
  <1> HIDE DEF v
  <1>5. Kept(w)
    BY <1>1, <1>4 DEF Kept, TcpStates
  <1> HIDE DEF w
  <1> QED
    BY <1>1, <1>2, <1>3, <1>4, <1>5, KeptParts, OnConnectedKept DEF Kept

\* Bytes are queued, and TLS begins, on a connection that is kept.
LEMMA TcpSendKept ==
    ASSUME NEW t \in T!TcpRecords, ~t.gone, t.st = "Connected"
    PROVE  /\ T!TcpSend(t) \in T!TcpRecords /\ ~T!TcpSend(t).gone
           /\ Kept(T!StartTls(t)) /\ T!StartTls(t).ev = "none"
  <1> DEFINE u == [t EXCEPT !.out = TRUE]
             v == [t EXCEPT !.tls = TRUE, !.st = "TlsHandshake"]
  <1>1. t \in TcpStates /\ t.ev = "none" /\ t.out \in BOOLEAN
    BY TcpRecordsAreStates DEF T!TcpRecords
  <1>2. u \in T!TcpRecords /\ u \in TcpStates /\ ~u.gone
    BY TcpRecordsAreStates DEF T!TcpRecords
  <1>3. Kept(v) /\ v.ev = "none"
    BY <1>1 DEF Kept, TcpStates
  <1>4. T!TcpSend(t) \in {t, T!Watch(u)} /\ T!StartTls(t) = T!Watch(v)
    BY <1>1 DEF T!TcpSend, T!StartTls
  <1> HIDE DEF u, v
  <1> QED
    BY <1>2, <1>3, <1>4, KeptParts DEF Kept

SmtpRecords ==
    [st : M!States, queue : Seq(Msg), cur : Nat, rcpt : 0 .. Rcpts, act : BOOLEAN,
     buf : {"empty", "part", "stale"}, tcp : T!TcpRecords]

AtRest == {"Idle", "Done", "Error"}
InMail == {"SentMailFrom", "SentRcptTo", "SentData", "SentContent"}

\* The books of the client: a is accepted, d done, f failed, n the sessions so far.
\* A message is accepted, done and failed at most once in a session, and a client at
\* rest has nothing in the loop.
Booked(s, a, d, f, added_, n) ==
    /\ s \in SmtpRecords /\ s.cur \in 1 .. Len(s.queue) + 1 /\ ~s.tcp.gone
    /\ {a, d, f} \subseteq [Msg -> Nat] /\ n \in 0 .. MaxSessions /\ added_ \subseteq Msg
    /\ \A m \in Msg : d[m] <= a[m] /\ a[m] <= n /\ f[m] <= n
    /\ s.act <=> s.st \notin AtRest
    /\ ~s.act => Dead(s.tcp)
    /\ s.act => n > 0 /\ \A m \in Msg : f[m] < n
    /\ \A i \in DOMAIN s.queue : s.queue[i] \in added_
    /\ \A i, j \in DOMAIN s.queue : s.queue[i] = s.queue[j] => i = j
    /\ \A m \in Msg \ added_ : a[m] = 0
    /\ s.act => \A i \in 1 .. s.cur - 1 : d[s.queue[i]] > 0
    /\ s.st \in InMail => s.cur <= Len(s.queue)
    /\ s.st = "SentRcptTo" => s.rcpt < Rcpts

\* What is left to be sent was not yet accepted in this session.
LeftToSend(s, a, n) == s.act => \A i \in s.cur .. Len(s.queue) : a[s.queue[i]] < n

SmtpInv ==
    /\ Booked(smtp, accepted, done, failed, added, sessions)
    /\ LeftToSend(smtp, accepted, sessions)

LEMMA SmtpBegins == ASSUME M!SmtpInit PROVE SmtpInv
  <1> DEFINE fresh == T!TcpFresh(FALSE, FALSE, FALSE)
  <1>1. fresh \in T!TcpRecords /\ ~fresh.gone /\ Dead(fresh)
    BY TcpFreshTyped DEF T!TcpFresh, Dead
  <1>2. 0 \in 0 .. MaxSessions /\ 0 \in 0 .. Rcpts /\ <<>> \in Seq(Msg) /\ "Idle" \in M!States
    BY SocketsConstants DEF M!States
  <1>3. smtp = [st |-> "Idle", queue |-> <<>>, cur |-> 1, rcpt |-> 0, act |-> FALSE,
                buf |-> "empty", tcp |-> fresh]
    BY SmtpTcp DEF M!SmtpInit
  <1> HIDE DEF fresh
  <1>4. smtp \in SmtpRecords
    BY <1>1, <1>2, <1>3 DEF SmtpRecords
  <1>5. smtp.queue = <<>> /\ smtp.cur = 1 /\ ~smtp.act /\ smtp.st = "Idle" /\ smtp.tcp = fresh
    BY <1>3
  <1>6. /\ {accepted, done, failed} \subseteq [Msg -> Nat] /\ added = {} /\ sessions = 0
        /\ \A m \in Msg : accepted[m] = 0 /\ done[m] = 0 /\ failed[m] = 0
    BY DEF M!SmtpInit
  <1>7. smtp.cur \in 1 .. Len(smtp.queue) + 1 /\ DOMAIN smtp.queue = {}
    BY <1>5
  <1>8. smtp.st \in AtRest /\ smtp.st \notin InMail /\ smtp.st # "SentRcptTo"
    BY <1>5 DEF AtRest, InMail
  <1> QED
    BY <1>1, <1>2, <1>4, <1>5, <1>6, <1>7, <1>8 DEF SmtpInv, Booked, LeftToSend

\* A session goes on with the same message.
LEMMA GoesOn ==
    ASSUME NEW s, NEW r \in SmtpRecords, NEW a, NEW d, NEW f, NEW ad, NEW n,
           Booked(s, a, d, f, ad, n), LeftToSend(s, a, n), s.act,
           r.queue = s.queue, r.cur = s.cur, r.act, r.st \notin AtRest, ~r.tcp.gone,
           r.st \in InMail => r.cur <= Len(r.queue),
           r.st = "SentRcptTo" => r.rcpt < Rcpts
    PROVE  Booked(r, a, d, f, ad, n) /\ LeftToSend(r, a, n)
  BY DEF Booked, LeftToSend

\* EnterError of a session.
LEMMA SessionFails ==
    ASSUME NEW s, NEW a, NEW d, NEW n, NEW ad, Booked(s, a, d, failed, ad, n), s.act,
           s.tcp.st = "Closed" => Dead(s.tcp), M!EnterError(s)
    PROVE  /\ Booked(smtp', a, d, failed', ad, n) /\ LeftToSend(smtp', a, n)
  <1> DEFINE t == T!TcpHeard(T!TcpClose(s.tcp))
             r == [s EXCEPT !.st = "Error", !.act = FALSE, !.tcp = t]
  <1>1. s \in SmtpRecords /\ s.tcp \in T!TcpRecords /\ s.tcp \in TcpStates /\ ~s.tcp.gone
        /\ s.st # "Error"
    BY TcpRecordsAreStates DEF Booked, SmtpRecords, AtRest
  <1>2. t \in T!TcpRecords /\ ~t.gone /\ Dead(t)
    <2> DEFINE c == T!TcpClose(s.tcp)
    <2>1. c \in TcpStates /\ Kept(c)
      BY <1>1, KeptParts DEF Kept
    <2>2. Dead(c)
      BY <1>1 DEF Dead, T!TcpClose, T!TcpCleanup, TcpStates
    <2>3. t = T!TcpHeard(c)
      OBVIOUS
    <2> HIDE DEF c, t
    <2>4. t \in T!TcpRecords /\ ~t.gone
      BY <2>1, <2>3, TcpParts, KeptParts DEF Kept
    <2> QED
      BY <2>1, <2>2, <2>3, <2>4 DEF Dead, T!TcpHeard, TcpStates
  <1>3. smtp' = r /\ failed' = IF s.cur <= Len(s.queue)
                              THEN [failed EXCEPT ![s.queue[s.cur]] = @ + 1] ELSE failed
    BY <1>1, SmtpTcp DEF M!EnterError, M!Current
  <1> HIDE DEF t
  <1>4. r \in SmtpRecords /\ r.st = "Error" /\ ~r.act /\ r.tcp = t /\ r.queue = s.queue
        /\ r.cur = s.cur
    BY <1>1, <1>2 DEF SmtpRecords, M!States
  <1> HIDE DEF r
  <1>5. failed' \in [Msg -> Nat] /\ \A m \in Msg : failed'[m] <= n
    <2>1. failed \in [Msg -> Nat] /\ n \in Nat /\ \A m \in Msg : failed[m] < n
      BY SocketsConstants DEF Booked
    <2>2. s.cur <= Len(s.queue) => s.queue[s.cur] \in Msg
      BY <1>1 DEF Booked, SmtpRecords
    <2> QED
      BY <1>3, <2>1, <2>2
  <1> QED
    BY <1>2, <1>3, <1>4, <1>5 DEF Booked, LeftToSend, AtRest, InMail

\* A method of the connection has returned in a session.
LEMMA AfterHolds ==
    ASSUME NEW s, NEW t, NEW a, NEW d, NEW n, NEW ad, Booked(s, a, d, failed, ad, n),
           LeftToSend(s, a, n), s.act, Kept(t),
           \/ TcpOver(t)
           \/ t.ev = "connect" /\ t.st = "Connected"
           \/ t.ev = "none",
           M!After(s, t)
    PROVE  /\ Booked(smtp', a, d, failed', ad, n) /\ LeftToSend(smtp', a, n)
  <1> DEFINE h == T!TcpHeard(t)
             w == T!TcpSend(h)
             u == [s EXCEPT !.tcp = h]
             v == [u EXCEPT !.st = "SentEhloAfterTls", !.tcp = w]
             g == [u EXCEPT !.st = "WaitGreeting"]
  <1>1. s \in SmtpRecords /\ s.st \notin AtRest
    BY DEF Booked
  <1>2. h \in T!TcpRecords /\ ~h.gone /\ h.st = t.st /\ (TcpOver(t) => Dead(h))
    <2>1. h \in T!TcpRecords
      BY TcpParts DEF Kept
    <2> QED
      BY <2>1 DEF Dead, T!TcpHeard, TcpStates, Kept, TcpOver
  <1>3. t.ev = "connect" => w \in T!TcpRecords /\ ~w.gone
    BY <1>2, TcpSendKept DEF TcpOver
  <1>4. \/ t.ev = "none" /\ smtp' = u /\ failed' = failed
        \/ t.ev = "connect" /\ smtp' \in {v, g} /\ failed' = failed
        \/ TcpOver(t) /\ M!EnterError(u)
    <2>1. u.tcp = h
      BY <1>1 DEF SmtpRecords
    <2>2. t.ev \in {"none", "connect", "close", "error"} /\ "connect" # "none"
      BY DEF Kept, TcpStates
    <2>3. M!TcpHeard(t) = h /\ M!TcpSend(u.tcp) = w /\ [u EXCEPT !.st = "SentEhloAfterTls", !.tcp = M!TcpSend(@)] = v
      BY <2>1, SmtpTcp
    <2> HIDE DEF w, h
    <2> QED
      BY <1>1, <2>2, <2>3 DEF M!After, AtRest
  <1> HIDE DEF h, w
  <1>5. u \in SmtpRecords /\ u.queue = s.queue /\ u.cur = s.cur /\ u.act /\ u.st = s.st
        /\ u.tcp = h /\ u.rcpt = s.rcpt
    BY <1>1, <1>2 DEF SmtpRecords
  <1> HIDE DEF u
  <1>6. /\ g \in SmtpRecords /\ g.queue = s.queue /\ g.cur = s.cur /\ g.act
        /\ g.st = "WaitGreeting" /\ g.tcp = h
    BY <1>5 DEF SmtpRecords, M!States
  <1>7. t.ev = "connect" =>
          /\ v \in SmtpRecords /\ v.queue = s.queue /\ v.cur = s.cur /\ v.act
          /\ v.st = "SentEhloAfterTls" /\ v.tcp = w
    BY <1>3, <1>5 DEF SmtpRecords, M!States
  <1> HIDE DEF g, v
  <1>8. Booked(u, a, d, failed, ad, n) /\ LeftToSend(u, a, n)
    <2>1. s.st \in InMail => s.cur <= Len(s.queue)
      BY DEF Booked
    <2>2. s.st = "SentRcptTo" => s.rcpt < Rcpts
      BY DEF Booked
    <2> QED
      BY <1>1, <1>2, <1>5, <2>1, <2>2, GoesOn
  <1>9. CASE t.ev = "none" /\ smtp' = u /\ failed' = failed
    BY <1>8, <1>9
  <1>10. CASE t.ev = "connect" /\ smtp' = g /\ failed' = failed
    <2>1. Booked(g, a, d, failed, ad, n) /\ LeftToSend(g, a, n)
      BY <1>2, <1>6, GoesOn DEF AtRest, InMail
    <2> QED
      BY <1>10, <2>1
  <1>11. CASE t.ev = "connect" /\ smtp' = v /\ failed' = failed
    <2>1. Booked(v, a, d, failed, ad, n) /\ LeftToSend(v, a, n)
      BY <1>3, <1>7, <1>11, GoesOn DEF AtRest, InMail
    <2> QED
      BY <1>11, <2>1
  <1>12. CASE TcpOver(t) /\ M!EnterError(u)
    BY <1>2, <1>5, <1>8, <1>12, SessionFails
  <1> QED
    BY <1>4, <1>9, <1>10, <1>11, <1>12

LEMMA CommandIs ==
    ASSUME NEW s \in SmtpRecords, s.tcp.st = "Connected", ~s.tcp.gone, NEW st \in M!States
    PROVE  /\ M!Command(s, st) \in SmtpRecords /\ ~M!Command(s, st).tcp.gone
           /\ M!Command(s, st).queue = s.queue /\ M!Command(s, st).cur = s.cur
           /\ M!Command(s, st).act = s.act /\ M!Command(s, st).rcpt = s.rcpt
           /\ M!Command(s, st).st = st
  <1> DEFINE w == T!TcpSend(s.tcp)
             r == [s EXCEPT !.st = st, !.tcp = w]
  <1>1. w \in T!TcpRecords /\ ~w.gone
    BY TcpSendKept DEF SmtpRecords
  <1>2. M!Command(s, st) = r
    BY SmtpTcp DEF M!Command
  <1> HIDE DEF w
  <1>3. /\ r \in SmtpRecords /\ r.tcp = w /\ r.queue = s.queue /\ r.cur = s.cur
        /\ r.act = s.act /\ r.rcpt = s.rcpt /\ r.st = st
    BY <1>1 DEF SmtpRecords
  <1> HIDE DEF r
  <1> QED
    BY <1>1, <1>2, <1>3

\* A reply is expected only of a session that is connected.
LEMMA ReadingIs ==
    ASSUME SmtpInv, M!Reading
    PROVE  smtp \in SmtpRecords /\ smtp.act /\ smtp.st \notin AtRest
           /\ smtp.tcp.st = "Connected" /\ ~smtp.tcp.gone /\ smtp.tcp \in TcpStates
  <1>1. smtp \in SmtpRecords /\ ~smtp.tcp.gone /\ smtp.tcp.fd
    BY SmtpTcp DEF SmtpInv, Booked, M!Reading, T!Awake
  <1>2. smtp.act
    BY <1>1 DEF SmtpInv, Booked, Dead
  <1> QED
    BY <1>1, <1>2, TcpRecordsAreStates DEF SmtpInv, Booked, M!Reading, SmtpRecords

LEMMA AddHolds == ASSUME NEW m \in Msg, SmtpInv, M!Add(m) PROVE SmtpInv'
  <1> DEFINE q == Append(smtp.queue, m)
             r == [smtp EXCEPT !.queue = q]
  <1>1. /\ m \notin added /\ added' = added \cup {m} /\ smtp' = r
        /\ UNCHANGED <<accepted, done, failed, sessions>>
    BY DEF M!Add
  <1>2. smtp \in SmtpRecords /\ smtp.queue \in Seq(Msg) /\ smtp.cur \in 1 .. Len(smtp.queue) + 1
    BY DEF SmtpInv, Booked, SmtpRecords
  <1>3. /\ q \in Seq(Msg) /\ Len(q) = Len(smtp.queue) + 1 /\ q[Len(q)] = m
        /\ DOMAIN q = 1 .. Len(q) /\ DOMAIN smtp.queue = 1 .. Len(smtp.queue)
        /\ \A i \in 1 .. Len(smtp.queue) : q[i] = smtp.queue[i]
    BY <1>2
  <1> HIDE DEF q
  <1>4. /\ r \in SmtpRecords /\ r.queue = q /\ r.cur = smtp.cur /\ r.act = smtp.act
        /\ r.st = smtp.st /\ r.rcpt = smtp.rcpt /\ r.tcp = smtp.tcp
    BY <1>2, <1>3 DEF SmtpRecords
  <1> HIDE DEF r
  <1>5. accepted[m] = 0 /\ Len(smtp.queue) \in Nat
    BY <1>1, <1>2 DEF SmtpInv, Booked
  <1> DEFINE n == Len(smtp.queue)
  <1>16. \A i \in DOMAIN q : i = Len(q) \/ i \in 1 .. n
    BY <1>3, <1>5
  <1>17. /\ \A i \in 1 .. n : q[i] \in added
         /\ \A i, j \in 1 .. n : q[i] = q[j] => i = j
         /\ smtp.act => \A i \in 1 .. smtp.cur - 1 : done[smtp.queue[i]] > 0
    <2>1. /\ \A i \in DOMAIN smtp.queue : smtp.queue[i] \in added
          /\ \A i, j \in DOMAIN smtp.queue : smtp.queue[i] = smtp.queue[j] => i = j
          /\ smtp.act => \A i \in 1 .. smtp.cur - 1 : done[smtp.queue[i]] > 0
      BY DEF SmtpInv, Booked
    <2> QED
      BY <1>3, <2>1
  <1>6. \A i \in DOMAIN q : q[i] \in added'
    BY <1>1, <1>3, <1>16, <1>17
  <1>7. \A i, j \in DOMAIN q : q[i] = q[j] => i = j
    <2>1. \A i \in 1 .. n : q[i] # m
      BY <1>1, <1>17
    <2> QED
      BY <1>3, <1>16, <1>17, <2>1
  <1>8. smtp.act => \A i \in 1 .. smtp.cur - 1 : done[q[i]] > 0
    <2>1. \A i \in 1 .. smtp.cur - 1 : i \in 1 .. n
      BY <1>2
    <2> QED
      BY <1>3, <1>17, <2>1
  <1>9. smtp.act => \A i \in smtp.cur .. Len(q) : accepted[q[i]] < sessions
    <2>1. SUFFICES ASSUME smtp.act, NEW i \in smtp.cur .. Len(q) PROVE accepted[q[i]] < sessions
      OBVIOUS
    <2>2. sessions > 0
      BY <2>1 DEF SmtpInv, Booked
    <2>3. i = Len(q) \/ i \in smtp.cur .. Len(smtp.queue)
      BY <1>2, <1>3
    <2>4. i \in smtp.cur .. Len(smtp.queue) => q[i] = smtp.queue[i]
      BY <1>2, <1>3
    <2> QED
      BY <1>3, <1>5, <2>1, <2>2, <2>3, <2>4 DEF SmtpInv, LeftToSend
  <1>10. smtp.cur \in 1 .. Len(q) + 1 /\ (smtp.st \in InMail => smtp.cur <= Len(q))
    BY <1>2, <1>3 DEF SmtpInv, Booked
  <1> QED
    BY <1>1, <1>3, <1>4, <1>6, <1>7, <1>8, <1>9, <1>10 DEF SmtpInv, Booked, LeftToSend

LEMMA SendMailHolds == ASSUME NEW how \in T!Hows, SmtpInv, M!SendMail(how) PROVE SmtpInv'
  <1> DEFINE t == [smtp.tcp EXCEPT !.tls = @ \/ Implicit, !.ct = TRUE]
             b == IF smtp.buf = "part" THEN "stale" ELSE smtp.buf
             s == [smtp EXCEPT !.act = TRUE, !.cur = 1, !.rcpt = 0, !.st = "Connecting", !.buf = b]
             c == T!TcpConnect(t, how)
  <1>1. /\ ~smtp.act /\ sessions < MaxSessions /\ sessions' = sessions + 1
        /\ M!After(s, c) /\ UNCHANGED <<accepted, done, added>>
    BY SmtpTcp DEF M!SendMail
  <1>2. smtp \in SmtpRecords /\ ~smtp.tcp.gone /\ smtp.tcp \in T!TcpRecords
    BY DEF SmtpInv, Booked, SmtpRecords
  <1>3. t \in T!TcpRecords /\ ~t.gone
    BY <1>2, SocketsConstants DEF T!TcpRecords
  <1>4. Kept(c)
    BY <1>3, TcpConnectKept
  <1>5. \/ TcpOver(c)
        \/ c.ev = "connect" /\ c.st = "Connected"
        \/ c.ev = "none"
    BY <1>3, TcpConnectEnds
  <1> HIDE DEF t, c
  <1>6. b \in {"empty", "part", "stale"} /\ 0 \in 0 .. Rcpts
    BY <1>2, SocketsConstants DEF SmtpRecords
  <1> HIDE DEF b
  <1>7. /\ s \in SmtpRecords /\ s.queue = smtp.queue /\ s.cur = 1 /\ s.act /\ s.st = "Connecting"
        /\ s.tcp = smtp.tcp
    BY <1>2, <1>6 DEF SmtpRecords, M!States
  <1> HIDE DEF s
  <1>8. Booked(s, accepted, done, failed, added, sessions') /\ LeftToSend(s, accepted, sessions')
    <2>1. /\ {accepted, done, failed} \subseteq [Msg -> Nat] /\ sessions \in 0 .. MaxSessions
          /\ \A m \in Msg : done[m] <= accepted[m] /\ accepted[m] <= sessions /\ failed[m] <= sessions
          /\ smtp.queue \in Seq(Msg)
      BY <1>2 DEF SmtpInv, Booked, SmtpRecords
    <2>2. sessions' \in 0 .. MaxSessions /\ sessions' > 0 /\ MaxSessions \in Nat
      BY <1>1, <2>1, SocketsConstants
    <2>3. \A m \in Msg : accepted[m] <= sessions' /\ accepted[m] < sessions' /\ failed[m] < sessions'
                         /\ failed[m] <= sessions'
      BY <1>1, <2>1, <2>2
    <2>4. s.cur \in 1 .. Len(s.queue) + 1 /\ 1 .. s.cur - 1 = {}
      BY <1>7, <2>1
    <2>5. \A i \in s.cur .. Len(s.queue) : s.queue[i] \in Msg
      BY <1>7, <2>1
    <2>6. s.st \notin AtRest /\ s.st \notin InMail /\ s.st # "SentRcptTo"
      BY <1>7 DEF AtRest, InMail
    <2>7. /\ \A i \in DOMAIN s.queue : s.queue[i] \in added
          /\ \A i, j \in DOMAIN s.queue : s.queue[i] = s.queue[j] => i = j
          /\ \A m \in Msg \ added : accepted[m] = 0
          /\ added \subseteq Msg
      BY <1>7 DEF SmtpInv, Booked
    <2> QED
      BY <1>2, <1>7, <2>1, <2>2, <2>3, <2>4, <2>5, <2>6, <2>7 DEF Booked, LeftToSend
  <1>9. Booked(smtp', accepted, done, failed', added, sessions') /\ LeftToSend(smtp', accepted, sessions')
    BY <1>1, <1>4, <1>5, <1>7, <1>8, AfterHolds
  <1> QED
    BY <1>1, <1>9 DEF SmtpInv

LEMMA SmtpNewsHolds == ASSUME NEW e \in T!TcpEvents, SmtpInv, M!News(e) PROVE SmtpInv'
  <1> DEFINE c == T!TcpOn(smtp.tcp, e)
  <1>1. /\ T!TcpCan(smtp.tcp, e) /\ M!After(smtp, c) /\ UNCHANGED <<accepted, done, added, sessions>>
    BY SmtpTcp DEF M!News
  <1>2. smtp \in SmtpRecords /\ ~smtp.tcp.gone /\ smtp.tcp \in T!TcpRecords
    BY DEF SmtpInv, Booked, SmtpRecords
  <1>3. smtp.act
    BY <1>1, <1>2, OverIsOver, TcpRecordsAreStates DEF SmtpInv, Booked, Dead
  <1>4. Kept(c)
    BY <1>2, TcpOnKept
  <1>5. \/ TcpOver(c)
        \/ c.ev = "connect" /\ c.st = "Connected"
        \/ c.ev = "none"
    BY <1>2, TcpOnEnds
  <1> HIDE DEF c
  <1>6. Booked(smtp', accepted, done, failed', added, sessions) /\ LeftToSend(smtp', accepted, sessions)
    BY <1>1, <1>3, <1>4, <1>5, AfterHolds DEF SmtpInv
  <1> QED
    BY <1>1, <1>6 DEF SmtpInv

LEMMA RefusalHolds == ASSUME NEW valid \in BOOLEAN, SmtpInv, M!Refusal(valid) PROVE SmtpInv'
  <1> DEFINE b == IF valid THEN "empty" ELSE "stale"
             s == [smtp EXCEPT !.buf = b]
  <1>1. M!Reading /\ M!EnterError(s) /\ UNCHANGED <<accepted, done, added, sessions>>
    BY DEF M!Refusal
  <1>2. /\ smtp \in SmtpRecords /\ smtp.act /\ smtp.st \notin AtRest
        /\ smtp.tcp.st = "Connected" /\ ~smtp.tcp.gone
    BY <1>1, ReadingIs
  <1>3. b \in {"empty", "part", "stale"}
    OBVIOUS
  <1> HIDE DEF b
  <1>4. /\ s \in SmtpRecords /\ s.queue = smtp.queue /\ s.cur = smtp.cur /\ s.act /\ s.st = smtp.st
        /\ s.tcp = smtp.tcp /\ s.rcpt = smtp.rcpt
    BY <1>2, <1>3 DEF SmtpRecords
  <1> HIDE DEF s
  <1>5. Booked(s, accepted, done, failed, added, sessions)
    BY <1>2, <1>4 DEF SmtpInv, Booked
  <1>6. Booked(smtp', accepted, done, failed', added, sessions) /\ LeftToSend(smtp', accepted, sessions)
    BY <1>1, <1>2, <1>4, <1>5, SessionFails
  <1> QED
    BY <1>1, <1>6 DEF SmtpInv

LEMMA PartialHolds == ASSUME SmtpInv, M!Partial PROVE SmtpInv'
  <1> DEFINE s == [smtp EXCEPT !.buf = "part"]
  <1>1. M!Reading /\ smtp' = s /\ UNCHANGED <<accepted, done, failed, added, sessions>>
    BY DEF M!Partial
  <1>2. smtp \in SmtpRecords /\ smtp.act /\ smtp.st \notin AtRest /\ ~smtp.tcp.gone
    BY <1>1, ReadingIs
  <1>3. /\ s \in SmtpRecords /\ s.queue = smtp.queue /\ s.cur = smtp.cur /\ s.act /\ s.st = smtp.st
        /\ s.tcp = smtp.tcp /\ s.rcpt = smtp.rcpt
    BY <1>2 DEF SmtpRecords
  <1> HIDE DEF s
  <1>4. Booked(s, accepted, done, failed, added, sessions) /\ LeftToSend(s, accepted, sessions)
    BY <1>2, <1>3 DEF SmtpInv, Booked, LeftToSend
  <1> QED
    BY <1>1, <1>4 DEF SmtpInv

LEMMA ExpectedHolds == ASSUME SmtpInv, M!Expected PROVE SmtpInv'
  <1> DEFINE s == [smtp EXCEPT !.buf = "empty"]
             r == M!Step(s)
             z == [s EXCEPT !.rcpt = 0]
             p == [s EXCEPT !.rcpt = s.rcpt + 1]
  <1>1. /\ M!Reading /\ smtp' = r /\ UNCHANGED <<accepted, done, failed, added, sessions>>
        /\ smtp.st \notin {"SentContent", "SentQuit", "SentStartTls", "TlsHandshake"}
    BY DEF M!Expected, M!Reply
  <1>2. smtp \in SmtpRecords /\ smtp.act /\ smtp.st \notin AtRest /\ ~smtp.tcp.gone
        /\ smtp.tcp.st = "Connected" /\ smtp.st # "Connecting"
    BY <1>1, ReadingIs DEF M!Reading
  <1>3. /\ s \in SmtpRecords /\ s.queue = smtp.queue /\ s.cur = smtp.cur /\ s.act /\ s.st = smtp.st
        /\ s.tcp = smtp.tcp /\ s.rcpt = smtp.rcpt
    BY <1>2 DEF SmtpRecords
  <1>4. s.rcpt \in 0 .. Rcpts /\ Rcpts \in Nat /\ Rcpts > 0 /\ Implicit \in BOOLEAN /\ Login \in BOOLEAN
    BY <1>3, SocketsConstants DEF SmtpRecords
  <1> HIDE DEF s
  <1>5. /\ z \in SmtpRecords /\ z.queue = smtp.queue /\ z.cur = smtp.cur /\ z.act /\ z.rcpt = 0
        /\ z.tcp = smtp.tcp
    BY <1>3, <1>4 DEF SmtpRecords
  <1>6. s.rcpt < Rcpts =>
        /\ p \in SmtpRecords /\ p.queue = smtp.queue /\ p.cur = smtp.cur /\ p.act
        /\ p.rcpt = s.rcpt + 1 /\ p.tcp = smtp.tcp
    BY <1>3, <1>4 DEF SmtpRecords
  <1>7. s.st = "SentRcptTo" => s.rcpt < Rcpts
    BY <1>3 DEF SmtpInv, Booked
  <1>8. s.st \in InMail => s.cur <= Len(s.queue)
    BY <1>3 DEF SmtpInv, Booked
  <1> DEFINE Good(x) == /\ x \in SmtpRecords /\ x.queue = smtp.queue /\ x.cur = smtp.cur /\ x.act
                        /\ x.st \notin AtRest /\ ~x.tcp.gone
                        /\ x.st \in InMail => x.cur <= Len(x.queue)
                        /\ x.st = "SentRcptTo" => x.rcpt < Rcpts
  <1>9. ASSUME NEW st \in M!States \ (AtRest \cup InMail) PROVE Good(M!Command(s, st))
    BY <1>2, <1>3, <1>9, CommandIs DEF AtRest, InMail
  <1>10. Good(M!NextMessage(s))
    <2>1. CASE s.cur > Len(s.queue)
      BY <1>9, <2>1 DEF M!NextMessage, M!States, AtRest, InMail
    <2>2. CASE ~(s.cur > Len(s.queue))
      <3>1. M!NextMessage(s) = M!Command(s, "SentMailFrom")
        BY <2>2 DEF M!NextMessage
      <3>2. s.cur <= Len(s.queue)
        BY <1>3, <2>2 DEF SmtpRecords
      <3>3. "SentMailFrom" \in M!States \ AtRest
        BY DEF M!States, AtRest
      <3> QED
        BY <1>2, <1>3, <3>1, <3>2, <3>3, CommandIs
    <2> QED
      BY <2>1, <2>2
  <1>11. s.st = "SentMailFrom" => Good(M!Command(z, "SentRcptTo"))
    <2>1. "SentRcptTo" \in M!States \ AtRest
      BY DEF M!States, AtRest
    <2>2. s.st = "SentMailFrom" => s.cur <= Len(s.queue)
      BY <1>8 DEF InMail
    <2>3. z.rcpt < Rcpts /\ z.cur = s.cur /\ z.queue = s.queue /\ z.tcp.st = "Connected"
          /\ ~z.tcp.gone
      BY <1>2, <1>3, <1>4, <1>5
    <2> HIDE DEF z
    <2> QED
      BY <1>3, <1>5, <2>1, <2>2, <2>3, CommandIs
  <1>12. s.st = "SentRcptTo" => /\ s.rcpt + 1 < Rcpts => Good(M!Command(p, "SentRcptTo"))
                                /\ Good(M!Command(p, "SentData"))
    <2>1. {"SentRcptTo", "SentData"} \subseteq M!States \ AtRest
      BY DEF M!States, AtRest
    <2>2. s.st = "SentRcptTo" => s.cur <= Len(s.queue)
      BY <1>8 DEF InMail
    <2> HIDE DEF z, p
    <2> QED
      BY <1>2, <1>3, <1>4, <1>6, <1>7, <2>1, <2>2, CommandIs
  <1>13. s.st = "SentData" => Good(M!Command(s, "SentContent"))
    <2>1. "SentContent" \in M!States \ AtRest
      BY DEF M!States, AtRest
    <2>2. s.st = "SentData" => s.cur <= Len(s.queue)
      BY <1>8 DEF InMail
    <2> QED
      BY <1>2, <1>3, <2>1, <2>2, CommandIs
  <1>14. {"SentEhlo", "SentStartTls", "SentAuthLogin", "SentUsername", "SentPassword"}
            \subseteq M!States \ (AtRest \cup InMail)
    BY DEF M!States, AtRest, InMail
  <1>15. s.st \in {"WaitGreeting", "SentEhlo", "SentEhloAfterTls", "SentAuthLogin", "SentUsername",
                   "SentPassword", "SentMailFrom", "SentRcptTo", "SentData"}
    BY <1>1, <1>2, <1>3 DEF SmtpRecords, M!States, AtRest
  <1>16. r \in {M!NextMessage(s)} \cup {M!Command(s, st) : st \in {"SentEhlo", "SentStartTls",
                   "SentAuthLogin", "SentUsername", "SentPassword"}}
         \/ (s.st = "SentMailFrom" /\ r = M!Command(z, "SentRcptTo"))
         \/ (s.st = "SentRcptTo" /\ r = M!Command(p, IF s.rcpt + 1 < Rcpts THEN "SentRcptTo" ELSE "SentData"))
         \/ (s.st = "SentData" /\ r = M!Command(s, "SentContent"))
    <2> HIDE DEF z, p, Good
    <2>1. /\ z = [s EXCEPT !.rcpt = 0]
          /\ p = [s EXCEPT !.rcpt = @ + 1]
      BY DEF z, p
    <2> QED
      BY <1>4, <1>15, <2>1 DEF M!Step
  <1>17. Good(r)
    <2> HIDE DEF Good, r, z, p
    <2> QED
      BY <1>9, <1>10, <1>11, <1>12, <1>13, <1>14, <1>16
  <1> HIDE DEF r
  <1>18. Booked(r, accepted, done, failed, added, sessions) /\ LeftToSend(r, accepted, sessions)
    BY <1>2, <1>17, GoesOn DEF SmtpInv
  <1> QED
    BY <1>1, <1>18 DEF SmtpInv

LEMMA TlsReadyHolds == ASSUME SmtpInv, M!TlsReady PROVE SmtpInv'
  <1> DEFINE s == [smtp EXCEPT !.buf = "empty", !.st = "TlsHandshake"]
             c == T!StartTls(smtp.tcp)
  <1>1. M!Reading /\ M!After(s, c) /\ UNCHANGED <<accepted, done, added, sessions>>
    BY SmtpTcp DEF M!TlsReady, M!Reply
  <1>2. smtp \in SmtpRecords /\ smtp.act /\ smtp.st \notin AtRest /\ ~smtp.tcp.gone
        /\ smtp.tcp.st = "Connected" /\ smtp.tcp \in T!TcpRecords
    BY <1>1, ReadingIs DEF SmtpRecords
  <1>3. Kept(c) /\ c.ev = "none"
    BY <1>2, TcpSendKept
  <1> HIDE DEF c
  <1>4. /\ s \in SmtpRecords /\ s.queue = smtp.queue /\ s.cur = smtp.cur /\ s.act
        /\ s.st = "TlsHandshake" /\ s.tcp = smtp.tcp
    BY <1>2 DEF SmtpRecords, M!States
  <1> HIDE DEF s
  <1>5. Booked(s, accepted, done, failed, added, sessions) /\ LeftToSend(s, accepted, sessions)
    <2>1. s.st \notin AtRest /\ s.st \notin InMail /\ s.st # "SentRcptTo"
      BY <1>4 DEF AtRest, InMail
    <2> QED
      BY <1>2, <1>4, <2>1, GoesOn DEF SmtpInv
  <1>6. Booked(smtp', accepted, done, failed', added, sessions) /\ LeftToSend(smtp', accepted, sessions)
    BY <1>1, <1>3, <1>4, <1>5, AfterHolds
  <1> QED
    BY <1>1, <1>6 DEF SmtpInv

LEMMA AcceptHolds == ASSUME NEW arrives \in BOOLEAN, SmtpInv, M!Accept(arrives) PROVE SmtpInv'
  <1> DEFINE k == smtp.queue[smtp.cur]
             a == [accepted EXCEPT ![k] = @ + 1]
             d == [done EXCEPT ![k] = @ + 1]
             c == T!TcpOn(smtp.tcp, "eof")
             s == [smtp EXCEPT !.buf = "empty", !.cur = smtp.cur + 1]
  <1>1. /\ M!Reading /\ smtp.st = "SentContent" /\ accepted' = a /\ UNCHANGED <<added, sessions>>
        /\ IF arrives THEN done' = d /\ smtp' = M!NextMessage(s) /\ failed' = failed
           ELSE M!After(smtp, c) /\ done' = done
    BY SmtpTcp DEF M!Accept, M!Reply, M!Current
  <1>2. smtp \in SmtpRecords /\ smtp.act /\ ~smtp.tcp.gone /\ smtp.tcp.st = "Connected"
        /\ smtp.tcp \in T!TcpRecords /\ smtp.tcp \in TcpStates
    BY <1>1, ReadingIs DEF SmtpRecords
  <1>3. /\ smtp.queue \in Seq(Msg) /\ smtp.cur \in 1 .. Len(smtp.queue) /\ k \in Msg
        /\ DOMAIN smtp.queue = 1 .. Len(smtp.queue) /\ Len(smtp.queue) \in Nat
    <2>1. smtp.queue \in Seq(Msg) /\ smtp.cur \in 1 .. Len(smtp.queue) + 1
      BY DEF SmtpInv, Booked, SmtpRecords
    <2>2. smtp.cur <= Len(smtp.queue)
      BY <1>1 DEF SmtpInv, Booked, InMail
    <2> QED
      BY <2>1, <2>2
  <1>10. k = smtp.queue[smtp.cur] /\ smtp.cur \in DOMAIN smtp.queue
    BY <1>3
  <1> HIDE DEF k
  <1>11. accepted \in [Msg -> Nat] /\ done \in [Msg -> Nat] /\ sessions \in Nat
    BY DEF SmtpInv, Booked
  <1>12. /\ \A m \in Msg : done[m] <= accepted[m] /\ accepted[m] <= sessions
         /\ \A m \in Msg \ added : accepted[m] = 0
         /\ \A i \in DOMAIN smtp.queue : smtp.queue[i] \in added
    BY DEF SmtpInv, Booked
  <1>13. \A i \in DOMAIN smtp.queue : smtp.queue[i] = k => i = smtp.cur
    BY <1>10 DEF SmtpInv, Booked
  <1>14. /\ \A i \in smtp.cur .. Len(smtp.queue) : accepted[smtp.queue[i]] < sessions
         /\ \A i \in 1 .. smtp.cur - 1 : done[smtp.queue[i]] > 0
    BY <1>2 DEF SmtpInv, Booked, LeftToSend
  <1>15. accepted[k] < sessions /\ k \in added
    <2>1. smtp.cur \in smtp.cur .. Len(smtp.queue)
      BY <1>3
    <2> QED
      BY <1>10, <1>12, <1>14, <2>1
  <1>5. /\ a \in [Msg -> Nat] /\ a[k] = accepted[k] + 1
        /\ \A m \in Msg \ {k} : a[m] = accepted[m]
        /\ d \in [Msg -> Nat] /\ d[k] = done[k] + 1
        /\ \A m \in Msg \ {k} : d[m] = done[m]
    BY <1>3, <1>11
  <1> HIDE DEF a, d
  <1>6. \A m \in Msg : d[m] <= a[m] /\ done[m] <= a[m] /\ a[m] <= sessions
    <2>1. ASSUME NEW m \in Msg PROVE d[m] <= a[m] /\ done[m] <= a[m] /\ a[m] <= sessions
      <3>1. accepted[m] \in Nat /\ done[m] \in Nat
        BY <1>11
      <3> QED
        BY <1>5, <1>11, <1>12, <1>15, <3>1
    <2> QED
      BY <2>1
  <1>7. \A m \in Msg \ added : a[m] = 0
    BY <1>5, <1>12, <1>15
  <1>8. CASE ~arrives
    <2>1. Booked(smtp, a, done, failed, added, sessions)
      BY <1>5, <1>6, <1>7 DEF SmtpInv, Booked
    <2>2. Kept(c) /\ TcpOver(c)
      <3> DEFINE i == T!ResetIdle(smtp.tcp)
      <3>1. "eof" \in T!TcpEvents /\ c = T!TcpClose(i)
        BY DEF T!TcpEvents, T!TcpOn, T!TcpReading
      <3>2. i \in TcpStates /\ i.st = "Connected" /\ ~i.gone
        BY <1>2, KeptParts DEF Kept
      <3> HIDE DEF c, i
      <3> QED
        BY <3>1, <3>2, KeptParts DEF TcpOver, T!TcpClose, T!TcpCleanup, TcpStates
    <2> DEFINE h == T!TcpHeard(c)
               u == [smtp EXCEPT !.tcp = h]
    <2>3. h \in T!TcpRecords /\ ~h.gone /\ Dead(h)
      <3>1. h \in T!TcpRecords
        BY <2>2, TcpParts DEF Kept
      <3> HIDE DEF c
      <3> QED
        BY <2>2, <3>1 DEF Dead, T!TcpHeard, TcpStates, Kept, TcpOver
    <2> HIDE DEF c, h
    <2>4. M!EnterError(u)
      <3>1. u = [smtp EXCEPT !.tcp = M!TcpHeard(c)]
        BY SmtpTcp DEF h
      <3> HIDE DEF u
      <3>2. M!After(smtp, c) /\ c.ev \in {"close", "error"} /\ smtp.st = "SentContent"
        BY <1>1, <1>8, <2>2 DEF TcpOver
      <3> QED
        BY <3>1, <3>2 DEF M!After
    <2>5. /\ u \in SmtpRecords /\ u.queue = smtp.queue /\ u.cur = smtp.cur /\ u.act
          /\ u.st = smtp.st /\ u.tcp = h /\ u.rcpt = smtp.rcpt
      BY <1>2, <2>3 DEF SmtpRecords
    <2> HIDE DEF u
    <2>6. Booked(u, a, done, failed, added, sessions)
      BY <1>2, <2>1, <2>3, <2>5 DEF Booked
    <2>7. Booked(smtp', a, done, failed', added, sessions) /\ LeftToSend(smtp', a, sessions)
      BY <2>3, <2>4, <2>5, <2>6, SessionFails
    <2> QED
      BY <1>1, <1>8, <2>7 DEF SmtpInv
  <1>9. CASE arrives
    <2> DEFINE st == IF smtp.cur + 1 > Len(smtp.queue) THEN "SentQuit" ELSE "SentMailFrom"
               r == M!Command(s, st)
    <2>1. smtp.cur + 1 \in Nat
      BY <1>3
    <2>2. /\ s \in SmtpRecords /\ s.queue = smtp.queue /\ s.cur = smtp.cur + 1 /\ s.act
          /\ s.tcp = smtp.tcp
      BY <1>2, <2>1 DEF SmtpRecords
    <2> HIDE DEF s
    <2>3. st \in M!States \ AtRest /\ st # "SentRcptTo" /\ (st \in InMail => smtp.cur + 1 <= Len(smtp.queue))
      BY <1>3 DEF M!States, AtRest, InMail
    <2>4. smtp' = r
      BY <1>1, <1>9, <2>2 DEF M!NextMessage
    <2> HIDE DEF st
    <2>5. /\ r \in SmtpRecords /\ r.queue = smtp.queue /\ r.cur = smtp.cur + 1 /\ r.act
          /\ r.st = st /\ ~r.tcp.gone
      BY <1>2, <2>2, <2>3, CommandIs
    <2> HIDE DEF r
    <2>6. /\ r.cur \in 1 .. Len(r.queue) + 1
          /\ r.st \in InMail => r.cur <= Len(r.queue)
      BY <1>3, <2>3, <2>5
    <2>7. \A i \in 1 .. r.cur - 1 : d[r.queue[i]] > 0
      <3>1. SUFFICES ASSUME NEW i \in 1 .. smtp.cur PROVE d[smtp.queue[i]] > 0
        BY <1>3, <2>5
      <3>2. smtp.queue[i] \in Msg
        BY <1>3, <3>1
      <3>3. i = smtp.cur \/ i \in 1 .. smtp.cur - 1
        BY <1>3, <3>1
      <3>4. CASE smtp.queue[i] = k
        <4>1. done[k] \in Nat
          BY <1>3, <1>11
        <4> QED
          BY <1>5, <3>4, <4>1
      <3>5. CASE smtp.queue[i] # k
        <4>1. i \in 1 .. smtp.cur - 1
          BY <1>10, <3>3, <3>5
        <4>2. done[smtp.queue[i]] > 0
          BY <1>14, <4>1
        <4> QED
          BY <1>5, <3>2, <3>5, <4>2
      <3> QED
        BY <3>4, <3>5
    <2>8. \A i \in r.cur .. Len(r.queue) : a[r.queue[i]] < sessions
      <3>1. SUFFICES ASSUME NEW i \in smtp.cur + 1 .. Len(smtp.queue) PROVE a[smtp.queue[i]] < sessions
        BY <2>5
      <3>2. i \in smtp.cur .. Len(smtp.queue) /\ i \in DOMAIN smtp.queue /\ smtp.cur \in DOMAIN smtp.queue
            /\ i # smtp.cur
        BY <1>3, <3>1
      <3>3. smtp.queue[i] # k /\ smtp.queue[i] \in Msg
        BY <1>3, <1>13, <3>2
      <3> QED
        BY <1>5, <1>14, <3>2, <3>3
    <2>9. /\ \A i \in DOMAIN r.queue : r.queue[i] \in added
          /\ \A i, j \in DOMAIN r.queue : r.queue[i] = r.queue[j] => i = j
          /\ sessions > 0 /\ sessions \in 0 .. MaxSessions /\ added \subseteq Msg
          /\ failed \in [Msg -> Nat] /\ \A m \in Msg : failed[m] <= sessions /\ failed[m] < sessions
      BY <1>2, <2>5 DEF SmtpInv, Booked
    <2>10. Booked(r, a, d, failed, added, sessions) /\ LeftToSend(r, a, sessions)
      BY <1>5, <1>6, <1>7, <2>3, <2>5, <2>6, <2>7, <2>8, <2>9 DEF Booked, LeftToSend
    <2> QED
      BY <1>1, <1>9, <2>4, <2>10 DEF SmtpInv
  <1> QED
    BY <1>8, <1>9

LEMMA ByeHolds == ASSUME SmtpInv, M!Bye PROVE SmtpInv'
  <1> DEFINE c == T!TcpClose(smtp.tcp)
             h == T!TcpHeard(c)
             r == [smtp EXCEPT !.st = "Done", !.act = FALSE, !.buf = "empty", !.queue = <<>>,
                               !.cur = 1, !.tcp = h]
  <1>1. M!Reading /\ smtp' = r /\ UNCHANGED <<accepted, done, failed, added, sessions>>
    BY SmtpTcp DEF M!Bye, M!Reply
  <1>2. smtp \in SmtpRecords /\ smtp.act /\ ~smtp.tcp.gone /\ smtp.tcp.st = "Connected"
        /\ smtp.tcp \in TcpStates
    BY <1>1, ReadingIs
  <1>3. h \in T!TcpRecords /\ ~h.gone /\ Dead(h)
    <2>1. Kept(c) /\ Dead(c)
      <3>1. Kept(c)
        BY <1>2, KeptParts
      <3>2. Dead(c)
        BY <1>2 DEF Dead, T!TcpClose, T!TcpCleanup, TcpStates
      <3> QED
        BY <3>1, <3>2
    <2>2. h = T!TcpHeard(c)
      OBVIOUS
    <2> HIDE DEF c, h
    <2>3. h \in T!TcpRecords
      BY <2>1, <2>2, TcpParts DEF Kept
    <2> QED
      BY <2>1, <2>2, <2>3 DEF Dead, Kept, T!TcpHeard, TcpStates
  <1> HIDE DEF h
  <1>4. <<>> \in Seq(Msg) /\ Len(<<>>) = 0 /\ DOMAIN <<>> = {}
    OBVIOUS
  <1>5. r \in SmtpRecords /\ r.st = "Done" /\ ~r.act /\ r.queue = <<>> /\ r.cur = 1 /\ r.tcp = h
    BY <1>2, <1>3, <1>4 DEF SmtpRecords, M!States
  <1> HIDE DEF r
  <1>6. r.st \in AtRest /\ r.st \notin InMail /\ r.st # "SentRcptTo"
        /\ r.cur \in 1 .. Len(r.queue) + 1 /\ DOMAIN r.queue = {}
    BY <1>4, <1>5 DEF AtRest, InMail
  <1>7. Booked(r, accepted, done, failed, added, sessions) /\ LeftToSend(r, accepted, sessions)
    BY <1>3, <1>5, <1>6 DEF SmtpInv, Booked, LeftToSend
  <1> QED
    BY <1>1, <1>7 DEF SmtpInv

LEMMA SmtpNextKeeps == ASSUME SmtpInv, [M!SmtpNext]_(M!smVars) PROVE SmtpInv'
  <1>1. ASSUME NEW m \in Msg, M!Add(m) PROVE SmtpInv'
    BY <1>1, AddHolds
  <1>2. ASSUME NEW how \in M!Hows, M!SendMail(how) PROVE SmtpInv'
    BY <1>2, SmtpTcp, SendMailHolds
  <1>3. ASSUME NEW e \in M!TcpEvents, M!News(e) PROVE SmtpInv'
    BY <1>3, SmtpTcp, SmtpNewsHolds
  <1>4. ASSUME NEW valid \in BOOLEAN, M!Refusal(valid) PROVE SmtpInv'
    BY <1>4, RefusalHolds
  <1>5. ASSUME NEW arrives \in BOOLEAN, M!Accept(arrives) PROVE SmtpInv'
    BY <1>5, AcceptHolds
  <1>6. CASE M!Partial \/ M!Expected \/ M!TlsReady \/ M!Bye
    BY <1>6, PartialHolds, ExpectedHolds, TlsReadyHolds, ByeHolds
  <1>7. CASE UNCHANGED M!smVars
    BY <1>7 DEF M!smVars, SmtpInv, Booked, LeftToSend
  <1> QED
    BY <1>1, <1>2, <1>3, <1>4, <1>5, <1>6, <1>7 DEF M!SmtpNext

LEMMA SmtpPromises == ASSUME SmtpInv PROVE M!DoneMeansAccepted /\ M!SmtpTypeOK
  <1>1. M!DoneMeansAccepted
    BY DEF SmtpInv, Booked, M!DoneMeansAccepted, InMail
  <1>2. smtp \in SmtpRecords /\ smtp.cur \in 1 .. Len(smtp.queue) + 1
    BY DEF SmtpInv, Booked
  <1>3. \A m \in Msg : {accepted[m], done[m], failed[m]} \subseteq 0 .. MaxSessions
    <2>1. /\ {accepted, done, failed} \subseteq [Msg -> Nat] /\ sessions \in 0 .. MaxSessions
          /\ \A m \in Msg : done[m] <= accepted[m] /\ accepted[m] <= sessions /\ failed[m] <= sessions
      BY DEF SmtpInv, Booked
    <2>2. ASSUME NEW m \in Msg
          PROVE  accepted[m] \in 0 .. MaxSessions /\ done[m] \in 0 .. MaxSessions
                 /\ failed[m] \in 0 .. MaxSessions
      BY <2>1, SocketsConstants
    <2> QED
      BY <2>2
  <1>4. added \subseteq Msg /\ sessions \in 0 .. MaxSessions
    BY DEF SmtpInv, Booked
  <1>5. M!SmtpTypeOK
    BY <1>2, <1>3, <1>4, SmtpTcp DEF SmtpRecords, M!SmtpTypeOK
  <1> QED
    BY <1>1, <1>5

-----------------------------------------------------------------------------
(* CurlClient: libcurl is called back whenever it asked to be.             *)

CurlRecords ==
    [ xf : [Xfer -> {"none", "kick", "wait", "done", "told"}],
      sock : [Xfer -> Fds \cup {C!NoFd}], told : [Xfer -> 0 .. 1],
      want : {"none", "now", "later"}, known : BOOLEAN, armed : 0 .. 1,
      fds : SUBSET Fds, lost : SUBSET Fds, lostTimer : BOOLEAN,
      gone : SUBSET Fds, timed : BOOLEAN, live : BOOLEAN ]

\* There is a timer if and only if libcurl asked for one.
CurlTimed(c) ==
    /\ c.armed = IF c.known THEN 1 ELSE 0
    /\ c.known <=> c.want # "none"

\* A transfer that waits has a socket of its own, which is watched or reported lost.
CurlWired(c) ==
    /\ c.lost # {} => c.lostTimer
    /\ c.lost \subseteq c.gone
    /\ \A x \in Xfer : c.xf[x] = "wait" => c.sock[x] \in c.fds \cup c.lost
    /\ \A x \in Xfer : c.xf[x] = "wait" <=> c.sock[x] # C!NoFd
    /\ \A x, y \in Xfer : c.sock[x] = c.sock[y] /\ c.sock[x] # C!NoFd => x = y

CurlTold(c) == \A x \in Xfer : c.told[x] = IF c.xf[x] = "told" THEN 1 ELSE 0

CurlOk(c) == c \in CurlRecords /\ c.live /\ CurlTimed(c) /\ CurlWired(c) /\ CurlTold(c)

CurlInv ==
    /\ curl \in CurlRecords /\ losses \in 0 .. MaxLosses
    /\ curl.live => CurlOk(curl)
    /\ ~curl.live => ~curl.known /\ curl.armed = 0 /\ ~curl.lostTimer

\* Wherever a method leaves off, the timer is what libcurl wants.
LEMMA RetimerIsOk ==
    ASSUME NEW c, CurlOk(c)
    PROVE  CurlOk(C!Retimer(c)) /\ C!Retimer(c).xf = c.xf
  <1> DEFINE w == C!Wants(c)
             b == [c EXCEPT !.want = w]
             u == IF b.known THEN [b EXCEPT !.known = FALSE, !.armed = b.armed - 1] ELSE b
             m == u.armed + 1
             v == [u EXCEPT !.known = TRUE, !.armed = m]
             d == IF w = "none" THEN u ELSE v
  <1>1. C!Retimer(c) = IF w = c.want THEN c ELSE d
    BY DEF C!Retimer, C!TimerCallback
  <1>2. c \in CurlRecords /\ c.live
    BY DEF CurlOk
  <1>3. w \in {"none", "now", "later"}
    BY DEF C!Wants
  <1> HIDE DEF w
  <1>4. /\ b \in CurlRecords /\ b.want = w /\ b.known = c.known /\ b.armed = c.armed
        /\ b.xf = c.xf /\ b.sock = c.sock /\ b.told = c.told /\ b.fds = c.fds /\ b.lost = c.lost
        /\ b.lostTimer = c.lostTimer /\ b.gone = c.gone /\ b.live = c.live
    BY <1>2, <1>3 DEF CurlRecords
  <1> HIDE DEF b
  <1>5. b.armed = IF b.known THEN 1 ELSE 0
    BY <1>4 DEF CurlOk, CurlTimed
  <1>6. /\ u \in CurlRecords /\ u.want = w /\ ~u.known /\ u.armed = 0
        /\ u.xf = c.xf /\ u.sock = c.sock /\ u.told = c.told /\ u.fds = c.fds /\ u.lost = c.lost
        /\ u.lostTimer = c.lostTimer /\ u.gone = c.gone /\ u.live = c.live
    <2>1. b.known \in BOOLEAN
      BY <1>4 DEF CurlRecords
    <2>2. CASE b.known
      <3> DEFINE n == b.armed - 1
                 q == [b EXCEPT !.known = FALSE, !.armed = n]
      <3>1. n = 0 /\ n \in 0 .. 1
        BY <1>5, <2>2
      <3>3. u = q
        BY <2>2 DEF u
      <3> HIDE DEF n
      <3>2. /\ q \in CurlRecords /\ q.want = w /\ ~q.known /\ q.armed = 0
            /\ q.xf = c.xf /\ q.sock = c.sock /\ q.told = c.told /\ q.fds = c.fds
            /\ q.lost = c.lost /\ q.lostTimer = c.lostTimer /\ q.gone = c.gone /\ q.live = c.live
        BY <1>4, <3>1 DEF CurlRecords
      <3> QED
        BY <3>2, <3>3
    <2>3. CASE ~b.known
      BY <1>4, <1>5, <2>3
    <2> QED
      BY <2>1, <2>2, <2>3
  <1>9. m = 1 /\ m \in 0 .. 1
    BY <1>6
  <1> HIDE DEF u, m
  <1>7. /\ v \in CurlRecords /\ v.want = w /\ v.known /\ v.armed = 1
        /\ v.xf = c.xf /\ v.sock = c.sock /\ v.told = c.told /\ v.fds = c.fds /\ v.lost = c.lost
        /\ v.lostTimer = c.lostTimer /\ v.gone = c.gone /\ v.live = c.live
    BY <1>6, <1>9 DEF CurlRecords
  <1> HIDE DEF v
  <1>10. /\ d \in CurlRecords /\ CurlTimed(d)
         /\ d.xf = c.xf /\ d.sock = c.sock /\ d.told = c.told /\ d.fds = c.fds /\ d.lost = c.lost
         /\ d.lostTimer = c.lostTimer /\ d.gone = c.gone /\ d.live = c.live
    BY <1>3, <1>6, <1>7 DEF CurlTimed
  <1> HIDE DEF d
  <1>8. CurlOk(d) /\ d.xf = c.xf
    BY <1>2, <1>10 DEF CurlOk, CurlWired, CurlTold
  <1> HIDE DEF d
  <1> QED
    BY <1>1, <1>8

\* A socket libcurl waits for is watched, or its loss will be reported.
LEMMA WatchIsOk ==
    ASSUME NEW c \in CurlRecords, NEW s \in Fds
    PROVE  LET d == C!Watch(c, s)
           IN  /\ d \in CurlRecords /\ d.live = c.live /\ d.xf = c.xf /\ d.sock = c.sock
               /\ d.told = c.told /\ d.want = c.want /\ d.known = c.known /\ d.armed = c.armed
               /\ d.gone = c.gone /\ s \in d.fds \cup d.lost
               /\ c.fds \cup c.lost \subseteq d.fds \cup d.lost
               /\ d.lost \subseteq c.lost \cup c.gone
               /\ (c.lost # {} => c.lostTimer) => (d.lost # {} => d.lostTimer)
  <1> DEFINE f == c.fds \ {s}
             l == c.lost \cup {s}
             g == c.fds \cup {s}
             a == [c EXCEPT !.fds = f, !.lost = l, !.lostTimer = TRUE]
             b == [c EXCEPT !.fds = g]
  <1>1. C!Watch(c, s) = IF s \in c.fds /\ s \in c.gone THEN a
                        ELSE IF s \notin c.fds /\ s \notin c.lost THEN b ELSE c
    BY DEF C!Watch
  <1>2. f \in SUBSET Fds /\ l \in SUBSET Fds /\ g \in SUBSET Fds
    BY DEF CurlRecords
  <1> HIDE DEF f, l, g
  <1>3. /\ a \in CurlRecords /\ a.live = c.live /\ a.xf = c.xf /\ a.sock = c.sock
        /\ a.told = c.told /\ a.want = c.want /\ a.known = c.known /\ a.armed = c.armed
        /\ a.gone = c.gone /\ a.fds = f /\ a.lost = l /\ a.lostTimer
    BY <1>2 DEF CurlRecords
  <1>4. /\ b \in CurlRecords /\ b.live = c.live /\ b.xf = c.xf /\ b.sock = c.sock
        /\ b.told = c.told /\ b.want = c.want /\ b.known = c.known /\ b.armed = c.armed
        /\ b.gone = c.gone /\ b.fds = g /\ b.lost = c.lost /\ b.lostTimer = c.lostTimer
    BY <1>2 DEF CurlRecords
  <1> HIDE DEF a, b
  <1>5. CASE s \in c.fds /\ s \in c.gone
    BY <1>1, <1>3, <1>5 DEF f, l
  <1>6. CASE s \notin c.fds /\ s \notin c.lost
    BY <1>1, <1>4, <1>6 DEF g
  <1>7. CASE ~(s \in c.fds /\ s \in c.gone) /\ ~(s \notin c.fds /\ s \notin c.lost)
    BY <1>1, <1>7
  <1> QED
    BY <1>5, <1>6, <1>7

LEMMA OverIsOk ==
    ASSUME NEW c, CurlOk(c), NEW x \in Xfer, c.xf[x] \in {"kick", "wait"}
    PROVE  CurlOk(C!Over(c, x)) /\ \A y \in Xfer : c.xf[y] = "none" => C!Over(c, x).xf[y] = "none"
  <1> DEFINE s == c.sock[x]
             f == c.fds \ {s}
             l == c.lost \ {s}
             g == c.gone \ {s}
             v == [c EXCEPT !.fds = f, !.lost = l, !.gone = g]
             u == IF s = C!NoFd THEN c ELSE v
             xs == [c.xf EXCEPT ![x] = "done"]
             ss == [c.sock EXCEPT ![x] = C!NoFd]
             d == [u EXCEPT !.xf = xs, !.sock = ss]
  <1>1. c \in CurlRecords /\ c.live
    BY DEF CurlOk
  <1>2. f \in SUBSET Fds /\ l \in SUBSET Fds /\ g \in SUBSET Fds
    BY <1>1 DEF CurlRecords
  <1>3. /\ xs \in [Xfer -> {"none", "kick", "wait", "done", "told"}]
        /\ ss \in [Xfer -> Fds \cup {C!NoFd}]
        /\ xs[x] = "done" /\ ss[x] = C!NoFd
        /\ \A y \in Xfer \ {x} : xs[y] = c.xf[y] /\ ss[y] = c.sock[y]
    BY <1>1 DEF CurlRecords
  <1> HIDE DEF f, l, g
  <1>4. /\ v \in CurlRecords /\ v.live = c.live /\ v.xf = c.xf /\ v.sock = c.sock
        /\ v.told = c.told /\ v.want = c.want /\ v.known = c.known /\ v.armed = c.armed
        /\ v.gone = g /\ v.fds = f /\ v.lost = l /\ v.lostTimer = c.lostTimer
    BY <1>1, <1>2 DEF CurlRecords
  <1>5. C!Over(c, x) = d
    <2> DEFINE p == IF s = C!NoFd THEN c ELSE C!Unwatch(c, s)
    <2>1. p = u
      BY DEF C!Unwatch, f, l, g
    <2>2. p.xf = c.xf /\ p.sock = c.sock
      BY <1>4, <2>1
    <2>3. C!Over(c, x) = [p EXCEPT !.xf[x] = "done", !.sock[x] = C!NoFd]
      BY DEF C!Over
    <2>4. [p EXCEPT !.xf[x] = "done", !.sock[x] = C!NoFd]
             = [p EXCEPT !.xf = [p.xf EXCEPT ![x] = "done"], !.sock = [p.sock EXCEPT ![x] = C!NoFd]]
      BY <1>1, <1>4, <2>1 DEF CurlRecords
    <2> QED
      BY <2>1, <2>2, <2>3, <2>4
  <1> HIDE DEF v, xs, ss
  <1>6. /\ u \in CurlRecords /\ u.live = c.live /\ u.told = c.told /\ u.want = c.want
        /\ u.known = c.known /\ u.armed = c.armed /\ u.lostTimer = c.lostTimer
        /\ s = C!NoFd => u.gone = c.gone /\ u.fds = c.fds /\ u.lost = c.lost
        /\ s # C!NoFd => u.gone = g /\ u.fds = f /\ u.lost = l
    BY <1>1, <1>4
  <1> HIDE DEF u
  <1>7. /\ d \in CurlRecords /\ d.live = c.live /\ d.told = c.told /\ d.want = c.want
        /\ d.known = c.known /\ d.armed = c.armed /\ d.lostTimer = c.lostTimer
        /\ d.gone = u.gone /\ d.fds = u.fds /\ d.lost = u.lost /\ d.xf = xs /\ d.sock = ss
    BY <1>3, <1>6 DEF CurlRecords
  <1> HIDE DEF d, s
  <1>8. CurlTimed(d)
    BY <1>7 DEF CurlOk, CurlTimed
  <1>9. CurlTold(d)
    BY <1>3, <1>7 DEF CurlOk, CurlTold
  <1>10. CurlWired(d)
    <2>1. CurlWired(c)
      BY DEF CurlOk
    <2>2. (d.lost # {} => d.lostTimer) /\ d.lost \subseteq d.gone
      BY <1>6, <1>7, <2>1 DEF CurlWired, l, g
    <2>3. ASSUME NEW y \in Xfer, d.xf[y] = "wait" PROVE d.sock[y] \in d.fds \cup d.lost
      <3>1. y # x /\ c.xf[y] = "wait" /\ d.sock[y] = c.sock[y] /\ c.sock[y] \in c.fds \cup c.lost
        BY <1>3, <1>7, <2>1, <2>3 DEF CurlWired
      <3>2. c.sock[y] # s \/ s = C!NoFd
        BY <2>1, <3>1 DEF CurlWired, s
      <3> QED
        BY <1>6, <1>7, <3>1, <3>2 DEF f, l
    <2>4. \A y \in Xfer : d.xf[y] = "wait" <=> d.sock[y] # C!NoFd
      BY <1>3, <1>7, <2>1 DEF CurlWired
    <2>5. \A y, z \in Xfer : d.sock[y] = d.sock[z] /\ d.sock[y] # C!NoFd => y = z
      BY <1>3, <1>7, <2>1 DEF CurlWired
    <2> QED
      BY <2>2, <2>3, <2>4, <2>5 DEF CurlWired
  <1> QED
    BY <1>1, <1>3, <1>5, <1>7, <1>8, <1>9, <1>10 DEF CurlOk

LEMMA OpensIsOk ==
    ASSUME NEW c, CurlOk(c), NEW x \in Xfer, c.xf[x] = "kick", NEW s \in Fds, s \in C!Free(c)
    PROVE  CurlOk(C!Opens(c, x, s)) /\ \A y \in Xfer : c.xf[y] = "none" => C!Opens(c, x, s).xf[y] = "none"
  <1> DEFINE xs == [c.xf EXCEPT ![x] = "wait"]
             ss == [c.sock EXCEPT ![x] = s]
             u == [c EXCEPT !.xf = xs, !.sock = ss]
             d == C!Watch(u, s)
  <1>1. c \in CurlRecords /\ c.live
    BY DEF CurlOk
  <1>2. /\ xs \in [Xfer -> {"none", "kick", "wait", "done", "told"}]
        /\ ss \in [Xfer -> Fds \cup {C!NoFd}]
        /\ xs[x] = "wait" /\ ss[x] = s
        /\ \A y \in Xfer \ {x} : xs[y] = c.xf[y] /\ ss[y] = c.sock[y]
    BY <1>1 DEF CurlRecords
  <1>3. C!Opens(c, x, s) = d
    <2>1. [c EXCEPT !.xf[x] = "wait", !.sock[x] = s] = u
      BY <1>1 DEF CurlRecords
    <2> QED
      BY <2>1 DEF C!Opens
  <1> HIDE DEF xs, ss
  <1>4. /\ u \in CurlRecords /\ u.live = c.live /\ u.told = c.told /\ u.want = c.want
        /\ u.known = c.known /\ u.armed = c.armed /\ u.lostTimer = c.lostTimer
        /\ u.gone = c.gone /\ u.fds = c.fds /\ u.lost = c.lost /\ u.xf = xs /\ u.sock = ss
    BY <1>1, <1>2 DEF CurlRecords
  <1> HIDE DEF u
  <1>5. /\ d \in CurlRecords /\ d.live = c.live /\ d.xf = xs /\ d.sock = ss
        /\ d.told = c.told /\ d.want = c.want /\ d.known = c.known /\ d.armed = c.armed
        /\ d.gone = c.gone /\ s \in d.fds \cup d.lost
        /\ c.fds \cup c.lost \subseteq d.fds \cup d.lost
        /\ d.lost \subseteq c.lost \cup c.gone
        /\ (c.lost # {} => c.lostTimer) => (d.lost # {} => d.lostTimer)
    BY <1>4, WatchIsOk
  <1> HIDE DEF d
  <1>6. CurlTimed(d) /\ CurlTold(d)
    BY <1>2, <1>5 DEF CurlOk, CurlTimed, CurlTold
  <1>7. CurlWired(d)
    <2>1. CurlWired(c)
      BY DEF CurlOk
    <2>2. s # C!NoFd /\ \A y \in Xfer : c.sock[y] # s
      BY SocketsConstants DEF C!Free, C!NoFd
    <2> QED
      BY <1>2, <1>5, <2>1, <2>2 DEF CurlWired
  <1> QED
    BY <1>1, <1>2, <1>3, <1>5, <1>6, <1>7 DEF CurlOk

LEMMA ProgressIsOk ==
    ASSUME NEW c, CurlOk(c), NEW x \in Xfer, NEW e \in C!Steps, C!Can(c, x, e)
    PROVE  CurlOk(C!Progress(c, x, e))
           /\ \A y \in Xfer : c.xf[y] = "none" => C!Progress(c, x, e).xf[y] = "none"
  <1>1. "over" \notin Fds /\ "turn" \notin Fds
    BY SocketsConstants
  <1>2. CASE e = "over"
    <2>1. C!Progress(c, x, e) = C!Over(c, x) /\ c.xf[x] \in {"kick", "wait"}
      BY <1>1, <1>2 DEF C!Progress, C!Can
    <2> QED
      BY <2>1, OverIsOk
  <1>3. CASE e = "turn"
    <2>1. C!Progress(c, x, e) = C!Watch(c, c.sock[x]) /\ c.xf[x] = "wait"
      BY <1>1, <1>3 DEF C!Progress, C!Can
    <2>2. c.sock[x] \in Fds /\ c \in CurlRecords
      BY <2>1 DEF CurlOk, CurlWired, CurlRecords
    <2> DEFINE d == C!Watch(c, c.sock[x])
    <2>3. /\ d \in CurlRecords /\ d.live = c.live /\ d.xf = c.xf /\ d.sock = c.sock
          /\ d.told = c.told /\ d.want = c.want /\ d.known = c.known /\ d.armed = c.armed
          /\ d.gone = c.gone
          /\ c.fds \cup c.lost \subseteq d.fds \cup d.lost
          /\ d.lost \subseteq c.lost \cup c.gone
          /\ (c.lost # {} => c.lostTimer) => (d.lost # {} => d.lostTimer)
      BY <2>2, WatchIsOk
    <2> HIDE DEF d
    <2>4. CurlOk(d)
      BY <2>3 DEF CurlOk, CurlTimed, CurlTold, CurlWired
    <2> QED
      BY <2>1, <2>3, <2>4 DEF d
  <1>4. CASE e \in Fds
    <2>1. e # "over" /\ e # "turn"
      BY <1>1, <1>4
    <2>2. C!Progress(c, x, e) = C!Opens(c, x, e) /\ c.xf[x] = "kick" /\ e \in C!Free(c)
      BY <1>4, <2>1 DEF C!Progress, C!Can
    <2> QED
      BY <1>4, <2>2, OpensIsOk
  <1> QED
    BY <1>2, <1>3, <1>4 DEF C!Steps

\* A transfer that has not begun is refused, or begins.
LEMMA PerformIsOk ==
    ASSUME NEW c, CurlOk(c), NEW x \in Xfer, c.xf[x] = "none", NEW taken \in BOOLEAN
    PROVE  CurlOk(C!Perform(c, x, taken))
  <1> DEFINE ks == [c.xf EXCEPT ![x] = "kick"]
             k == [c EXCEPT !.xf = ks]
             xs == [c.xf EXCEPT ![x] = "told"]
             ts == [c.told EXCEPT ![x] = c.told[x] + 1]
             r == [c EXCEPT !.xf = xs, !.told = ts]
  <1>1. c \in CurlRecords /\ c.live /\ CurlTimed(c) /\ CurlWired(c) /\ CurlTold(c)
    BY DEF CurlOk
  <1>2. C!Perform(c, x, taken) = IF taken THEN C!Retimer(k) ELSE r
    <2>1. [c EXCEPT !.xf[x] = "kick"] = k
      BY <1>1 DEF CurlRecords
    <2>2. [c EXCEPT !.xf[x] = "told", !.told[x] = @ + 1] = r
      BY <1>1 DEF CurlRecords
    <2> QED
      BY <2>1, <2>2 DEF C!Perform
  <1>3. /\ ks \in [Xfer -> {"none", "kick", "wait", "done", "told"}]
        /\ ks[x] = "kick" /\ \A y \in Xfer \ {x} : ks[y] = c.xf[y]
        /\ xs \in [Xfer -> {"none", "kick", "wait", "done", "told"}]
        /\ xs[x] = "told" /\ \A y \in Xfer \ {x} : xs[y] = c.xf[y]
    BY <1>1 DEF CurlRecords
  <1>4. ts \in [Xfer -> 0 .. 1] /\ ts[x] = 1 /\ \A y \in Xfer \ {x} : ts[y] = c.told[y]
    <2>1. c.told[x] = 0 /\ c.told \in [Xfer -> 0 .. 1]
      BY <1>1 DEF CurlRecords, CurlTold
    <2> QED
      BY <2>1
  <1> HIDE DEF ks, xs, ts
  <1>5. /\ k \in CurlRecords /\ k.live = c.live /\ k.xf = ks /\ k.sock = c.sock
        /\ k.told = c.told /\ k.want = c.want /\ k.known = c.known /\ k.armed = c.armed
        /\ k.gone = c.gone /\ k.fds = c.fds /\ k.lost = c.lost /\ k.lostTimer = c.lostTimer
    BY <1>1, <1>3 DEF CurlRecords
  <1>6. /\ r \in CurlRecords /\ r.live = c.live /\ r.xf = xs /\ r.sock = c.sock
        /\ r.told = ts /\ r.want = c.want /\ r.known = c.known /\ r.armed = c.armed
        /\ r.gone = c.gone /\ r.fds = c.fds /\ r.lost = c.lost /\ r.lostTimer = c.lostTimer
    BY <1>1, <1>3, <1>4 DEF CurlRecords
  <1> HIDE DEF k, r
  <1>7. CurlOk(k)
    BY <1>1, <1>3, <1>5 DEF CurlOk, CurlTimed, CurlWired, CurlTold
  <1>8. CurlOk(r)
    BY <1>1, <1>3, <1>4, <1>6 DEF CurlOk, CurlTimed, CurlWired, CurlTold
  <1> QED
    BY <1>2, <1>7, <1>8, RetimerIsOk

\* What a callback may do when a transfer is over, of a client that was c before.
LEMMA CheckIsOk ==
    ASSUME NEW c, CurlOk(c), NEW b, NEW nested \in C!Nested(b),
           \A y \in Xfer : b.xf[y] = "none" => c.xf[y] = "none"
    PROVE  CurlOk(C!CheckMultiInfo(c, nested))
  <1> DEFINE over == {x \in Xfer : c.xf[x] = "done"}
             xs == [x \in Xfer |-> IF x \in over THEN "told" ELSE c.xf[x]]
             ts == [x \in Xfer |-> IF x \in over THEN c.told[x] + 1 ELSE c.told[x]]
             d == [c EXCEPT !.xf = xs, !.told = ts]
             u == C!Retimer(d)
             n == CHOOSE n \in nested : TRUE
  <1>1. c \in CurlRecords /\ c.live /\ CurlTimed(c) /\ CurlWired(c) /\ CurlTold(c)
    BY DEF CurlOk
  <1>2. C!CheckMultiInfo(c, nested) = IF over = {} \/ nested = {} THEN u ELSE C!Perform(u, n[1], n[2])
    BY DEF C!CheckMultiInfo
  <1>3. xs \in [Xfer -> {"none", "kick", "wait", "done", "told"}]
    BY <1>1 DEF CurlRecords
  <1>4. ts \in [Xfer -> 0 .. 1] /\ \A x \in Xfer : ts[x] = IF xs[x] = "told" THEN 1 ELSE 0
    <2>1. ASSUME NEW x \in Xfer PROVE ts[x] \in 0 .. 1 /\ ts[x] = IF xs[x] = "told" THEN 1 ELSE 0
      <3>1. c.told[x] = IF c.xf[x] = "told" THEN 1 ELSE 0
        BY <1>1 DEF CurlTold
      <3> QED
        BY <3>1
    <2> QED
      BY <2>1
  <1>5. /\ \A x \in Xfer : xs[x] = "wait" <=> c.xf[x] = "wait"
        /\ \A x \in Xfer : c.xf[x] = "none" => xs[x] = "none"
    OBVIOUS
  <1> HIDE DEF xs, ts, over
  <1>6. /\ d \in CurlRecords /\ d.live = c.live /\ d.xf = xs /\ d.sock = c.sock
        /\ d.told = ts /\ d.want = c.want /\ d.known = c.known /\ d.armed = c.armed
        /\ d.gone = c.gone /\ d.fds = c.fds /\ d.lost = c.lost /\ d.lostTimer = c.lostTimer
    BY <1>1, <1>3, <1>4 DEF CurlRecords
  <1> HIDE DEF d
  <1>7. CurlOk(d)
    BY <1>1, <1>4, <1>5, <1>6 DEF CurlOk, CurlTimed, CurlWired, CurlTold
  <1>8. CurlOk(u) /\ u.xf = xs
    BY <1>6, <1>7, RetimerIsOk
  <1> HIDE DEF u
  <1>9. CASE over = {} \/ nested = {}
    BY <1>2, <1>8, <1>9
  <1>10. CASE over # {} /\ nested # {}
    <2>1. PICK x \in Xfer, taken \in BOOLEAN : nested = {<<x, taken>>} /\ b.xf[x] = "none"
      BY <1>10 DEF C!Nested
    <2>2. n = <<x, taken>>
      <3>1. n \in nested
        BY <2>1
      <3> QED
        BY <2>1, <3>1
    <2>3. u.xf[x] = "none"
      BY <1>5, <1>8, <2>1
    <2> HIDE DEF n
    <2> QED
      BY <1>2, <1>8, <1>10, <2>2, <2>3, PerformIsOk
  <1> QED
    BY <1>9, <1>10

\* A step that ends in check_multi_info() leaves the client as it should be.
LEMMA CurlStepHolds ==
    ASSUME CurlInv, NEW c, CurlOk(c), NEW nested \in C!Nested(curl),
           \A y \in Xfer : curl.xf[y] = "none" => c.xf[y] = "none",
           curl' = C!CheckMultiInfo(c, nested), UNCHANGED losses
    PROVE  CurlInv'
  <1>1. CurlOk(curl')
    BY CheckIsOk
  <1> QED
    BY <1>1 DEF CurlInv, CurlOk

LEMMA UserPerformsHolds ==
    ASSUME NEW x \in Xfer, NEW taken \in BOOLEAN, CurlInv, C!UserPerforms(x, taken)
    PROVE  CurlInv'
  <1>1. CurlOk(curl) /\ curl.xf[x] = "none" /\ curl' = C!Perform(curl, x, taken) /\ losses' = losses
    BY DEF CurlInv, C!UserPerforms
  <1>2. CurlOk(curl')
    BY <1>1, PerformIsOk
  <1> QED
    BY <1>1, <1>2 DEF CurlInv, CurlOk

LEMMA SocketReadyHolds ==
    ASSUME NEW x \in Xfer, NEW e \in C!Steps, NEW nested \in C!Nested(curl), CurlInv,
           C!SocketReady(x, e, nested)
    PROVE  CurlInv'
  <1> DEFINE p == C!Progress(curl, x, e)
             c == C!Retimer(p)
  <1>1. CurlOk(curl) /\ C!Can(curl, x, e) /\ curl' = C!CheckMultiInfo(c, nested) /\ losses' = losses
    BY DEF CurlInv, C!SocketReady
  <1>2. CurlOk(p) /\ \A y \in Xfer : curl.xf[y] = "none" => p.xf[y] = "none"
    BY <1>1, ProgressIsOk
  <1> HIDE DEF p
  <1>3. CurlOk(c) /\ c.xf = p.xf
    BY <1>2, RetimerIsOk
  <1> HIDE DEF c
  <1> QED
    BY <1>1, <1>2, <1>3, CurlStepHolds

LEMMA TimerFiresHolds ==
    ASSUME NEW x \in Xfer, NEW e \in C!Steps, NEW nested \in C!Nested(curl), CurlInv,
           C!TimerFires(x, e, nested)
    PROVE  CurlInv'
  <1> DEFINE m == curl.armed - 1
             f == [curl EXCEPT !.armed = m, !.known = FALSE, !.want = "none"]
             p == C!Progress(f, x, e)
             c == C!Retimer(p)
  <1>1. curl.armed > 0 /\ C!Can(curl, x, e) /\ curl' = C!CheckMultiInfo(c, nested) /\ losses' = losses
    BY DEF C!TimerFires, C!Fired
  <1>2. CurlOk(curl) /\ curl \in CurlRecords /\ curl.live
    BY <1>1 DEF CurlInv, CurlOk
  <1>3. m = 0 /\ m \in 0 .. 1
    <2>1. curl.armed = IF curl.known THEN 1 ELSE 0
      BY <1>2 DEF CurlOk, CurlTimed
    <2> QED
      BY <1>1, <2>1
  <1> HIDE DEF m
  <1>4. /\ f \in CurlRecords /\ f.live = curl.live /\ f.xf = curl.xf /\ f.sock = curl.sock
        /\ f.told = curl.told /\ f.want = "none" /\ ~f.known /\ f.armed = 0
        /\ f.gone = curl.gone /\ f.fds = curl.fds /\ f.lost = curl.lost
        /\ f.lostTimer = curl.lostTimer
    BY <1>2, <1>3 DEF CurlRecords
  <1> HIDE DEF f
  <1>5. CurlOk(f)
    BY <1>2, <1>4 DEF CurlOk, CurlTimed, CurlWired, CurlTold
  <1>6. C!Can(f, x, e)
    BY <1>1, <1>4 DEF C!Can, C!Free
  <1>7. CurlOk(p) /\ \A y \in Xfer : curl.xf[y] = "none" => p.xf[y] = "none"
    BY <1>4, <1>5, <1>6, ProgressIsOk
  <1> HIDE DEF p
  <1>8. CurlOk(c) /\ c.xf = p.xf
    BY <1>7, RetimerIsOk
  <1> HIDE DEF c
  <1> QED
    BY <1>1, <1>7, <1>8, CurlStepHolds

LEMMA ClosedUnderHolds == ASSUME NEW s \in Fds, CurlInv, C!ClosedUnder(s) PROVE CurlInv'
  <1> DEFINE g == curl.gone \cup {s}
             d == [curl EXCEPT !.gone = g]
  <1>1. curl.live /\ losses < MaxLosses /\ losses' = losses + 1 /\ curl' = d
    BY DEF C!ClosedUnder
  <1>2. CurlOk(curl) /\ curl \in CurlRecords
    BY <1>1 DEF CurlInv
  <1>3. g \in SUBSET Fds /\ curl.gone \subseteq g
    BY <1>2 DEF CurlRecords
  <1> HIDE DEF g
  <1>4. /\ d \in CurlRecords /\ d.live = curl.live /\ d.xf = curl.xf /\ d.sock = curl.sock
        /\ d.told = curl.told /\ d.want = curl.want /\ d.known = curl.known
        /\ d.armed = curl.armed /\ d.gone = g /\ d.fds = curl.fds /\ d.lost = curl.lost
        /\ d.lostTimer = curl.lostTimer
    BY <1>2, <1>3 DEF CurlRecords
  <1> HIDE DEF d
  <1>5. CurlOk(d)
    BY <1>2, <1>3, <1>4 DEF CurlOk, CurlTimed, CurlWired, CurlTold
  <1>6. losses' \in 0 .. MaxLosses
    <2>1. MaxLosses \in Nat
      BY SocketsConstants
    <2> QED
      BY <1>1, <2>1 DEF CurlInv
  <1> QED
    BY <1>1, <1>5, <1>6 DEF CurlInv, CurlOk

LEMMA LostTimerHolds ==
    ASSUME NEW nested \in C!Nested(curl), CurlInv, C!LostTimer(nested)
    PROVE  CurlInv'
  <1> DEFINE hit == {x \in Xfer : curl.sock[x] \in curl.lost}
             shut == {curl.sock[x] : x \in hit}
             f == curl.fds \ shut
             g == curl.gone \ shut
             xs == [x \in Xfer |-> IF x \in hit THEN "done" ELSE curl.xf[x]]
             ss == [x \in Xfer |-> IF x \in hit THEN C!NoFd ELSE curl.sock[x]]
             u == [curl EXCEPT !.lostTimer = FALSE, !.lost = {}, !.fds = f, !.gone = g,
                               !.xf = xs, !.sock = ss]
             c == C!Retimer(u)
  <1>1. curl.lostTimer /\ curl' = C!CheckMultiInfo(c, nested) /\ losses' = losses
    BY DEF C!LostTimer
  <1>2. CurlOk(curl) /\ curl \in CurlRecords /\ curl.live /\ CurlWired(curl)
    BY <1>1 DEF CurlInv, CurlOk
  <1>3. f \in SUBSET Fds /\ g \in SUBSET Fds /\ {} \in SUBSET Fds
    BY <1>2 DEF CurlRecords
  <1>4. /\ xs \in [Xfer -> {"none", "kick", "wait", "done", "told"}]
        /\ ss \in [Xfer -> Fds \cup {C!NoFd}]
    BY <1>2 DEF CurlRecords
  <1>5. \A x \in Xfer : /\ x \in hit => xs[x] = "done" /\ ss[x] = C!NoFd /\ curl.xf[x] = "wait"
                        /\ x \notin hit => xs[x] = curl.xf[x] /\ ss[x] = curl.sock[x]
    <2>1. C!NoFd \notin curl.lost
      BY <1>2, SocketsConstants DEF CurlRecords, C!NoFd
    <2> QED
      BY <1>2, <2>1 DEF CurlWired
  <1>6. \A x \in Xfer : x \notin hit /\ curl.xf[x] = "wait" => curl.sock[x] \in f
    <2>1. SUFFICES ASSUME NEW x \in Xfer, x \notin hit, curl.xf[x] = "wait"
                   PROVE  curl.sock[x] \in f
      OBVIOUS
    <2>2. curl.sock[x] \in curl.fds
      BY <1>2, <2>1 DEF CurlWired
    <2>3. curl.sock[x] \notin shut
      BY <2>1
    <2> QED
      BY <2>2, <2>3
  <1> HIDE DEF hit, shut, f, g, xs, ss
  <1>7. /\ u \in CurlRecords /\ u.live = curl.live /\ u.xf = xs /\ u.sock = ss
        /\ u.told = curl.told /\ u.want = curl.want /\ u.known = curl.known
        /\ u.armed = curl.armed /\ u.gone = g /\ u.fds = f /\ u.lost = {}
    BY <1>2, <1>3, <1>4 DEF CurlRecords
  <1> HIDE DEF u
  <1>8. CurlTimed(u) /\ CurlTold(u)
    BY <1>2, <1>5, <1>7 DEF CurlOk, CurlTimed, CurlTold
  <1>9. CurlWired(u)
    BY <1>2, <1>5, <1>6, <1>7 DEF CurlWired
  <1>10. CurlOk(u) /\ \A y \in Xfer : curl.xf[y] = "none" => u.xf[y] = "none"
    BY <1>2, <1>5, <1>7, <1>8, <1>9 DEF CurlOk
  <1>11. CurlOk(c) /\ c.xf = u.xf
    BY <1>10, RetimerIsOk
  <1> HIDE DEF c
  <1> QED
    BY <1>1, <1>10, <1>11, CurlStepHolds

LEMMA CurlDestroyHolds == ASSUME CurlInv, C!Destroy PROVE CurlInv'
  <1> DEFINE m == IF curl.known THEN curl.armed - 1 ELSE curl.armed
             d == [curl EXCEPT !.live = FALSE, !.known = FALSE, !.lostTimer = FALSE,
                               !.armed = m, !.fds = {}]
  <1>1. curl.live /\ curl' = d /\ losses' = losses
    BY DEF C!Destroy
  <1>2. curl \in CurlRecords /\ curl.armed = IF curl.known THEN 1 ELSE 0
    BY <1>1 DEF CurlInv, CurlOk, CurlTimed
  <1>3. m = 0 /\ m \in 0 .. 1 /\ {} \in SUBSET Fds
    BY <1>2 DEF CurlRecords
  <1> HIDE DEF m
  <1>4. d \in CurlRecords /\ ~d.live /\ ~d.known /\ ~d.lostTimer /\ d.armed = 0
    BY <1>2, <1>3 DEF CurlRecords
  <1> HIDE DEF d
  <1> QED
    BY <1>1, <1>4 DEF CurlInv

LEMMA CurlBegins == ASSUME C!CurlInit PROVE CurlInv
  <1> DEFINE xs == [x \in Xfer |-> "none"]
             ss == [x \in Xfer |-> C!NoFd]
             ts == [x \in Xfer |-> 0]
  <1>1. PICK timed \in BOOLEAN :
          curl = [ xf |-> xs, sock |-> ss, told |-> ts, want |-> "none", known |-> FALSE,
                   armed |-> 0, fds |-> {}, lost |-> {}, lostTimer |-> FALSE,
                   gone |-> {}, timed |-> timed, live |-> TRUE ]
    BY DEF C!CurlInit
  <1>2. /\ xs \in [Xfer -> {"none", "kick", "wait", "done", "told"}]
        /\ ss \in [Xfer -> Fds \cup {C!NoFd}] /\ ts \in [Xfer -> 0 .. 1]
        /\ \A x \in Xfer : xs[x] = "none" /\ ss[x] = C!NoFd /\ ts[x] = 0
    OBVIOUS
  <1> HIDE DEF xs, ss, ts
  <1>3. /\ curl \in CurlRecords /\ curl.live /\ ~curl.known /\ curl.armed = 0 /\ curl.want = "none"
        /\ curl.lost = {} /\ curl.xf = xs /\ curl.sock = ss /\ curl.told = ts
    BY <1>1, <1>2 DEF CurlRecords
  <1>4. losses \in 0 .. MaxLosses
    <2>1. MaxLosses \in Nat
      BY SocketsConstants
    <2> QED
      BY <2>1 DEF C!CurlInit
  <1> QED
    BY <1>2, <1>3, <1>4 DEF CurlInv, CurlOk, CurlTimed, CurlWired, CurlTold

LEMMA CurlNextKeeps == ASSUME CurlInv, [C!CurlNext]_(C!ccVars) PROVE CurlInv'
  <1>1. ASSUME NEW x \in Xfer, NEW taken \in BOOLEAN, C!UserPerforms(x, taken) PROVE CurlInv'
    BY <1>1, UserPerformsHolds
  <1>2. ASSUME NEW x \in Xfer, NEW e \in C!Steps, NEW nested \in C!Nested(curl),
               C!SocketReady(x, e, nested) \/ C!TimerFires(x, e, nested)
        PROVE  CurlInv'
    BY <1>2, SocketReadyHolds, TimerFiresHolds
  <1>3. ASSUME NEW s \in Fds, C!ClosedUnder(s) PROVE CurlInv'
    BY <1>3, ClosedUnderHolds
  <1>4. ASSUME NEW nested \in C!Nested(curl), C!LostTimer(nested) PROVE CurlInv'
    BY <1>4, LostTimerHolds
  <1>5. CASE C!Destroy
    BY <1>5, CurlDestroyHolds
  <1>6. CASE UNCHANGED C!ccVars
    BY <1>6 DEF C!ccVars, CurlInv
  <1> QED
    BY <1>1, <1>2, <1>3, <1>4, <1>5, <1>6 DEF C!CurlNext

LEMMA CurlPromises == ASSUME CurlInv PROVE C!CurlIsHeard /\ C!CurlTypeOK
  <1>1. C!CurlTypeOK
    BY DEF CurlInv, C!CurlTypeOK, CurlRecords
  <1>2. C!CurlIsHeard
    BY DEF CurlInv, C!CurlIsHeard, CurlOk, CurlTimed, CurlWired
  <1> QED
    BY <1>1, <1>2

-----------------------------------------------------------------------------
(* WsConnection: frames go out whole, and a peer that is gone is noticed.  *)

Whys == {"open", "lost", "cap", "bye", "silence"}

WsRecords ==
    [ closed : BOOLEAN, pending : Seq(S!Units), out : BOOLEAN, watched : BOOLEAN,
      gone : BOOLEAN, read : S!Ages, drained : S!Ages, ping : S!Ages \cup {S!Never} ]

WsStates == [ws : WsRecords, wire : Seq(S!Units), sent : 0 .. MaxFrames, ended : Whys]

\* A sequence of units is the frames from the n-th unit on.
From(b, n) == \A k \in 1 .. Len(b) : b[k] = S!UnitAt(n + k)

Whole(s) ==
    /\ From(s.wire, 0) /\ Len(s.wire) <= s.sent * Size
    /\ Len(s.ws.pending) <= MaxPending
    /\ s.ended = "open" <=> ~s.ws.closed
    /\ ~s.ws.closed =>
        /\ From(s.ws.pending, Len(s.wire))
        /\ Len(s.wire) + Len(s.ws.pending) = s.sent * Size
        /\ s.ws.watched /\ (s.ws.pending # <<>> => s.ws.out)

Streaming(s) == s \in WsStates /\ Whole(s)

SameAges(s, t) ==
    t.ws.read = s.ws.read /\ t.ws.drained = s.ws.drained /\ t.ws.ping = s.ws.ping

\* How long the peer was silent: what the timers of WsKeepAlive say of it.
Noticed(s, q) ==
    /\ q \in S!Ages
    /\ s.ended = "silence" => q >= CloseAfter
    /\ ~s.ws.closed =>
        /\ q = IF s.ws.read < s.ws.drained THEN s.ws.read ELSE s.ws.drained
        /\ s.ws.ping = S!Never => q < PingAfter
        /\ s.ws.ping # S!Never =>
              s.ws.ping <= s.ws.read /\ q <= PingAfter + s.ws.ping /\ s.ws.ping < CloseAfter

WsConnectionInv == Streaming(S!Now) /\ Noticed(S!Now, quiet)

LEMMA StreamBounds ==
    /\ MaxFrames \in Nat /\ Size \in Nat \ {0} /\ MaxPending \in Nat
    /\ PingAfter \in Nat \ {0} /\ CloseAfter \in Nat \ {0}
    /\ S!Enough \in Nat /\ S!Enough = PingAfter + CloseAfter + 1
    /\ S!Never = S!Enough + 1 /\ S!Ages = 0 .. S!Enough
  <1>1. {MaxFrames, MaxPending, PingAfter, CloseAfter} \subseteq Nat /\ Size \in Nat \ {0}
        /\ PingAfter > 0 /\ CloseAfter > 0
    BY SocketsConstants
  <1> QED
    BY <1>1 DEF S!Enough, S!Never, S!Ages

\* The k-th unit of the next frame is the k-th after all those sent.
LEMMA FramesFollow ==
    ASSUME NEW i \in 0 .. MaxFrames, i < MaxFrames
    PROVE  /\ S!FrameOf(i + 1) \in Seq(S!Units) /\ Len(S!FrameOf(i + 1)) = Size
           /\ From(S!FrameOf(i + 1), i * Size)
           /\ i * Size \in Nat /\ (i + 1) * Size = i * Size + Size
  <1>1. i \in Nat /\ i + 1 \in 0 .. MaxFrames /\ Size \in Nat \ {0} /\ Size \in Nat
    BY StreamBounds
  <1>2. i * Size \in Nat /\ (i + 1) * Size = i * Size + Size
    BY <1>1
  <1>3. \A k \in 1 .. Size : <<i + 1, k>> \in S!Units
    BY <1>1 DEF S!Units
  <1>4. S!FrameOf(i + 1) \in Seq(S!Units) /\ Len(S!FrameOf(i + 1)) = Size
    BY <1>1, <1>3 DEF S!FrameOf
  <1>5. ASSUME NEW k \in 1 .. Size PROVE S!FrameOf(i + 1)[k] = S!UnitAt(i * Size + k)
    <2>1. k - 1 \in 0 .. Size - 1 /\ k \in Nat
      BY <1>1
    <2>2. (i * Size + (k - 1)) \div Size = i /\ (i * Size + (k - 1)) % Size = k - 1
      BY <1>1, <2>1
    <2>3. (i * Size + k) - 1 = i * Size + (k - 1)
      BY <1>2, <2>1
    <2>4. S!UnitAt(i * Size + k) = <<i + 1, (k - 1) + 1>>
      BY <2>2, <2>3 DEF S!UnitAt
    <2>5. (k - 1) + 1 = k
      BY <2>1
    <2> QED
      BY <2>4, <2>5 DEF S!FrameOf
  <1> QED
    BY <1>2, <1>4, <1>5 DEF From

LEMMA JoinedInOrder ==
    ASSUME NEW a \in Seq(S!Units), NEW b \in Seq(S!Units), NEW n \in Nat,
           From(a, n), From(b, n + Len(a))
    PROVE  a \o b \in Seq(S!Units) /\ Len(a \o b) = Len(a) + Len(b) /\ From(a \o b, n)
  <1>1. a \o b \in Seq(S!Units) /\ Len(a \o b) = Len(a) + Len(b)
    OBVIOUS
  <1>2. ASSUME NEW k \in 1 .. Len(a) + Len(b) PROVE (a \o b)[k] = S!UnitAt(n + k)
    <2>0. Len(a) \in Nat /\ Len(b) \in Nat
      OBVIOUS
    <2>1. CASE k <= Len(a)
      <3>1. k \in 1 .. Len(a) /\ (a \o b)[k] = a[k]
        BY <2>0, <2>1
      <3> QED
        BY <3>1 DEF From
    <2>2. CASE ~(k <= Len(a))
      <3>1. k - Len(a) \in 1 .. Len(b) /\ (a \o b)[k] = b[k - Len(a)]
        BY <2>0, <2>2
      <3>2. (n + Len(a)) + (k - Len(a)) = n + k
        BY <2>0
      <3> QED
        BY <3>1, <3>2 DEF From
    <2> QED
      BY <2>1, <2>2
  <1> QED
    BY <1>1, <1>2 DEF From

LEMMA CutInOrder ==
    ASSUME NEW b \in Seq(S!Units), NEW n \in Nat, From(b, n), NEW t \in 0 .. Len(b)
    PROVE  LET a == SubSeq(b, 1, t)
               c == SubSeq(b, t + 1, Len(b))
           IN  /\ a \in Seq(S!Units) /\ Len(a) = t /\ From(a, n)
               /\ c \in Seq(S!Units) /\ Len(c) = Len(b) - t /\ From(c, n + t)
               /\ c = <<>> <=> t = Len(b)
  <1> DEFINE a == SubSeq(b, 1, t)
             c == SubSeq(b, t + 1, Len(b))
  <1>1. Len(b) \in Nat /\ t \in Nat /\ t <= Len(b)
    OBVIOUS
  <1>2. a \in Seq(S!Units) /\ Len(a) = t /\ \A k \in 1 .. t : a[k] = b[k]
    BY <1>1
  <1>3. c \in Seq(S!Units) /\ Len(c) = Len(b) - t /\ \A k \in 1 .. Len(b) - t : c[k] = b[t + k]
    BY <1>1
  <1> HIDE DEF a, c
  <1>4. From(a, n)
    <2>1. \A k \in 1 .. t : k \in 1 .. Len(b)
      BY <1>1
    <2> QED
      BY <1>2, <2>1 DEF From
  <1>5. From(c, n + t)
    <2>1. ASSUME NEW k \in 1 .. Len(b) - t PROVE c[k] = S!UnitAt((n + t) + k)
      <3>1. t + k \in 1 .. Len(b) /\ n + (t + k) = (n + t) + k
        BY <1>1
      <3> QED
        BY <1>3, <3>1 DEF From
    <2> QED
      BY <1>3, <2>1 DEF From
  <1>6. c = <<>> <=> t = Len(b)
    <2>1. c = <<>> <=> Len(c) = 0
      BY <1>3
    <2> QED
      BY <1>1, <1>3, <2>1
  <1> QED
    BY <1>2, <1>3, <1>4, <1>5, <1>6 DEF a, c

\* What the parts of send_raw() and on_writable() change.
LEMMA StreamParts ==
    ASSUME NEW s \in WsStates, NEW why \in Whys, NEW out \in BOOLEAN
    PROVE  /\ LET t == S!Close(s, why)
              IN  /\ t \in WsStates /\ t.ws.closed /\ t.ws.pending = s.ws.pending
                  /\ t.wire = s.wire /\ t.sent = s.sent /\ SameAges(s, t)
                  /\ t.ws.watched = s.ws.watched
                  /\ t.ended = IF s.ended = "open" THEN why ELSE s.ended
           /\ LET t == S!Dropped(s)
              IN  /\ t \in WsStates /\ t.ws.closed = s.ws.closed /\ t.ws.pending = <<>>
                  /\ t.wire = s.wire /\ t.sent = s.sent /\ SameAges(s, t) /\ t.ended = s.ended
                  /\ t.ws.watched = s.ws.watched
           /\ LET t == S!Unwatched(s)
              IN  /\ t \in WsStates /\ t.ws.closed = s.ws.closed /\ t.ws.pending = s.ws.pending
                  /\ t.wire = s.wire /\ t.sent = s.sent /\ SameAges(s, t) /\ t.ended = s.ended
           /\ LET t == [s EXCEPT !.ws.out = out]
              IN  /\ t \in WsStates /\ t.ws.closed = s.ws.closed /\ t.ws.pending = s.ws.pending
                  /\ t.wire = s.wire /\ t.sent = s.sent /\ SameAges(s, t) /\ t.ended = s.ended
                  /\ t.ws.watched = s.ws.watched /\ t.ws.out = out
  <1> DEFINE e == IF s.ended = "open" THEN why ELSE s.ended
             c == [s.ws EXCEPT !.closed = TRUE]
             d == [s.ws EXCEPT !.pending = <<>>]
             w == [s.ws EXCEPT !.watched = FALSE]
             o == [s.ws EXCEPT !.out = out]
  <1>1. s.ws \in WsRecords /\ e \in Whys /\ <<>> \in Seq(S!Units)
    BY DEF WsStates
  <1>2. /\ S!Close(s, why) = [s EXCEPT !.ws = c, !.ended = e]
        /\ S!Dropped(s) = [s EXCEPT !.ws = d]
        /\ S!Unwatched(s) = [s EXCEPT !.ws = w]
        /\ [s EXCEPT !.ws.out = out] = [s EXCEPT !.ws = o]
    BY DEF WsStates, S!Close, S!Dropped, S!Unwatched
  <1> HIDE DEF e
  <1>3. /\ c \in WsRecords /\ c.closed /\ c.pending = s.ws.pending /\ c.watched = s.ws.watched
        /\ c.read = s.ws.read /\ c.drained = s.ws.drained /\ c.ping = s.ws.ping
    BY <1>1 DEF WsRecords
  <1>4. /\ d \in WsRecords /\ d.closed = s.ws.closed /\ d.pending = <<>>
        /\ d.watched = s.ws.watched
        /\ d.read = s.ws.read /\ d.drained = s.ws.drained /\ d.ping = s.ws.ping
    BY <1>1 DEF WsRecords
  <1>5. /\ w \in WsRecords /\ w.closed = s.ws.closed /\ w.pending = s.ws.pending
        /\ w.read = s.ws.read /\ w.drained = s.ws.drained /\ w.ping = s.ws.ping
    BY <1>1 DEF WsRecords
  <1>6. /\ o \in WsRecords /\ o.closed = s.ws.closed /\ o.pending = s.ws.pending
        /\ o.watched = s.ws.watched /\ o.out = out
        /\ o.read = s.ws.read /\ o.drained = s.ws.drained /\ o.ping = s.ws.ping
    BY <1>1 DEF WsRecords
  <1> HIDE DEF c, d, w, o
  <1>7. LET t == [s EXCEPT !.ws = c, !.ended = e]
        IN  /\ t \in WsStates /\ t.ws = c /\ t.wire = s.wire /\ t.sent = s.sent /\ t.ended = e
    BY <1>1, <1>3 DEF WsStates
  <1>8. LET t == [s EXCEPT !.ws = d]
        IN  /\ t \in WsStates /\ t.ws = d /\ t.wire = s.wire /\ t.sent = s.sent /\ t.ended = s.ended
    BY <1>1, <1>4 DEF WsStates
  <1>9. LET t == [s EXCEPT !.ws = w]
        IN  /\ t \in WsStates /\ t.ws = w /\ t.wire = s.wire /\ t.sent = s.sent /\ t.ended = s.ended
    BY <1>1, <1>5 DEF WsStates
  <1>10. LET t == [s EXCEPT !.ws = o]
         IN  /\ t \in WsStates /\ t.ws = o /\ t.wire = s.wire /\ t.sent = s.sent /\ t.ended = s.ended
    BY <1>1, <1>6 DEF WsStates
  <1> DEFINE tc == [s EXCEPT !.ws = c, !.ended = e]
             td == [s EXCEPT !.ws = d]
             tw == [s EXCEPT !.ws = w]
             to == [s EXCEPT !.ws = o]
  <1> HIDE DEF tc, td, tw, to
  <1>11. /\ S!Close(s, why) = tc /\ S!Dropped(s) = td
         /\ S!Unwatched(s) = tw /\ [s EXCEPT !.ws.out = out] = to
    BY <1>2 DEF tc, td, tw, to
  <1>12. /\ tc \in WsStates /\ tc.ws = c /\ tc.wire = s.wire /\ tc.sent = s.sent /\ tc.ended = e
         /\ td \in WsStates /\ td.ws = d /\ td.wire = s.wire /\ td.sent = s.sent
         /\ td.ended = s.ended
         /\ tw \in WsStates /\ tw.ws = w /\ tw.wire = s.wire /\ tw.sent = s.sent
         /\ tw.ended = s.ended
         /\ to \in WsStates /\ to.ws = o /\ to.wire = s.wire /\ to.sent = s.sent
         /\ to.ended = s.ended
    BY <1>7, <1>8, <1>9, <1>10 DEF tc, td, tw, to
  <1>13. e = IF s.ended = "open" THEN why ELSE s.ended
    BY DEF e
  <1> QED
    BY <1>3, <1>4, <1>5, <1>6, <1>11, <1>12, <1>13 DEF SameAges

\* The wire, what waits and the ages after one of them is replaced.
LEMMA SocketParts ==
    ASSUME NEW s \in WsStates, NEW p \in Seq(S!Units)
    PROVE  /\ LET t == S!Taken(s, p)
              IN  /\ t \in WsStates /\ t.ws = s.ws /\ t.wire = s.wire \o p /\ t.sent = s.sent
                  /\ t.ended = s.ended
           /\ LET t == S!Waiting(s, p)
              IN  /\ t \in WsStates /\ t.wire = s.wire /\ t.sent = s.sent /\ t.ended = s.ended
                  /\ t.ws.closed = s.ws.closed /\ t.ws.watched = s.ws.watched
                  /\ t.ws.out = s.ws.out /\ t.ws.pending = p /\ SameAges(s, t)
           /\ LET t == S!Drained(s)
              IN  /\ t \in WsStates /\ t.wire = s.wire /\ t.sent = s.sent /\ t.ended = s.ended
                  /\ t.ws.closed = s.ws.closed /\ t.ws.watched = s.ws.watched
                  /\ t.ws.out = s.ws.out /\ t.ws.pending = s.ws.pending
                  /\ t.ws.read = s.ws.read /\ t.ws.drained = 0 /\ t.ws.ping = s.ws.ping
           /\ \A a \in S!Ages \cup {S!Never} : LET t == S!Pinged(s, a)
              IN  /\ t \in WsStates /\ t.wire = s.wire /\ t.sent = s.sent /\ t.ended = s.ended
                  /\ t.ws.closed = s.ws.closed /\ t.ws.watched = s.ws.watched
                  /\ t.ws.out = s.ws.out /\ t.ws.pending = s.ws.pending
                  /\ t.ws.read = s.ws.read /\ t.ws.drained = s.ws.drained /\ t.ws.ping = a
           /\ LET t == S!Heard(s)
              IN  /\ t \in WsStates /\ t.wire = s.wire /\ t.sent = s.sent /\ t.ended = s.ended
                  /\ t.ws.closed = s.ws.closed /\ t.ws.watched = s.ws.watched
                  /\ t.ws.out = s.ws.out /\ t.ws.pending = s.ws.pending
                  /\ t.ws.read = 0 /\ t.ws.drained = s.ws.drained /\ t.ws.ping = S!Never
  <1> DEFINE c == [s.ws EXCEPT !.pending = p]
             d == [s.ws EXCEPT !.drained = 0]
             h == [s.ws EXCEPT !.read = 0, !.ping = S!Never]
             x == s.wire \o p
  <1>1. s.ws \in WsRecords /\ s.wire \in Seq(S!Units) /\ 0 \in S!Ages
        /\ S!Never \in S!Ages \cup {S!Never}
    BY StreamBounds DEF WsStates
  <1>2. /\ S!Taken(s, p) = [s EXCEPT !.wire = x]
        /\ S!Waiting(s, p) = [s EXCEPT !.ws = c] /\ S!Drained(s) = [s EXCEPT !.ws = d]
        /\ S!Heard(s) = [s EXCEPT !.ws = h]
    BY DEF WsStates, S!Taken, S!Waiting, S!Drained, S!Heard
  <1>3. x \in Seq(S!Units)
    BY <1>1
  <1>4. /\ c \in WsRecords /\ c.closed = s.ws.closed /\ c.pending = p
        /\ c.watched = s.ws.watched /\ c.out = s.ws.out
        /\ c.read = s.ws.read /\ c.drained = s.ws.drained /\ c.ping = s.ws.ping
    BY <1>1 DEF WsRecords
  <1>5. /\ d \in WsRecords /\ d.closed = s.ws.closed /\ d.pending = s.ws.pending
        /\ d.watched = s.ws.watched /\ d.out = s.ws.out
        /\ d.read = s.ws.read /\ d.drained = 0 /\ d.ping = s.ws.ping
    BY <1>1 DEF WsRecords
  <1>7. /\ h \in WsRecords /\ h.closed = s.ws.closed /\ h.pending = s.ws.pending
        /\ h.watched = s.ws.watched /\ h.out = s.ws.out
        /\ h.read = 0 /\ h.drained = s.ws.drained /\ h.ping = S!Never
    BY <1>1 DEF WsRecords
  <1> HIDE DEF c, d, h, x
  <1>8. ASSUME NEW r \in WsRecords
        PROVE  LET t == [s EXCEPT !.ws = r]
               IN  t \in WsStates /\ t.ws = r /\ t.wire = s.wire /\ t.sent = s.sent
                   /\ t.ended = s.ended
    BY DEF WsStates
  <1>9. LET t == [s EXCEPT !.wire = x]
        IN  t \in WsStates /\ t.ws = s.ws /\ t.wire = x /\ t.sent = s.sent
            /\ t.ended = s.ended
    BY <1>3 DEF WsStates
  <1>10. x = s.wire \o p
    BY DEF x
  <1> DEFINE tc == [s EXCEPT !.ws = c]
             td == [s EXCEPT !.ws = d]
             th == [s EXCEPT !.ws = h]
             tx == [s EXCEPT !.wire = x]
  <1>11. /\ tc \in WsStates /\ tc.ws = c /\ tc.wire = s.wire /\ tc.sent = s.sent
         /\ tc.ended = s.ended
    BY <1>4, <1>8
  <1>12. /\ td \in WsStates /\ td.ws = d /\ td.wire = s.wire /\ td.sent = s.sent
         /\ td.ended = s.ended
    BY <1>5, <1>8
  <1>13. ASSUME NEW a \in S!Ages \cup {S!Never}
         PROVE  LET u == S!Pinged(s, a)
                IN  /\ u \in WsStates /\ u.wire = s.wire /\ u.sent = s.sent /\ u.ended = s.ended
                    /\ u.ws.closed = s.ws.closed /\ u.ws.watched = s.ws.watched
                    /\ u.ws.out = s.ws.out /\ u.ws.pending = s.ws.pending
                    /\ u.ws.read = s.ws.read /\ u.ws.drained = s.ws.drained /\ u.ws.ping = a
    <2> DEFINE g == [s.ws EXCEPT !.ping = a]
               u == S!Pinged(s, a)
    <2>1. u = [s EXCEPT !.ws = g]
      BY DEF WsStates, S!Pinged
    <2>2. /\ g \in WsRecords /\ g.closed = s.ws.closed /\ g.pending = s.ws.pending
          /\ g.watched = s.ws.watched /\ g.out = s.ws.out
          /\ g.read = s.ws.read /\ g.drained = s.ws.drained /\ g.ping = a
      BY <1>1 DEF WsRecords
    <2> HIDE DEF g, u
    <2>3. u \in WsStates /\ u.ws = g /\ u.wire = s.wire /\ u.sent = s.sent /\ u.ended = s.ended
      BY <1>8, <2>1, <2>2
    <2>4. /\ u \in WsStates /\ u.wire = s.wire /\ u.sent = s.sent /\ u.ended = s.ended
          /\ u.ws.closed = s.ws.closed /\ u.ws.watched = s.ws.watched
          /\ u.ws.out = s.ws.out /\ u.ws.pending = s.ws.pending
          /\ u.ws.read = s.ws.read /\ u.ws.drained = s.ws.drained /\ u.ws.ping = a
      BY <2>2, <2>3
    <2> QED
      BY <2>4 DEF u
  <1>14. /\ th \in WsStates /\ th.ws = h /\ th.wire = s.wire /\ th.sent = s.sent
         /\ th.ended = s.ended
    BY <1>7, <1>8
  <1>15. tx \in WsStates /\ tx.ws = s.ws /\ tx.wire = x /\ tx.sent = s.sent /\ tx.ended = s.ended
    BY <1>9
  <1>16. /\ S!Taken(s, p) = tx /\ S!Waiting(s, p) = tc /\ S!Drained(s) = td
         /\ S!Heard(s) = th
    BY <1>2
  <1> HIDE DEF tc, td, th, tx
  <1> QED
    BY <1>4, <1>5, <1>7, <1>10, <1>11, <1>12, <1>13, <1>14, <1>15, <1>16 DEF SameAges

\* lost_watch(), or the interest that was asked for.
LEMMA InterestIs ==
    ASSUME NEW s \in WsStates, NEW out \in BOOLEAN, s.ended = "open" <=> ~s.ws.closed
    PROVE  LET t == S!Interest(s, out)
           IN  /\ t \in WsStates /\ t.wire = s.wire /\ t.sent = s.sent /\ SameAges(s, t)
               /\ t.ended = "open" <=> ~t.ws.closed
               /\ t.ended \in {s.ended, "lost"}
               /\ \/ t.ws.closed /\ t.ws.pending = <<>>
                  \/ /\ t.ws.closed = s.ws.closed /\ t.ws.pending = s.ws.pending
                     /\ t.ws.watched = s.ws.watched /\ t.ws.out = out
  <1> DEFINE c == S!Close(s, "lost")
             d == S!Dropped(c)
             w == S!Unwatched(d)
             o == [s EXCEPT !.ws.out = out]
  <1>1. S!Interest(s, out) = IF s.ws.gone THEN w ELSE o
    BY DEF S!Interest
  <1>2. /\ c \in WsStates /\ c.ws.closed /\ c.wire = s.wire /\ c.sent = s.sent /\ SameAges(s, c)
        /\ c.ended = IF s.ended = "open" THEN "lost" ELSE s.ended
    BY StreamParts DEF Whys
  <1> HIDE DEF c
  <1>3. /\ d \in WsStates /\ d.ws.closed /\ d.wire = s.wire /\ d.sent = s.sent /\ SameAges(c, d)
        /\ d.ended = c.ended /\ d.ws.pending = <<>>
    BY <1>2, StreamParts DEF Whys
  <1> HIDE DEF d
  <1>4. /\ w \in WsStates /\ w.ws.closed /\ w.wire = s.wire /\ w.sent = s.sent /\ SameAges(d, w)
        /\ w.ended = c.ended /\ w.ws.pending = <<>>
    BY <1>3, StreamParts DEF Whys
  <1>5. /\ o \in WsStates /\ o.ws.closed = s.ws.closed /\ o.wire = s.wire /\ o.sent = s.sent
        /\ SameAges(s, o) /\ o.ended = s.ended /\ o.ws.pending = s.ws.pending
        /\ o.ws.watched = s.ws.watched /\ o.ws.out = out
    BY StreamParts DEF Whys
  <1> HIDE DEF w, o
  <1>6. SameAges(s, w)
    BY <1>2, <1>3, <1>4 DEF SameAges
  <1>7. w.ended # "open" /\ w.ended \in {s.ended, "lost"}
    BY <1>2, <1>4
  <1> QED
    BY <1>1, <1>4, <1>5, <1>6, <1>7

\* send_raw(): whatever becomes of it, what went out is whole so far, and nobody is
\* taken for silent.
SentOrClosed(s, t) ==
    /\ Streaming(t) /\ SameAges(s, t)
    /\ s.ws.closed => t.ws.closed
    /\ t.ended \in {s.ended, "lost", "cap"}

\* A connection that closes keeps what went out.
Outgoing(s) ==
    /\ s \in WsStates /\ From(s.wire, 0) /\ Len(s.wire) <= s.sent * Size
    /\ Len(s.ws.pending) <= MaxPending

Shuts(s, t, why) ==
    /\ Streaming(t) /\ SameAges(s, t) /\ t.ws.closed /\ t.ended = why

LEMMA ClosedIsWhole ==
    ASSUME NEW s, Outgoing(s), s.ended = "open", NEW why \in Whys \ {"open"}
    PROVE  /\ Shuts(s, S!Close(s, why), why)
           /\ Shuts(s, S!Dropped(S!Close(s, why)), why)
           /\ Shuts(s, S!Unwatched(S!Close(s, why)), why)
           /\ Shuts(s, S!Unwatched(S!Dropped(S!Close(s, why))), why)
  <1> DEFINE c == S!Close(s, why)
             d == S!Dropped(c)
             w == S!Unwatched(c)
             v == S!Unwatched(d)
  <1>0. s \in WsStates /\ why \in Whys /\ MaxPending \in Nat /\ Len(<<>>) = 0
        /\ FALSE \in BOOLEAN
    BY StreamBounds DEF Outgoing
  <1>1. /\ c \in WsStates /\ c.ws.closed /\ c.wire = s.wire /\ c.sent = s.sent /\ SameAges(s, c)
        /\ c.ended = why /\ c.ws.pending = s.ws.pending
    BY <1>0, StreamParts
  <1> HIDE DEF c
  <1>2. /\ d \in WsStates /\ d.ws.closed /\ d.wire = s.wire /\ d.sent = s.sent /\ SameAges(c, d)
        /\ d.ended = why /\ d.ws.pending = <<>>
    BY <1>0, <1>1, StreamParts
  <1>3. /\ w \in WsStates /\ w.ws.closed /\ w.wire = s.wire /\ w.sent = s.sent /\ SameAges(c, w)
        /\ w.ended = why /\ w.ws.pending = s.ws.pending
    BY <1>0, <1>1, StreamParts
  <1> HIDE DEF d, w
  <1>4. /\ v \in WsStates /\ v.ws.closed /\ v.wire = s.wire /\ v.sent = s.sent /\ SameAges(d, v)
        /\ v.ended = why /\ v.ws.pending = <<>>
    BY <1>0, <1>2, StreamParts
  <1> HIDE DEF v
  <1>5. SameAges(s, d) /\ SameAges(s, w) /\ SameAges(s, v)
    BY <1>1, <1>2, <1>3, <1>4 DEF SameAges
  <1>6. /\ Shuts(s, c, why) /\ Shuts(s, d, why) /\ Shuts(s, w, why) /\ Shuts(s, v, why)
    BY <1>0, <1>1, <1>2, <1>3, <1>4, <1>5 DEF Shuts, Streaming, Whole, Outgoing
  <1> QED
    BY <1>6 DEF c, d, w, v

\* One more frame is given to send_raw().
Given(s, t) ==
    /\ t \in WsStates /\ t.ws = s.ws /\ t.wire = s.wire /\ t.sent = s.sent + 1
    /\ t.ended = s.ended

CanSend(s) == Streaming(s) /\ ~s.ws.closed /\ s.sent < MaxFrames

LEMMA TakenParts ==
    ASSUME NEW s \in WsStates, NEW p \in Seq(S!Units), NEW w, w = S!Taken(s, p)
    PROVE  /\ w \in WsStates /\ w.ws = s.ws /\ w.wire = s.wire \o p /\ w.sent = s.sent
           /\ w.ended = s.ended
  BY SocketParts

LEMMA GivenParts ==
    ASSUME NEW s, CanSend(s)
    PROVE  /\ Given(s, S!Counted(s))
           /\ s \in WsStates /\ s.ws.pending \in Seq(S!Units) /\ s.wire \in Seq(S!Units)
           /\ s.sent \in Nat /\ s.sent * Size \in Nat /\ (s.sent + 1) * Size = s.sent * Size + Size
           /\ Len(s.wire) \in Nat /\ Len(s.ws.pending) \in Nat
           /\ Len(s.wire) + Len(s.ws.pending) = s.sent * Size
           /\ From(s.wire, 0) /\ From(s.ws.pending, Len(s.wire)) /\ Len(s.ws.pending) <= MaxPending
           /\ s.ended = "open" /\ s.ws.watched /\ (s.ws.pending # <<>> => s.ws.out)
           /\ s.ws.drained \in S!Ages
           /\ S!FrameOf(s.sent + 1) \in Seq(S!Units) /\ Len(S!FrameOf(s.sent + 1)) = Size
           /\ From(S!FrameOf(s.sent + 1), s.sent * Size)
  <1>1. s \in WsStates /\ s.sent \in 0 .. MaxFrames /\ s.sent < MaxFrames /\ s.ws \in WsRecords
        /\ MaxFrames \in Nat
    BY StreamBounds DEF CanSend, Streaming, WsStates
  <1>2. s.sent + 1 \in 0 .. MaxFrames
    BY <1>1
  <1>3. Given(s, S!Counted(s))
    BY <1>1, <1>2 DEF Given, WsStates, S!Counted
  <1>4. s.ws.pending \in Seq(S!Units) /\ s.wire \in Seq(S!Units) /\ s.ws.drained \in S!Ages
    BY <1>1 DEF WsStates, WsRecords
  <1>5. /\ From(s.wire, 0) /\ From(s.ws.pending, Len(s.wire)) /\ Len(s.ws.pending) <= MaxPending
        /\ Len(s.wire) + Len(s.ws.pending) = s.sent * Size
        /\ s.ended = "open" /\ s.ws.watched /\ (s.ws.pending # <<>> => s.ws.out)
    BY DEF CanSend, Streaming, Whole
  <1>6. /\ s.sent \in Nat /\ s.sent * Size \in Nat
        /\ (s.sent + 1) * Size = s.sent * Size + Size
        /\ S!FrameOf(s.sent + 1) \in Seq(S!Units) /\ Len(S!FrameOf(s.sent + 1)) = Size
        /\ From(S!FrameOf(s.sent + 1), s.sent * Size)
    <2> DEFINE i == s.sent
    <2>1. i \in 0 .. MaxFrames /\ i < MaxFrames /\ i \in Nat
      BY <1>1
    <2> HIDE DEF i
    <2>2. /\ S!FrameOf(i + 1) \in Seq(S!Units) /\ Len(S!FrameOf(i + 1)) = Size
          /\ From(S!FrameOf(i + 1), i * Size)
          /\ i * Size \in Nat /\ (i + 1) * Size = i * Size + Size
      BY <2>1, FramesFollow
    <2> QED
      BY <2>1, <2>2 DEF i
  <1>7. Len(s.wire) \in Nat /\ Len(s.ws.pending) \in Nat
    BY <1>4
  <1> QED
    BY <1>1, <1>3, <1>4, <1>5, <1>6, <1>7

\* Behind a tail that waits.
LEMMA QueuedIsWhole ==
    ASSUME NEW s, CanSend(s), s.ws.pending # <<>>, NEW t, Given(s, t)
    PROVE  SentOrClosed(s, S!Queued(t, S!FrameOf(s.sent + 1)))
  <1> DEFINE f == S!FrameOf(s.sent + 1)
             p == s.ws.pending \o f
             q == S!Waiting(t, p)
             m == s.sent * Size
             n == (s.sent + 1) * Size
             full == S!Unwatched(S!Dropped(S!Close(t, "cap")))
  <1>1. /\ s.ws.pending \in Seq(S!Units) /\ s.wire \in Seq(S!Units)
        /\ m \in Nat /\ n = m + Size
        /\ Len(s.wire) \in Nat /\ Len(s.ws.pending) \in Nat
        /\ Len(s.wire) + Len(s.ws.pending) = m
        /\ From(s.wire, 0) /\ From(s.ws.pending, Len(s.wire)) /\ Len(s.ws.pending) <= MaxPending
        /\ s.ended = "open" /\ s.ws.watched /\ s.ws.out
        /\ f \in Seq(S!Units) /\ Len(f) = Size /\ From(f, m)
    BY GivenParts
  <1>2. t \in WsStates /\ t.ws = s.ws /\ t.wire = s.wire /\ t.sent = s.sent + 1 /\ t.ended = s.ended
    BY DEF Given
  <1>3. ~s.ws.closed /\ Size \in Nat /\ MaxPending \in Nat
    BY StreamBounds DEF CanSend
  <1>4. S!Queued(t, f) = IF Len(s.ws.pending) + Size > MaxPending THEN full ELSE q
    BY <1>2 DEF S!Queued
  <1> HIDE DEF f, m, n
  <1>5. /\ p \in Seq(S!Units) /\ Len(p) = Len(s.ws.pending) + Size /\ From(p, Len(s.wire))
    BY <1>1, <1>3, JoinedInOrder
  <1> HIDE DEF p
  <1>6. /\ q \in WsStates /\ q.ws.closed = s.ws.closed /\ q.ws.pending = p
        /\ q.wire = s.wire /\ q.sent = s.sent + 1 /\ q.ended = s.ended
        /\ q.ws.watched = s.ws.watched /\ q.ws.out = s.ws.out /\ SameAges(t, q)
    BY <1>2, <1>5, SocketParts
  <1>7. SameAges(s, t)
    BY <1>2 DEF SameAges
  <1>8. /\ Len(s.wire) <= n
        /\ Len(s.ws.pending) + Size <= MaxPending =>
             Len(p) <= MaxPending /\ Len(s.wire) + Len(p) = n
    <2> DEFINE a == Len(s.wire)
               b == Len(s.ws.pending)
               c == Len(p)
    <2>1. a \in Nat /\ b \in Nat /\ a + b = m /\ m \in Nat /\ n = m + Size /\ Size \in Nat
          /\ c = b + Size /\ MaxPending \in Nat
      BY <1>1, <1>3, <1>5
    <2> HIDE DEF a, b, c
    <2>2. a <= n /\ (b + Size <= MaxPending => c <= MaxPending /\ a + c = n)
      BY <2>1
    <2> QED
      BY <2>2 DEF a, b, c
  <1>9. Outgoing(t) /\ t.ended = "open"
    BY <1>1, <1>2, <1>8 DEF Outgoing, n
  <1>10. Shuts(t, full, "cap")
    BY <1>9, ClosedIsWhole DEF Whys
  <1> HIDE DEF full, q
  <1>11. SentOrClosed(s, full)
    BY <1>7, <1>10 DEF Shuts, SentOrClosed, SameAges
  <1>12. Len(s.ws.pending) + Size <= MaxPending => SentOrClosed(s, q)
    <2>1. SUFFICES ASSUME Len(s.ws.pending) + Size <= MaxPending PROVE SentOrClosed(s, q)
      OBVIOUS
    <2>2. Len(p) <= MaxPending /\ Len(s.wire) + Len(p) = n
      BY <1>8, <2>1
    <2>3. SameAges(s, q)
      BY <1>6, <1>7 DEF SameAges
    <2> QED
      BY <1>1, <1>3, <1>5, <1>6, <1>8, <2>2, <2>3 DEF SentOrClosed, Streaming, Whole, n
  <1>13. Len(s.ws.pending) + Size > MaxPending \/ Len(s.ws.pending) + Size <= MaxPending
    BY <1>1, <1>3
  <1>14. SentOrClosed(s, S!Queued(t, f))
    BY <1>4, <1>11, <1>12, <1>13
  <1> QED
    BY <1>14 DEF f

\* With nothing that waits: the part the socket takes, then the rest.
LEMMA StartedIsWhole ==
    ASSUME NEW s, CanSend(s), s.ws.pending = <<>>, NEW t, Given(s, t),
           NEW take \in S!Takes(Size)
    PROVE  SentOrClosed(s, S!Started(t, S!FrameOf(s.sent + 1), take))
  <1> DEFINE f == S!FrameOf(s.sent + 1)
             k == take[1]
             head == SubSeq(f, 1, k)
             tail == SubSeq(f, k + 1, Size)
             x == s.wire \o head
             w == S!Taken(t, head)
             lost == S!Close(w, "lost")
             long == S!Unwatched(S!Close(w, "cap"))
             h == S!Waiting(w, tail)
             kept == S!Interest(h, TRUE)
             m == s.sent * Size
             n == (s.sent + 1) * Size
  <1>1. /\ s.wire \in Seq(S!Units)
        /\ m \in Nat /\ n = m + Size
        /\ Len(s.wire) + Len(s.ws.pending) = m /\ Len(s.wire) \in Nat
        /\ From(s.wire, 0) /\ s.ended = "open" /\ s.ws.watched
        /\ f \in Seq(S!Units) /\ Len(f) = Size /\ From(f, m)
    BY GivenParts
  <1>2. t \in WsStates /\ t.ws = s.ws /\ t.wire = s.wire /\ t.sent = s.sent + 1 /\ t.ended = s.ended
    BY DEF Given
  <1>3. /\ k \in 0 .. Size /\ k \in Nat /\ take[2] \in {"full", "broken"} /\ Size \in Nat
        /\ ~s.ws.closed /\ MaxPending \in Nat
        /\ s.ws.pending = <<>> /\ Len(<<>>) = 0
    BY StreamBounds DEF CanSend, S!Takes
  <1>4. S!Started(t, f, take) = IF tail = <<>> THEN w
                                ELSE IF take[2] = "broken" THEN lost
                                ELSE IF Len(tail) > MaxPending THEN long ELSE kept
    BY DEF S!Started
  <1>20. tail = SubSeq(f, k + 1, Len(f)) /\ k \in 0 .. Len(f)
    BY <1>1, <1>3
  <1> HIDE DEF f, k, m, n
  <1>5. /\ head \in Seq(S!Units) /\ Len(head) = k /\ From(head, m)
        /\ tail \in Seq(S!Units) /\ Len(tail) = Size - k /\ From(tail, m + k)
        /\ tail = <<>> <=> k = Size
    <2>1. f \in Seq(S!Units) /\ m \in Nat /\ From(f, m) /\ k \in 0 .. Len(f)
      BY <1>1, <1>20
    <2>2. /\ SubSeq(f, 1, k) \in Seq(S!Units) /\ Len(SubSeq(f, 1, k)) = k
          /\ From(SubSeq(f, 1, k), m)
          /\ SubSeq(f, k + 1, Len(f)) \in Seq(S!Units)
          /\ Len(SubSeq(f, k + 1, Len(f))) = Len(f) - k
          /\ From(SubSeq(f, k + 1, Len(f)), m + k)
          /\ SubSeq(f, k + 1, Len(f)) = <<>> <=> k = Len(f)
      BY <2>1, CutInOrder
    <2> QED
      BY <1>1, <2>2
  <1> HIDE DEF head, tail
  <1>6. Len(s.wire) = m
    BY <1>1, <1>3
  <1>7. x \in Seq(S!Units) /\ Len(x) = m + k /\ From(x, 0)
    <2>1. From(head, 0 + Len(s.wire)) /\ 0 \in Nat
      BY <1>1, <1>5, <1>6
    <2> QED
      BY <1>1, <1>5, <1>6, <2>1, JoinedInOrder
  <1>8. /\ w \in WsStates /\ w.ws = s.ws /\ w.wire = x /\ w.sent = s.sent + 1 /\ w.ended = "open"
    <2>1. w \in WsStates /\ w.ws = t.ws /\ w.wire = t.wire \o head /\ w.sent = t.sent
          /\ w.ended = t.ended
      BY <1>2, <1>5, TakenParts
    <2> HIDE DEF w
    <2> QED
      BY <1>1, <1>2, <2>1
  <1> HIDE DEF x, w
  <1>9. SameAges(s, w) /\ Len(x) <= n /\ Len(x) + Len(tail) = n
        /\ Len(tail) \in Nat /\ (tail = <<>> => Len(x) = n)
    BY <1>1, <1>3, <1>5, <1>7, <1>8 DEF SameAges
  <1>10. Outgoing(w)
    BY <1>3, <1>7, <1>8, <1>9 DEF Outgoing, n
  <1>11. Shuts(w, lost, "lost") /\ Shuts(w, long, "cap")
    BY <1>8, <1>10, ClosedIsWhole DEF Whys
  <1>12. /\ h \in WsStates /\ h.ws.closed = s.ws.closed /\ h.ws.pending = tail
         /\ h.wire = x /\ h.sent = s.sent + 1 /\ h.ended = "open"
         /\ h.ws.watched = s.ws.watched /\ SameAges(w, h)
    BY <1>5, <1>8, SocketParts
  <1> HIDE DEF lost, long, h
  <1>13. SentOrClosed(s, lost) /\ SentOrClosed(s, long)
    BY <1>9, <1>11 DEF Shuts, SentOrClosed, SameAges
  <1>14. tail = <<>> => SentOrClosed(s, w)
    <2>1. From(<<>>, Len(x)) /\ Len(x) + 0 = Len(x)
      BY <1>1, <1>3, <1>7 DEF From
    <2> QED
      BY <1>1, <1>3, <1>7, <1>8, <1>9, <2>1 DEF SentOrClosed, Streaming, Whole, n
  <1>15. /\ kept \in WsStates /\ kept.wire = x /\ kept.sent = s.sent + 1 /\ SameAges(h, kept)
         /\ kept.ended = "open" <=> ~kept.ws.closed
         /\ kept.ended \in {"open", "lost"}
         /\ \/ kept.ws.closed /\ kept.ws.pending = <<>>
            \/ kept.ws.pending = tail /\ kept.ws.watched /\ kept.ws.out
    <2>1. TRUE \in BOOLEAN /\ (h.ended = "open" <=> ~h.ws.closed)
      BY <1>3, <1>12
    <2> QED
      BY <1>1, <1>12, <2>1, InterestIs
  <1> HIDE DEF kept
  <1>16. SameAges(s, kept)
    BY <1>9, <1>12, <1>15 DEF SameAges
  <1>17. Len(tail) <= MaxPending => SentOrClosed(s, kept)
    <2>1. From(tail, Len(x))
      BY <1>5, <1>7
    <2> QED
      <3>1. SUFFICES ASSUME Len(tail) <= MaxPending PROVE SentOrClosed(s, kept)
        OBVIOUS
      <3>2. kept.ended \in {s.ended, "lost", "cap"} /\ Len(kept.wire) <= kept.sent * Size
            /\ From(kept.wire, 0) /\ Len(kept.ws.pending) <= MaxPending /\ ~s.ws.closed
        BY <1>1, <1>3, <1>7, <1>9, <1>15, <3>1 DEF n
      <3>3. ~kept.ws.closed =>
              /\ From(kept.ws.pending, Len(kept.wire))
              /\ Len(kept.wire) + Len(kept.ws.pending) = kept.sent * Size
              /\ kept.ws.watched /\ (kept.ws.pending # <<>> => kept.ws.out)
        BY <1>9, <1>15, <2>1 DEF n
      <3> QED
        BY <1>15, <1>16, <3>2, <3>3 DEF SentOrClosed, Streaming, Whole
  <1>18. Len(tail) > MaxPending \/ Len(tail) <= MaxPending
    BY <1>3, <1>9
  <1>19. SentOrClosed(s, S!Started(t, f, take))
    BY <1>3, <1>4, <1>13, <1>14, <1>17, <1>18
  <1> QED
    BY <1>19 DEF f

LEMMA SendIsWhole ==
    ASSUME NEW s, Streaming(s), NEW take \in S!Takes(Size)
    PROVE  SentOrClosed(s, S!Send(s, take))
  <1> DEFINE f == S!FrameOf(s.sent + 1)
  <1>1. S!Send(s, take) = IF s.ws.closed \/ s.sent = MaxFrames THEN s
                          ELSE IF s.ws.pending # <<>> THEN S!Queued(S!Counted(s), f)
                          ELSE S!Started(S!Counted(s), f, take)
    BY DEF S!Send
  <1>2. s.sent \in 0 .. MaxFrames /\ MaxFrames \in Nat
    BY StreamBounds DEF Streaming, WsStates
  <1>3. CASE s.ws.closed \/ s.sent = MaxFrames
    BY <1>1, <1>3 DEF SentOrClosed, SameAges
  <1>4. CASE ~(s.ws.closed \/ s.sent = MaxFrames)
    <2>1. CanSend(s)
      BY <1>2, <1>4 DEF CanSend
    <2>2. Given(s, S!Counted(s))
      BY <2>1, GivenParts
    <2>3. s.ws.pending # <<>> => SentOrClosed(s, S!Queued(S!Counted(s), f))
      BY <2>1, <2>2, QueuedIsWhole
    <2>4. s.ws.pending = <<>> => SentOrClosed(s, S!Started(S!Counted(s), f, take))
      BY <2>1, <2>2, StartedIsWhole
    <2> QED
      BY <1>1, <1>4, <2>3, <2>4
  <1> QED
    BY <1>3, <1>4

\* on_writable(): the socket takes the front of what waits.
LEMMA DrainIsWhole ==
    ASSUME NEW s, Streaming(s), ~s.ws.closed, NEW take \in S!Takes(Len(s.ws.pending))
    PROVE  LET t == S!Drain(s, take)
           IN  /\ Streaming(t) /\ t.ended \in {"open", "lost"}
               /\ ~t.ws.closed => /\ t.ws.read = s.ws.read /\ t.ws.ping = s.ws.ping
                                  /\ t.ws.drained = IF take[1] > 0 THEN 0 ELSE s.ws.drained
  <1> DEFINE k == take[1]
             waits == s.ws.pending
             head == SubSeq(waits, 1, k)
             rest == SubSeq(waits, k + 1, Len(waits))
             x == s.wire \o head
             u == S!Taken(s, head)
             v == S!Waiting(u, rest)
             w == IF k > 0 THEN S!Drained(v) ELSE v
             kept == S!Interest(w, FALSE)
             lost == S!Dropped(S!Close(w, "lost"))
             d == IF k > 0 THEN 0 ELSE s.ws.drained
             m == s.sent * Size
             a == Len(s.wire)
             b == Len(waits)
  <1>1. s \in WsStates /\ s.ws \in WsRecords /\ s.sent \in Nat /\ Size \in Nat
        /\ s.wire \in Seq(S!Units) /\ MaxPending \in Nat /\ MaxFrames \in Nat
    BY StreamBounds DEF Streaming, WsStates
  <1>2. /\ From(s.wire, 0) /\ From(waits, a) /\ b <= MaxPending /\ a + b = m
        /\ s.ended = "open" /\ s.ws.watched /\ (waits # <<>> => s.ws.out)
    BY DEF Streaming, Whole
  <1>3. waits \in Seq(S!Units) /\ a \in Nat /\ b \in Nat /\ k \in 0 .. b /\ k \in Nat
        /\ take[2] \in {"full", "broken"}
    BY <1>1 DEF WsRecords, S!Takes
  <1>4. S!Drain(s, take) = IF rest = <<>> THEN kept
                           ELSE IF take[2] = "full" THEN w ELSE lost
    BY DEF S!Drain
  <1>5. /\ head \in Seq(S!Units) /\ Len(head) = k /\ From(head, a)
        /\ rest \in Seq(S!Units) /\ Len(rest) = b - k /\ From(rest, a + k)
        /\ rest = <<>> <=> k = b
    BY <1>2, <1>3, CutInOrder
  <1> HIDE DEF k, head, rest
  <1>6. x \in Seq(S!Units) /\ Len(x) = a + k /\ From(x, 0)
    <2>1. From(head, 0 + a) /\ 0 \in Nat
      BY <1>3, <1>5
    <2> QED
      BY <1>1, <1>2, <1>5, <2>1, JoinedInOrder
  <1>7. /\ u \in WsStates /\ u.ws = s.ws /\ u.wire = x /\ u.sent = s.sent /\ u.ended = "open"
    <2> HIDE DEF u
    <2>1. u \in WsStates /\ u.ws = s.ws /\ u.wire = s.wire \o head /\ u.sent = s.sent
          /\ u.ended = s.ended
      BY <1>1, <1>5, TakenParts DEF u
    <2> QED
      BY <1>2, <2>1
  <1> HIDE DEF u, x, a, b, m
  <1>8. /\ v \in WsStates /\ v.ws.closed = s.ws.closed /\ v.ws.pending = rest
        /\ v.wire = x /\ v.sent = s.sent /\ v.ended = "open"
        /\ v.ws.watched = s.ws.watched /\ v.ws.out = s.ws.out /\ SameAges(u, v)
    BY <1>5, <1>7, SocketParts
  <1> HIDE DEF v
  <1>9. /\ w \in WsStates /\ w.ws.closed = s.ws.closed /\ w.ws.pending = rest
        /\ w.wire = x /\ w.sent = s.sent /\ w.ended = "open"
        /\ w.ws.watched = s.ws.watched /\ w.ws.out = s.ws.out
        /\ w.ws.read = s.ws.read /\ w.ws.drained = d /\ w.ws.ping = s.ws.ping
    <2>1. /\ S!Drained(v) \in WsStates /\ S!Drained(v).ws.closed = s.ws.closed
          /\ S!Drained(v).ws.pending = rest
          /\ S!Drained(v).wire = x /\ S!Drained(v).sent = s.sent /\ S!Drained(v).ended = "open"
          /\ S!Drained(v).ws.watched = s.ws.watched /\ S!Drained(v).ws.out = s.ws.out
          /\ S!Drained(v).ws.read = v.ws.read /\ S!Drained(v).ws.drained = 0
          /\ S!Drained(v).ws.ping = v.ws.ping
      BY <1>5, <1>8, SocketParts
    <2>2. /\ v.ws.read = s.ws.read /\ v.ws.drained = s.ws.drained /\ v.ws.ping = s.ws.ping
      BY <1>7, <1>8 DEF SameAges
    <2> QED
      BY <1>8, <2>1, <2>2
  <1> HIDE DEF w, d
  <1>10. Len(x) <= m /\ Len(rest) <= MaxPending /\ Len(x) + Len(rest) = m
    BY <1>1, <1>2, <1>3, <1>5, <1>6
  <1>11. Outgoing(w)
    BY <1>6, <1>9, <1>10 DEF Outgoing, m
  <1>12. Shuts(w, lost, "lost")
    BY <1>9, <1>11, ClosedIsWhole DEF Whys
  <1>13. /\ kept \in WsStates /\ kept.wire = x /\ kept.sent = s.sent /\ SameAges(w, kept)
         /\ kept.ended = "open" <=> ~kept.ws.closed
         /\ kept.ended \in {"open", "lost"}
         /\ \/ kept.ws.closed /\ kept.ws.pending = <<>>
            \/ kept.ws.pending = rest /\ kept.ws.watched
    <2>1. FALSE \in BOOLEAN /\ (w.ended = "open" <=> ~w.ws.closed)
      BY <1>9
    <2> QED
      BY <1>2, <1>9, <2>1, InterestIs
  <1> HIDE DEF lost, kept
  <1>14. From(rest, Len(x)) /\ Len(<<>>) <= MaxPending
    BY <1>1, <1>5, <1>6
  <1>15. rest # <<>> => Streaming(w)
    <2>1. SUFFICES ASSUME rest # <<>> PROVE Streaming(w)
      OBVIOUS
    <2>2. waits # <<>>
      BY <1>3, <1>5, <2>1 DEF b
    <2> QED
      BY <1>2, <1>6, <1>9, <1>10, <1>14, <2>2 DEF Streaming, Whole, m
  <1>16. rest = <<>> => Streaming(kept)
    <2>1. SUFFICES ASSUME rest = <<>> PROVE Streaming(kept)
      OBVIOUS
    <2>2. kept.ws.pending = <<>> /\ Len(x) + Len(<<>>) = m /\ From(<<>>, Len(x))
      BY <1>10, <1>13, <1>14, <2>1
    <2> QED
      BY <1>6, <1>10, <1>13, <1>14, <2>2 DEF Streaming, Whole, m
  <1>17. /\ Streaming(lost) /\ lost.ended = "lost" /\ lost.ws.closed
    BY <1>12 DEF Shuts
  <1>18. /\ kept.ws.read = s.ws.read /\ kept.ws.drained = d /\ kept.ws.ping = s.ws.ping
    BY <1>9, <1>13 DEF SameAges
  <1> QED
    BY <1>3, <1>4, <1>9, <1>13, <1>15, <1>16, <1>17, <1>18 DEF d, k

-----------------------------------------------------------------------------
(* Every step leaves the stream whole and the silence known.               *)

Fine(s, q) == Streaming(s) /\ Noticed(s, q)

LEMMA SendIsFine ==
    ASSUME NEW s, NEW q, Fine(s, q), NEW take \in S!Takes(Size)
    PROVE  Fine(S!Send(s, take), q)
  <1>1. SentOrClosed(s, S!Send(s, take))
    BY SendIsWhole DEF Fine
  <1> DEFINE t == S!Send(s, take)
  <1> HIDE DEF t
  <1>2. Streaming(t) /\ SameAges(s, t) /\ (s.ws.closed => t.ws.closed)
        /\ t.ended \in {s.ended, "lost", "cap"}
    BY <1>1 DEF SentOrClosed, t
  <1>3. Noticed(t, q)
    BY <1>2 DEF Fine, Noticed, SameAges
  <1>4. Fine(t, q)
    BY <1>2, <1>3 DEF Fine
  <1> QED
    BY <1>4 DEF t

LEMMA CloseIsFine ==
    ASSUME NEW s, NEW q, Fine(s, q), NEW why \in Whys \ {"open"}, why = "silence" => q >= CloseAfter
    PROVE  Fine(S!Close(s, why), q)
  <1> DEFINE t == S!Close(s, why)
  <1>1. /\ s \in WsStates /\ Whole(s) /\ why \in Whys /\ TRUE \in BOOLEAN
    BY DEF Fine, Streaming
  <1>2. /\ t \in WsStates /\ t.ws.closed /\ t.ws.pending = s.ws.pending
        /\ t.wire = s.wire /\ t.sent = s.sent
        /\ t.ended = IF s.ended = "open" THEN why ELSE s.ended
    BY <1>1, StreamParts
  <1> HIDE DEF t
  <1>3. Streaming(t)
    BY <1>1, <1>2 DEF Streaming, Whole
  <1>4. Noticed(t, q)
    BY <1>2 DEF Fine, Noticed
  <1>5. Fine(t, q)
    BY <1>3, <1>4 DEF Fine
  <1> QED
    BY <1>5 DEF t

\* The ages alone are rewritten.
Rewound(s, t) ==
    /\ t \in WsStates /\ t.wire = s.wire /\ t.sent = s.sent /\ t.ended = s.ended
    /\ t.ws.closed = s.ws.closed /\ t.ws.watched = s.ws.watched
    /\ t.ws.out = s.ws.out /\ t.ws.pending = s.ws.pending

LEMMA RewoundIsWhole ==
    ASSUME NEW s, Streaming(s), NEW t, Rewound(s, t)
    PROVE  Streaming(t)
  BY DEF Streaming, Whole, Rewound

LEMMA HeardIsFine ==
    ASSUME NEW s, NEW q, Fine(s, q), ~s.ws.closed
    PROVE  Fine(S!Heard(s), 0)
  <1> DEFINE t == S!Heard(s)
  <1>1. s \in WsStates /\ s.ended = "open" /\ s.ws \in WsRecords
    BY DEF Fine, Streaming, Whole, WsStates
  <1>2. s.ws.drained \in S!Ages
    BY <1>1 DEF WsRecords
  <1>3. <<>> \in Seq(S!Units)
    OBVIOUS
  <1>4. /\ Rewound(s, t)
        /\ t.ws.read = 0 /\ t.ws.drained = s.ws.drained /\ t.ws.ping = S!Never
    BY <1>1, <1>3, SocketParts DEF Rewound
  <1> HIDE DEF t
  <1>5. Streaming(t)
    BY <1>4, RewoundIsWhole DEF Fine
  <1>6. Noticed(t, 0)
    <2>1. 0 \in S!Ages /\ 0 < PingAfter /\ 0 = IF 0 < s.ws.drained THEN 0 ELSE s.ws.drained
      BY <1>2, StreamBounds
    <2>2. t.ended = "open"
      BY <1>1, <1>4 DEF Rewound
    <2> QED
      BY <1>4, <2>1, <2>2 DEF Noticed
  <1>7. Fine(t, 0)
    BY <1>5, <1>6 DEF Fine
  <1> QED
    BY <1>7 DEF t

\* The connection after a step is what the step makes of it.
LEMMA StreamBecomes ==
    ASSUME NEW s, S!Becomes(s), NEW q, Fine(s, q), quiet' = q
    PROVE  WsConnectionInv'
  <1>1. S!Now' = [ws |-> s.ws, wire |-> s.wire, sent |-> s.sent, ended |-> s.ended]
    BY DEF S!Becomes, S!Now
  <1>2. s = [ws |-> s.ws, wire |-> s.wire, sent |-> s.sent, ended |-> s.ended]
    BY DEF Fine, Streaming, WsStates
  <1>3. S!Now' = s
    BY <1>1, <1>2
  <1>4. (Streaming(S!Now) /\ Noticed(S!Now, quiet))' <=> Streaming(S!Now') /\ Noticed(S!Now', quiet')
    BY DEF Streaming, Noticed, Whole, From
  <1> QED
    BY <1>3, <1>4 DEF WsConnectionInv, Fine

LEMMA OwnerSendsKeeps == WsConnectionInv /\ S!OwnerSends => WsConnectionInv'
  <1> SUFFICES ASSUME WsConnectionInv, S!OwnerSends PROVE WsConnectionInv'
    OBVIOUS
  <1>1. PICK take \in S!Takes(Size) : S!Becomes(S!Send(S!Now, take))
    BY DEF S!OwnerSends
  <1>2. Fine(S!Send(S!Now, take), quiet)
    BY SendIsFine DEF WsConnectionInv, Fine
  <1> QED
    BY <1>1, <1>2, StreamBecomes DEF Fine, S!OwnerSends

LEMMA ReadableKeeps == WsConnectionInv /\ S!Readable => WsConnectionInv'
  <1> SUFFICES ASSUME WsConnectionInv, S!Readable PROVE WsConnectionInv'
    OBVIOUS
  <1>1. PICK messages \in 0 .. 2, pings, close, eof \in BOOLEAN, a, b \in S!Takes(Size) :
          LET bytes == messages > 0 \/ pings \/ close
              read == IF bytes THEN S!Heard(S!Now) ELSE S!Now
              m1 == IF messages > 0 THEN S!Send(read, a) ELSE read
              m2 == IF messages > 1 THEN S!Send(m1, b) ELSE m1
              pong == IF pings THEN S!Send(m2, b) ELSE m2
          IN  /\ S!Becomes(IF close THEN S!Close(S!Send(pong, b), "bye")
                           ELSE IF eof THEN S!Close(pong, "bye")
                           ELSE pong)
              /\ quiet' = IF bytes THEN 0 ELSE quiet
    BY DEF S!Readable
  <1> DEFINE bytes == messages > 0 \/ pings \/ close
             now == S!Now
             heard == S!Heard(now)
             read == IF bytes THEN heard ELSE now
             m1 == IF messages > 0 THEN S!Send(read, a) ELSE read
             m2 == IF messages > 1 THEN S!Send(m1, b) ELSE m1
             pong == IF pings THEN S!Send(m2, b) ELSE m2
             last == S!Send(pong, b)
             end == IF close THEN S!Close(last, "bye")
                    ELSE IF eof THEN S!Close(pong, "bye") ELSE pong
             q == IF bytes THEN 0 ELSE quiet
  <1>2. S!Becomes(end) /\ quiet' = q
    BY <1>1
  <1>3. Fine(now, quiet) /\ ~now.ws.closed /\ "bye" \in Whys \ {"open"} /\ "bye" # "silence"
    BY DEF WsConnectionInv, Fine, S!Readable, S!Now, Whys
  <1> HIDE DEF now, bytes
  <1>4. Fine(heard, 0)
    BY <1>3, HeardIsFine
  <1> HIDE DEF heard
  <1>5. Fine(read, q)
    BY <1>3, <1>4
  <1> HIDE DEF read, q
  <1>6. Fine(m1, q)
    BY <1>5, SendIsFine
  <1> HIDE DEF m1
  <1>7. Fine(m2, q)
    BY <1>6, SendIsFine
  <1> HIDE DEF m2
  <1>8. Fine(pong, q)
    BY <1>7, SendIsFine
  <1> HIDE DEF pong
  <1>9. Fine(last, q)
    BY <1>8, SendIsFine
  <1> HIDE DEF last
  <1>10. Fine(S!Close(last, "bye"), q) /\ Fine(S!Close(pong, "bye"), q)
    BY <1>3, <1>8, <1>9, CloseIsFine
  <1>11. Fine(end, q)
    BY <1>8, <1>10
  <1> HIDE DEF end
  <1> QED
    BY <1>2, <1>11, StreamBecomes

LEMMA WritableKeeps == WsConnectionInv /\ S!Writable => WsConnectionInv'
  <1> SUFFICES ASSUME WsConnectionInv, S!Writable PROVE WsConnectionInv'
    OBVIOUS
  <1> DEFINE now == S!Now
  <1>1. PICK take \in S!Takes(Len(now.ws.pending)) :
          S!Becomes(S!Drain(now, take)) /\ quiet' = IF take[1] > 0 THEN 0 ELSE quiet
    BY DEF S!Writable, S!Now
  <1> DEFINE t == S!Drain(now, take)
             d == IF take[1] > 0 THEN 0 ELSE now.ws.drained
             q == IF take[1] > 0 THEN 0 ELSE quiet
  <1>2. Fine(now, quiet) /\ ~now.ws.closed
    BY DEF WsConnectionInv, Fine, S!Writable, S!Now
  <1>3. S!Becomes(t) /\ quiet' = q
    BY <1>1
  <1> HIDE DEF now
  <1>4. /\ Streaming(t) /\ t.ended \in {"open", "lost"}
        /\ ~t.ws.closed => t.ws.read = now.ws.read /\ t.ws.ping = now.ws.ping
                           /\ t.ws.drained = d
    BY <1>1, <1>2, DrainIsWhole DEF Fine
  <1> HIDE DEF t
  <1>5. /\ now.ws.read \in S!Ages /\ now.ws.drained \in S!Ages
        /\ now.ws.ping \in S!Ages \cup {S!Never}
    BY <1>2 DEF Fine, Streaming, WsStates, WsRecords
  <1>6. Noticed(t, q)
    <2>1. /\ quiet \in S!Ages
          /\ quiet = IF now.ws.read < now.ws.drained THEN now.ws.read ELSE now.ws.drained
          /\ now.ws.ping = S!Never => quiet < PingAfter
          /\ now.ws.ping # S!Never =>
               now.ws.ping <= now.ws.read /\ quiet <= PingAfter + now.ws.ping
               /\ now.ws.ping < CloseAfter
      BY <1>2 DEF Fine, Noticed
    <2> DEFINE r == now.ws.read
               o == now.ws.drained
               p == now.ws.ping
    <2>2. r \in Nat /\ o \in Nat /\ p \in Nat /\ quiet \in Nat /\ 0 \in S!Ages
          /\ PingAfter \in Nat /\ PingAfter > 0
      BY <1>5, <2>1, StreamBounds
    <2> HIDE DEF r, o, p
    <2>3. /\ q \in S!Ages
          /\ q = IF r < d THEN r ELSE d
          /\ p = S!Never => q < PingAfter
          /\ p # S!Never => p <= r /\ q <= PingAfter + p /\ p < CloseAfter
      BY <2>1, <2>2 DEF r, o, p
    <2> HIDE DEF q, d
    <2> QED
      BY <1>4, <2>3 DEF Noticed, r, p
  <1>7. Fine(t, q)
    BY <1>4, <1>6 DEF Fine
  <1> QED
    BY <1>3, <1>7, StreamBecomes

LEMMA ClosedUnderKeeps == WsConnectionInv /\ S!ClosedUnder => WsConnectionInv'
  <1> SUFFICES ASSUME WsConnectionInv, S!ClosedUnder PROVE WsConnectionInv'
    OBVIOUS
  <1> DEFINE c == [conn EXCEPT !.gone = TRUE]
             t == [ws |-> c, wire |-> wire, sent |-> sent, ended |-> ended]
  <1>1. Fine(S!Now, quiet) /\ S!Now = [ws |-> conn, wire |-> wire, sent |-> sent, ended |-> ended]
    BY DEF WsConnectionInv, Fine, S!Now
  <1>2. conn \in WsRecords /\ wire \in Seq(S!Units) /\ sent \in 0 .. MaxFrames /\ ended \in Whys
    BY <1>1 DEF Fine, Streaming, WsStates
  <1>3. /\ c \in WsRecords /\ c.closed = conn.closed /\ c.pending = conn.pending
        /\ c.watched = conn.watched /\ c.out = conn.out
        /\ c.read = conn.read /\ c.drained = conn.drained /\ c.ping = conn.ping
    BY <1>2 DEF WsRecords
  <1>4. S!Becomes(t) /\ quiet' = quiet
    BY DEF S!ClosedUnder, S!Becomes
  <1> HIDE DEF c
  <1>5. t \in WsStates /\ t.ws = c
    BY <1>2, <1>3 DEF WsStates
  <1>6. Rewound(S!Now, t) /\ SameAges(S!Now, t)
    BY <1>1, <1>3, <1>5 DEF Rewound, SameAges
  <1>7. Streaming(t)
    BY <1>1, <1>6, RewoundIsWhole DEF Fine
  <1> HIDE DEF t
  <1>8. Noticed(t, quiet)
    BY <1>1, <1>6 DEF Fine, Noticed, Rewound, SameAges
  <1>9. Fine(t, quiet)
    BY <1>7, <1>8 DEF Fine
  <1> QED
    BY <1>4, <1>9, StreamBecomes

\* Older() keeps the order of ages.
LEMMA OlderIsOrdered ==
    /\ \A n \in S!Ages : S!Older(n) \in S!Ages /\ S!Older(n) <= n + 1 /\ S!Older(n) >= n
    /\ S!Older(S!Never) = S!Never
    /\ \A m, n \in S!Ages : m <= n => S!Older(m) <= S!Older(n)
    /\ \A n \in S!Ages : n < PingAfter + CloseAfter => S!Older(n) = n + 1
  <1>1. S!Ages \subseteq Nat /\ S!Enough \in Nat /\ S!Ages = 0 .. S!Enough
        /\ S!Never = S!Enough + 1 /\ S!Enough = PingAfter + CloseAfter + 1
        /\ PingAfter \in Nat /\ CloseAfter \in Nat
    BY StreamBounds
  <1> QED
    BY <1>1 DEF S!Older

LEMMA AgedParts ==
    ASSUME Streaming(S!Now)
    PROVE  /\ Rewound(S!Now, S!Aged)
           /\ S!Aged.ws.read = S!Older(conn.read) /\ S!Aged.ws.drained = S!Older(conn.drained)
           /\ S!Aged.ws.ping = S!Older(conn.ping)
           /\ conn.read \in S!Ages /\ conn.drained \in S!Ages
           /\ conn.ping \in S!Ages \cup {S!Never}
  <1> DEFINE s == S!Now
             r == S!Older(conn.read)
             d == S!Older(conn.drained)
             p == S!Older(conn.ping)
             c == [conn EXCEPT !.read = r, !.drained = d, !.ping = p]
             t == [s EXCEPT !.ws = c]
  <1>1. s \in WsStates /\ conn \in WsRecords /\ s.ws = conn
    BY DEF Streaming, WsStates, S!Now
  <1>2. conn.read \in S!Ages /\ conn.drained \in S!Ages /\ conn.ping \in S!Ages \cup {S!Never}
    BY <1>1 DEF WsRecords
  <1>3. r \in S!Ages /\ d \in S!Ages /\ p \in S!Ages \cup {S!Never}
    BY <1>2, OlderIsOrdered
  <1>4. S!Aged = t
    BY <1>1 DEF S!Aged, WsStates
  <1> HIDE DEF r, d, p, s
  <1>5. /\ c \in WsRecords /\ c.closed = conn.closed /\ c.pending = conn.pending
        /\ c.watched = conn.watched /\ c.out = conn.out
        /\ c.read = r /\ c.drained = d /\ c.ping = p
    BY <1>1, <1>3 DEF WsRecords
  <1> HIDE DEF c
  <1>6. t \in WsStates /\ t.ws = c /\ t.wire = s.wire /\ t.sent = s.sent /\ t.ended = s.ended
    BY <1>1, <1>5 DEF WsStates
  <1> HIDE DEF t
  <1>7. Rewound(s, t) /\ t.ws.read = r /\ t.ws.drained = d /\ t.ws.ping = p
    BY <1>1, <1>5, <1>6 DEF Rewound
  <1> QED
    BY <1>2, <1>4, <1>7 DEF s, r, d, p

\* WsKeepAlive::step() on ages one heartbeat older.
LEMMA HeartbeatKeeps == WsConnectionInv /\ S!Heartbeat => WsConnectionInv'
  <1> SUFFICES ASSUME WsConnectionInv, S!Heartbeat PROVE WsConnectionInv'
    OBVIOUS
  <1> DEFINE s == S!Aged
             q == S!Older(quiet)
  <1>1. PICK take \in S!Takes(Size) : S!Becomes(S!KeepAlive(s, take))
    BY DEF S!Heartbeat
  <1>2. quiet' = q /\ ~conn.closed
    BY DEF S!Heartbeat
  <1>3. Streaming(S!Now) /\ Noticed(S!Now, quiet) /\ S!Now.ws = conn /\ S!Now.ended = ended
        /\ S!Now.ended = "open"
    BY <1>2 DEF WsConnectionInv, S!Now, Streaming, Whole
  <1>4. /\ Rewound(S!Now, s)
        /\ s.ws.read = S!Older(conn.read) /\ s.ws.drained = S!Older(conn.drained)
        /\ s.ws.ping = S!Older(conn.ping)
        /\ conn.read \in S!Ages /\ conn.drained \in S!Ages /\ conn.ping \in S!Ages \cup {S!Never}
    BY <1>3, AgedParts
  <1> HIDE DEF s
  <1>5. Streaming(s) /\ ~s.ws.closed /\ s.ended = "open" /\ s \in WsStates
    BY <1>2, <1>3, <1>4, RewoundIsWhole DEF Rewound
  <1> DEFINE r0 == conn.read
             d0 == conn.drained
             p0 == conn.ping
             r == s.ws.read
             d == s.ws.drained
             p == s.ws.ping
             ping == IF d < p THEN d ELSE p
             b == PingAfter
             e == CloseAfter
  <1>6. /\ b \in Nat /\ e \in Nat /\ b > 0 /\ e > 0 /\ S!Never = b + e + 2
        /\ S!Ages \subseteq Nat /\ S!Ages = 0 .. b + e + 1
    BY StreamBounds
  <1>7. /\ quiet \in S!Ages /\ quiet = IF r0 < d0 THEN r0 ELSE d0
        /\ p0 = S!Never => quiet < b
        /\ p0 # S!Never => p0 <= r0 /\ quiet <= b + p0 /\ p0 < e
    BY <1>2, <1>3 DEF Noticed
  <1>8. r0 \in S!Ages /\ d0 \in S!Ages /\ p0 \in S!Ages \cup {S!Never}
    BY <1>4
  <1>9. r = S!Older(r0) /\ d = S!Older(d0) /\ p = S!Older(p0)
    BY <1>4
  <1> HIDE DEF r0, d0, p0, r, d, p, b, e
  <1>10. r \in S!Ages /\ d \in S!Ages /\ q \in S!Ages /\ p \in S!Ages \cup {S!Never}
    BY <1>7, <1>8, <1>9, OlderIsOrdered
  <1>11. q = IF r < d THEN r ELSE d
    <2>1. CASE r0 < d0
      <3>1. r <= d /\ q = r
        BY <1>6, <1>7, <1>8, <1>9, <2>1, OlderIsOrdered
      <3> QED
        BY <1>6, <1>10, <3>1
    <2>2. CASE ~(r0 < d0)
      <3>1. d <= r /\ q = d
        BY <1>6, <1>7, <1>8, <1>9, <2>2, OlderIsOrdered
      <3> QED
        BY <1>6, <1>10, <3>1
    <2> QED
      BY <2>1, <2>2
  <1>12. S!KeepAlive(s, take) =
           IF p # S!Never
           THEN IF ping < e THEN S!Pinged(s, ping)
                ELSE S!Close(S!Send(S!Pinged(s, S!Never), take), "silence")
           ELSE IF r < b \/ d < b THEN s
           ELSE IF S!Send(s, take).ws.closed THEN S!Send(s, take)
           ELSE S!Pinged(S!Send(s, take), 0)
    BY <1>5 DEF S!KeepAlive, r, d, p, b, e
  <1>13. q <= quiet + 1
    BY <1>6, <1>7, <1>8, OlderIsOrdered
  <1> HIDE DEF q, ping
  <1>14. CASE p # S!Never
    <2>1. p0 # S!Never /\ p0 \in S!Ages /\ p0 < e
      BY <1>7, <1>8, <1>9, <1>14, OlderIsOrdered
    <2>2. p = p0 + 1 /\ p <= r /\ p \in S!Ages
      BY <1>6, <1>7, <1>8, <1>9, <1>10, <2>1, OlderIsOrdered DEF b, e
    <2>3. ping \in S!Ages /\ ping <= r /\ ping <= d /\ (ping = d \/ ping = p)
      BY <1>6, <1>10, <2>2 DEF ping
    <2>4. CASE ping < e
      <3> DEFINE t == S!Pinged(s, ping)
      <3>1. Rewound(s, t) /\ t.ws.read = r /\ t.ws.drained = d /\ t.ws.ping = ping
        <4>1. <<>> \in Seq(S!Units) /\ ping \in S!Ages \cup {S!Never}
          BY <2>3
        <4> QED
          BY <1>5, <4>1, SocketParts DEF Rewound, r, d
      <3> HIDE DEF t
      <3>2. Streaming(t) /\ t.ended = "open"
        BY <1>5, <3>1, RewoundIsWhole DEF Rewound
      <3>3. ping # S!Never /\ q <= b + ping
        <4>1. ping \in Nat /\ ping # S!Never
          BY <1>6, <2>3
        <4>2. q <= d
          BY <1>6, <1>10, <1>11
        <4>3. ping = d => q <= b + ping
          BY <1>6, <1>10, <4>1, <4>2
        <4>4. quiet <= b + p0 /\ quiet \in Nat /\ p0 \in Nat /\ q \in Nat
          BY <1>6, <1>7, <1>10, <2>1
        <4>5. ping = p => q <= b + ping
          BY <1>6, <1>13, <2>2, <4>4
        <4> QED
          BY <2>3, <4>1, <4>3, <4>5
      <3>4. Noticed(t, q)
        BY <1>10, <1>11, <2>3, <2>4, <3>1, <3>2, <3>3 DEF Noticed, b, e
      <3>5. Fine(t, q)
        BY <3>2, <3>4 DEF Fine
      <3>6. S!Becomes(t)
        BY <1>1, <1>12, <1>14, <2>4 DEF t
      <3> QED
        BY <1>2, <3>5, <3>6, StreamBecomes
    <2>5. CASE ~(ping < e)
      <3> DEFINE u == S!Pinged(s, S!Never)
                 v == S!Send(u, take)
                 t == S!Close(v, "silence")
      <3>1. Rewound(s, u)
        <4>1. <<>> \in Seq(S!Units) /\ S!Never \in S!Ages \cup {S!Never}
          OBVIOUS
        <4> QED
          BY <1>5, <4>1, SocketParts DEF Rewound
      <3> HIDE DEF u
      <3>2. Streaming(u)
        BY <1>5, <3>1, RewoundIsWhole
      <3>3. Streaming(v) /\ v.ended \in {"open", "lost", "cap"} /\ v \in WsStates
        BY <1>5, <3>1, <3>2, SendIsWhole DEF SentOrClosed, Rewound, Streaming
      <3> HIDE DEF v
      <3>4. /\ t \in WsStates /\ t.ws.closed /\ t.ws.pending = v.ws.pending
            /\ t.wire = v.wire /\ t.sent = v.sent
            /\ t.ended = IF v.ended = "open" THEN "silence" ELSE v.ended
        BY <3>3, StreamParts DEF Whys
      <3> HIDE DEF t
      <3>5. Streaming(t)
        BY <3>3, <3>4 DEF Streaming, Whole
      <3>6. q >= e
        BY <1>6, <1>10, <1>11, <2>3, <2>5
      <3>7. Fine(t, q)
        BY <1>10, <3>4, <3>5, <3>6 DEF Fine, Noticed, e
      <3>8. S!Becomes(t)
        BY <1>1, <1>12, <1>14, <2>5 DEF t, v, u
      <3> QED
        BY <1>2, <3>7, <3>8, StreamBecomes
    <2> QED
      BY <2>4, <2>5
  <1>15. CASE p = S!Never
    <2>1. p0 = S!Never /\ quiet < b
      <3>1. p0 \in S!Ages => p \in S!Ages
        BY <1>9, OlderIsOrdered
      <3>2. S!Never \notin S!Ages
        BY <1>6
      <3> QED
        BY <1>7, <1>8, <1>15, <3>1, <3>2
    <2>2. q <= b
      BY <1>6, <1>7, <1>10, <1>13, <2>1
    <2>3. CASE r < b \/ d < b
      <3>1. q < b
        BY <1>6, <1>10, <1>11, <2>3
      <3>2. Noticed(s, q)
        BY <1>5, <1>10, <1>11, <1>15, <3>1 DEF Noticed, r, d, p, b
      <3>3. S!Becomes(s) /\ Fine(s, q)
        BY <1>1, <1>5, <1>12, <1>15, <2>3, <3>2 DEF Fine
      <3> QED
        BY <1>2, <3>3, StreamBecomes
    <2>4. CASE ~(r < b \/ d < b)
      <3> DEFINE v == S!Send(s, take)
                 t == S!Pinged(v, 0)
      <3>1. Streaming(v) /\ SameAges(s, v) /\ v.ended \in {"open", "lost", "cap"}
            /\ v \in WsStates
        BY <1>5, SendIsWhole DEF SentOrClosed, Streaming
      <3>2. S!Becomes(IF v.ws.closed THEN v ELSE t)
        BY <1>1, <1>12, <1>15, <2>4
      <3> HIDE DEF v
      <3>3. CASE v.ws.closed
        <4>1. Fine(v, q)
          BY <1>10, <3>1, <3>3 DEF Fine, Noticed
        <4> QED
          BY <1>2, <3>2, <3>3, <4>1, StreamBecomes
      <3>4. CASE ~v.ws.closed
        <4>1. 0 \in S!Ages /\ 0 \in S!Ages \cup {S!Never} /\ 0 # S!Never
          BY <1>6
        <4>2. Rewound(v, t) /\ t.ws.read = r /\ t.ws.drained = d /\ t.ws.ping = 0
          <5>1. <<>> \in Seq(S!Units)
            OBVIOUS
          <5> QED
            BY <3>1, <4>1, <5>1, SocketParts DEF Rewound, r, d, SameAges
        <4> HIDE DEF t
        <4>3. Streaming(t) /\ t.ended \in {"open", "lost", "cap"}
          BY <3>1, <4>2, RewoundIsWhole DEF Rewound
        <4>4. 0 <= r /\ q <= b + 0 /\ 0 < e
          BY <1>6, <1>10, <2>2
        <4>5. Noticed(t, q)
          BY <1>10, <1>11, <4>1, <4>2, <4>3, <4>4 DEF Noticed, b, e
        <4>6. Fine(t, q)
          BY <4>3, <4>5 DEF Fine
        <4> QED
          BY <1>2, <3>2, <3>4, <4>6, StreamBecomes
      <3> QED
        BY <3>3, <3>4
    <2> QED
      BY <2>3, <2>4
  <1> QED
    BY <1>14, <1>15

LEMMA WsConnectionBegins == S!WsConnectionInit => WsConnectionInv
  <1> SUFFICES ASSUME S!WsConnectionInit PROVE WsConnectionInv
    OBVIOUS
  <1> DEFINE c == [closed |-> FALSE, pending |-> <<>>, out |-> FALSE, watched |-> TRUE,
                   gone |-> FALSE, read |-> 0, drained |-> S!Enough, ping |-> S!Never]
             s == [ws |-> c, wire |-> <<>>, sent |-> 0, ended |-> "open"]
  <1>1. S!Now = s /\ quiet = 0
    BY DEF S!WsConnectionInit, S!Now
  <1>2. /\ <<>> \in Seq(S!Units) /\ 0 \in S!Ages /\ S!Enough \in S!Ages /\ 0 \in 0 .. MaxFrames
        /\ Len(<<>>) = 0 /\ 0 * Size = 0 /\ 0 <= MaxPending /\ 0 < PingAfter
        /\ S!Enough \in Nat /\ 0 < S!Enough
    BY StreamBounds
  <1>3. c \in WsRecords
    BY <1>2 DEF WsRecords
  <1>4. s \in WsStates
    <2> HIDE DEF c
    <2> QED
      BY <1>2, <1>3 DEF WsStates, Whys
  <1>5. From(<<>>, 0) /\ From(<<>>, Len(<<>>)) /\ Len(<<>>) + Len(<<>>) = 0
    BY <1>2 DEF From
  <1>6. /\ s.wire = <<>> /\ s.sent = 0 /\ s.ended = "open" /\ ~s.ws.closed /\ s.ws.pending = <<>>
        /\ s.ws.watched /\ s.ws.read = 0 /\ s.ws.drained = S!Enough /\ s.ws.ping = S!Never
    OBVIOUS
  <1> HIDE DEF s
  <1>7. Whole(s)
    BY <1>2, <1>5, <1>6 DEF Whole
  <1>8. Noticed(s, 0)
    BY <1>2, <1>6 DEF Noticed
  <1> QED
    BY <1>1, <1>4, <1>7, <1>8 DEF WsConnectionInv, Streaming

LEMMA WsConnectionNextKeeps ==
    WsConnectionInv /\ [S!WsConnectionNext]_(S!wcVars) => WsConnectionInv'
  <1> SUFFICES ASSUME WsConnectionInv, [S!WsConnectionNext]_(S!wcVars) PROVE WsConnectionInv'
    OBVIOUS
  <1>1. CASE UNCHANGED S!wcVars
    <2>1. S!Becomes(S!Now) /\ quiet' = quiet
      BY <1>1 DEF S!wcVars, S!Becomes, S!Now
    <2>2. Fine(S!Now, quiet)
      BY DEF WsConnectionInv, Fine
    <2> QED
      BY <2>1, <2>2, StreamBecomes
  <1>2. CASE S!WsConnectionNext
    BY <1>2, OwnerSendsKeeps, ReadableKeeps, WritableKeeps, ClosedUnderKeeps, HeartbeatKeeps
       DEF S!WsConnectionNext
  <1> QED
    BY <1>1, <1>2

\* What the invariant says of the properties.
LEMMA WsConnectionPromises ==
    WsConnectionInv => S!WsConnectionTypeOK /\ S!GoneIsNoticed /\ S!StreamIsWhole
  <1> SUFFICES ASSUME WsConnectionInv
               PROVE  S!WsConnectionTypeOK /\ S!GoneIsNoticed /\ S!StreamIsWhole
    OBVIOUS
  <1>1. S!Now \in WsStates /\ Whole(S!Now) /\ Noticed(S!Now, quiet)
    BY DEF WsConnectionInv, Streaming
  <1>2. S!Now.ws = conn /\ S!Now.wire = wire /\ S!Now.sent = sent /\ S!Now.ended = ended
    BY DEF S!Now
  <1>3. conn \in WsRecords /\ wire \in Seq(S!Units) /\ sent \in 0 .. MaxFrames /\ ended \in Whys
    BY <1>1, <1>2 DEF WsStates
  <1>4. conn.pending \in Seq(S!Units) /\ conn.read \in S!Ages /\ conn.drained \in S!Ages
        /\ conn.ping \in S!Ages \cup {S!Never}
    BY <1>3 DEF WsRecords
  <1>5. S!WsConnectionTypeOK
    BY <1>1, <1>3 DEF S!WsConnectionTypeOK, WsRecords, Whys, Noticed
  <1>6. S!GoneIsNoticed
    <2>1. /\ quiet \in S!Ages
          /\ ended = "silence" => quiet >= CloseAfter
          /\ ~conn.closed =>
              /\ quiet = IF conn.read < conn.drained THEN conn.read ELSE conn.drained
              /\ conn.ping = S!Never => quiet < PingAfter
              /\ conn.ping # S!Never =>
                    conn.ping <= conn.read /\ quiet <= PingAfter + conn.ping
                    /\ conn.ping < CloseAfter
      BY <1>1, <1>2 DEF Noticed
    <2>2. PingAfter \in Nat /\ CloseAfter \in Nat /\ quiet \in Nat
          /\ (conn.ping # S!Never => conn.ping \in Nat)
      BY <1>4, <2>1, StreamBounds
    <2>3. ~conn.closed => quiet <= PingAfter + CloseAfter
      BY <2>1, <2>2
    <2> QED
      BY <2>1, <2>3 DEF S!GoneIsNoticed
  <1> DEFINE n == sent * Size
             all == S!AllFrames
  <1>7. n \in Nat /\ all = [k \in 1 .. n |-> S!UnitAt(k)] /\ sent \in Nat
    BY <1>3, StreamBounds DEF S!AllFrames
  <1>8. /\ From(wire, 0) /\ Len(wire) <= n /\ Len(conn.pending) <= MaxPending
        /\ ~conn.closed =>
            /\ From(conn.pending, Len(wire)) /\ Len(wire) + Len(conn.pending) = n
            /\ conn.watched /\ (conn.pending # <<>> => conn.out)
    BY <1>1, <1>2 DEF Whole
  <1> HIDE DEF n, all
  <1>9. S!IsPrefix(wire, all)
    <2>1. Len(all) = n /\ DOMAIN wire = 1 .. Len(wire) /\ Len(wire) \in Nat
      BY <1>3, <1>7
    <2>2. \A k \in 1 .. Len(wire) : wire[k] = all[k]
      BY <1>7, <1>8, <2>1 DEF From
    <2> QED
      BY <1>3, <1>8, <2>1, <2>2 DEF S!IsPrefix
  <1>10. ~conn.closed => wire \o conn.pending = all
    <2> SUFFICES ASSUME ~conn.closed PROVE wire \o conn.pending = all
      OBVIOUS
    <2> DEFINE z == wire \o conn.pending
    <2>1. /\ z \in Seq(S!Units) /\ Len(z) = n /\ From(z, 0)
      <3>1. From(conn.pending, 0 + Len(wire)) /\ 0 \in Nat
        BY <1>3, <1>8
      <3> QED
        BY <1>3, <1>4, <1>8, <3>1, JoinedInOrder
    <2> HIDE DEF z
    <2>2. z = [k \in 1 .. n |-> z[k]]
      BY <2>1
    <2>3. \A k \in 1 .. n : z[k] = S!UnitAt(k)
      BY <1>7, <2>1 DEF From
    <2> QED
      BY <1>7, <2>2, <2>3 DEF z
  <1>11. S!StreamIsWhole
    BY <1>8, <1>9, <1>10 DEF S!StreamIsWhole, all
  <1> QED
    BY <1>5, <1>6, <1>11

-----------------------------------------------------------------------------
(* WsClient: a client that says it is connected is, and one that waits to  *)
(* reconnect has the timer.                                                *)

WsNames ==
    {"Idle", "Connecting", "Upgrading", "Connected", "Closing", "Reconnecting", "Closed",
     "Error"}

WsClients ==
    [ st : WsNames, up : BOOLEAN, buf : {"none", "part", "bad"}, ping : BOOLEAN,
      timer : BOOLEAN, pong : BOOLEAN, miss : 0 .. 2, pend : SUBSET Req,
      due : SUBSET Req, auto : BOOLEAN, tcp : T!TcpRecords,
      react : W!Reactions, silent : BOOLEAN ]

\* A client in the middle of a method; one whose timer will reconnect it; one that
\* is what it says.
Loose(w) == w \in WsClients /\ w.pend = w.due
Held(w) == Loose(w) /\ (w.st = "Reconnecting" => w.timer)
Good(w) ==
    Held(w) /\ (w.st = "Connected" => w.tcp.st = "Connected" /\ w.ping /\ ~w.up)

\* What of a client its methods go by.
At(w, st, timer, ping, up, tcp) ==
    /\ Loose(w) /\ w.st = st /\ w.timer = timer /\ w.ping = ping /\ w.up = up
    /\ w.tcp = tcp

LEMMA WsTcpTyped == ASSUME NEW w, Loose(w) PROVE w.tcp \in T!TcpRecords /\ w.tcp \in TcpStates
  <1>1. w.tcp \in T!TcpRecords
    BY DEF Loose, WsClients
  <1> QED
    BY <1>1, TcpRecordsAreStates

LEMMA NamesAreNames ==
    /\ "Connecting" \in WsNames /\ "Upgrading" \in WsNames /\ "Connected" \in WsNames
    /\ "Closing" \in WsNames /\ "Reconnecting" \in WsNames /\ "Closed" \in WsNames
    /\ "Error" \in WsNames
  BY DEF WsNames

LEMMA NoPing ==
    ASSUME NEW w, Loose(w), NEW u, u = [w EXCEPT !.ping = FALSE]
    PROVE  At(u, w.st, w.timer, FALSE, w.up, w.tcp)
  BY DEF WsClients, At, Loose

LEMMA Armed ==
    ASSUME NEW w, Loose(w), NEW u, u = [w EXCEPT !.timer = TRUE]
    PROVE  At(u, w.st, TRUE, w.ping, w.up, w.tcp)
  BY DEF WsClients, At, Loose

LEMMA Renamed ==
    ASSUME NEW w, Loose(w), NEW st \in WsNames, NEW u, u = [w EXCEPT !.st = st]
    PROVE  At(u, st, w.timer, w.ping, w.up, w.tcp)
  BY DEF WsClients, At, Loose

LEMMA Disarmed ==
    ASSUME NEW w, Loose(w), NEW st \in WsNames,
           NEW u, u = [w EXCEPT !.timer = FALSE, !.st = st]
    PROVE  At(u, st, FALSE, w.ping, w.up, w.tcp)
  BY DEF WsClients, At, Loose

LEMMA Asked ==
    ASSUME NEW w, Loose(w), NEW st \in WsNames, NEW u, u = [w EXCEPT !.st = st, !.up = TRUE]
    PROVE  At(u, st, w.timer, w.ping, TRUE, w.tcp)
  BY DEF WsClients, At, Loose

LEMMA Heard ==
    ASSUME NEW w, Loose(w), NEW t \in T!TcpRecords, NEW u, u = [w EXCEPT !.tcp = t]
    PROVE  At(u, w.st, w.timer, w.ping, w.up, t)
  BY DEF WsClients, At, Loose

LEMMA Reacted ==
    ASSUME NEW w, Loose(w), NEW u, u = [w EXCEPT !.react = "none"]
    PROVE  At(u, w.st, w.timer, w.ping, w.up, w.tcp)
  BY DEF WsClients, At, Loose, W!Reactions

\* What the methods of tcp_ return that on_connect_ does not end.
LEMMA TcpSendEnds ==
    ASSUME NEW t \in T!TcpRecords
    PROVE  /\ T!TcpSend(t) \in TcpStates /\ T!TcpSend(t).ev \in {"none", "error"}
           /\ T!TcpSend(t).ev = "none" => T!TcpSend(t).st = t.st
  <1> DEFINE u == [t EXCEPT !.out = TRUE]
  <1>1. t \in TcpStates /\ t.ev = "none"
    BY TcpRecordsAreStates DEF T!TcpRecords
  <1>2. u \in TcpStates /\ u.ev = "none" /\ u.st = t.st
    BY <1>1 DEF TcpStates
  <1>3. T!TcpSend(t) \in {t, u, T!Watch(u), T!TcpError(t)}
    BY DEF T!TcpSend
  <1> HIDE DEF u
  <1>4. /\ T!Watch(u) = u \/ T!Watch(u).ev = "error"
        /\ T!TcpError(t).ev = "error"
    BY <1>1, <1>2, TcpEnds DEF Failed
  <1>5. T!TcpSend(t) \in TcpStates
    BY <1>1, TcpSendTyped
  <1> QED
    BY <1>1, <1>2, <1>3, <1>4, <1>5

LEMMA TcpCloseEnds ==
    ASSUME NEW t \in T!TcpRecords
    PROVE  T!TcpClose(t) \in TcpStates /\ T!TcpClose(t).ev \in {"none", "close"}
  <1>1. t \in TcpStates /\ t.ev = "none"
    BY TcpRecordsAreStates DEF T!TcpRecords
  <1> QED
    BY <1>1, TcpEnds, TcpParts

LEMMA TcpHeardKeeps ==
    ASSUME NEW t \in TcpStates
    PROVE  T!TcpHeard(t) \in T!TcpRecords /\ T!TcpHeard(t).st = t.st
  <1>1. T!TcpHeard(t).st = t.st
    BY DEF T!TcpHeard, TcpStates
  <1> QED
    BY <1>1, TcpParts

\* An event of a connection that stands leaves it standing or says who is told.
LEMMA TcpOnStands ==
    ASSUME NEW t \in T!TcpRecords, NEW e \in T!TcpEvents, T!TcpCan(t, e), t.st = "Connected"
    PROVE  T!TcpOn(t, e).ev = "none" => T!TcpOn(t, e).st = "Connected"
  <1> DEFINE i == T!ResetIdle(t)
             d == [i EXCEPT !.out = FALSE]
  <1>1. t \in TcpStates /\ t.ev = "none"
    BY TcpRecordsAreStates DEF T!TcpRecords
  <1>2. i \in TcpStates /\ i.st = "Connected"
    BY <1>1 DEF T!ResetIdle, TcpStates
  <1>3. d \in TcpStates /\ d.st = "Connected"
    BY <1>2 DEF TcpStates
  <1>4. e \notin {"connected", "refused", "secured", "distrusted"}
    BY DEF T!TcpCan
  <1>5. T!TcpOn(t, e) \in {T!TcpError(t), T!TcpClose(i), T!Watch(d)}
    BY <1>4 DEF T!TcpOn, T!TcpEvents, T!TcpReading, T!TcpDrained
  <1> HIDE DEF i, d
  <1>6. /\ T!TcpError(t).ev = "error"
        /\ T!TcpClose(i) = i \/ T!TcpClose(i).ev = "close"
        /\ T!Watch(d) = d \/ T!Watch(d).ev = "error"
    BY <1>1, <1>2, <1>3, TcpEnds DEF Failed
  <1> QED
    BY <1>2, <1>3, <1>5, <1>6

\* TcpClient as WsClient and its methods see it.
LEMMA WsTcp ==
    /\ \A t : /\ W!TcpHeard(t) = T!TcpHeard(t) /\ W!TcpSend(t) = T!TcpSend(t)
              /\ W!TcpClose(t) = T!TcpClose(t) /\ W!TcpReading(t) = T!TcpReading(t)
              /\ W!Inner!TcpHeard(t) = T!TcpHeard(t) /\ W!Inner!TcpSend(t) = T!TcpSend(t)
              /\ W!Inner!TcpClose(t) = T!TcpClose(t)
    /\ \A t, how : /\ W!TcpConnect(t, how) = T!TcpConnect(t, how)
                   /\ W!Inner!TcpConnect(t, how) = T!TcpConnect(t, how)
    /\ \A t, e : W!TcpOn(t, e) = T!TcpOn(t, e) /\ W!TcpCan(t, e) = T!TcpCan(t, e)
    /\ W!TcpEvents = T!TcpEvents /\ W!Hows = T!Hows /\ W!TcpRecords = T!TcpRecords
    /\ \A a, b, c \in BOOLEAN : W!TcpFresh(a, b, c) = T!TcpFresh(a, b, c)
  BY DEF W!TcpHeard, W!TcpSend, W!TcpClose, W!TcpReading, W!TcpConnect, W!TcpOn, W!TcpCan,
         W!TcpEvents, W!Hows, W!TcpRecords, W!TcpFresh, W!TcpCleanup, W!TcpError, W!Watch,
         W!ResetIdle, W!OnConnected, W!TcpConnectResult, W!TlsStep, W!TcpDrained, W!Awake,
         T!TcpHeard, T!TcpSend, T!TcpClose, T!TcpReading, T!TcpConnect, T!TcpOn, T!TcpCan,
         T!TcpEvents, T!Hows, T!TcpRecords, T!TcpFresh, T!TcpCleanup, T!TcpError, T!Watch,
         T!ResetIdle, T!OnConnected, T!TcpConnectResult, T!TlsStep, T!TcpDrained, T!Awake,
         W!Inner!TcpHeard, W!Inner!TcpSend, W!Inner!TcpClose, W!Inner!TcpConnect,
         W!Inner!TcpCleanup, W!Inner!TcpError, W!Inner!Watch, W!Inner!ResetIdle,
         W!Inner!OnConnected

-----------------------------------------------------------------------------
(* What a callback may do: inside it, the user is told and does nothing.   *)

LEMMA InnerTellKeeps ==
    ASSUME NEW w, Loose(w) PROVE Loose(W!Done(w)) /\ (Good(w) => Good(W!Done(w)))
  <1> DEFINE u == [w EXCEPT !.react = "none"]
  <1>2. At(u, w.st, w.timer, w.ping, w.up, w.tcp)
    BY Reacted
  <1>3. W!Done(w) = u
    BY DEF W!Done
  <1> HIDE DEF u
  <1> QED
    BY <1>2, <1>3 DEF At, Held, Good

LEMMA InnerEnterErrorKeeps == ASSUME NEW w, Loose(w) PROVE Good(W!Inner!EnterError(w))
  <1> DEFINE u == [w EXCEPT !.ping = FALSE]
             v == [u EXCEPT !.timer = FALSE, !.st = "Error"]
  <1>1. At(u, w.st, w.timer, FALSE, w.up, w.tcp)
    BY NoPing
  <1> HIDE DEF u
  <1>2. At(v, "Error", FALSE, u.ping, u.up, u.tcp)
    <2>1. Loose(u)
      BY <1>1 DEF At
    <2> QED
      BY <2>1, Disarmed, NamesAreNames
  <1>3. Loose(v) /\ Good(v)
    BY <1>2 DEF At, Held, Good
  <1>4. W!Inner!EnterError(w) = W!Done(v)
    BY DEF W!Inner!EnterError, W!Inner!StopPing, u
  <1> HIDE DEF v
  <1> QED
    BY <1>3, <1>4, InnerTellKeeps

LEMMA InnerTellThenWaitKeeps ==
    ASSUME NEW w, Loose(w) PROVE Good(W!Inner!TellThenWait(w))
  <1> DEFINE u == [w EXCEPT !.ping = FALSE]
             v == W!Done(u)
             x == [v EXCEPT !.st = "Reconnecting"]
             y == [x EXCEPT !.timer = TRUE]
  <1>1. Loose(u)
    BY NoPing DEF At
  <1> HIDE DEF u
  <1>2. Loose(v)
    BY <1>1, InnerTellKeeps
  <1> HIDE DEF v
  <1>3. At(x, "Reconnecting", v.timer, v.ping, v.up, v.tcp)
    BY <1>2, Renamed, NamesAreNames
  <1> HIDE DEF x
  <1>4. At(y, x.st, TRUE, x.ping, x.up, x.tcp)
    BY <1>3, Armed DEF At
  <1>5. W!Inner!TellThenWait(w) = y
    BY DEF W!Inner!TellThenWait, W!Inner!StopPing, W!Inner!Arm, u, v, x
  <1> HIDE DEF y
  <1> QED
    BY <1>3, <1>4, <1>5 DEF At, Held, Good

LEMMA InnerOnTcpKeeps ==
    ASSUME NEW w, Loose(w)
    PROVE  /\ Loose(W!Inner!OnTcpClose(w)) /\ (Held(w) => Good(W!Inner!OnTcpClose(w)))
           /\ Good(W!Inner!OnTcpError(w))
           /\ w.st = "Reconnecting" => W!Inner!OnTcpClose(w) = w
  <1> DEFINE u == [w EXCEPT !.ping = FALSE]
             v == [u EXCEPT !.st = "Closed"]
  <1>1. Loose(u)
    BY NoPing DEF At
  <1> HIDE DEF u
  <1>2. At(v, "Closed", u.timer, u.ping, u.up, u.tcp)
    BY <1>1, Renamed, NamesAreNames
  <1>3. Loose(v) /\ Good(v)
    BY <1>2 DEF At, Held, Good
  <1> HIDE DEF v
  <1>4. Good(W!Done(v)) /\ Good(W!Inner!TellThenWait(w)) /\ Good(W!Inner!EnterError(w))
    BY <1>3, InnerTellKeeps, InnerTellThenWaitKeeps, InnerEnterErrorKeeps
  <1>5. /\ w.st \in {"Closing", "Closed", "Reconnecting"} => W!Inner!OnTcpClose(w) = w
        /\ w.st \notin {"Closing", "Closed", "Reconnecting"} =>
             W!Inner!OnTcpClose(w) \in {W!Inner!TellThenWait(w), W!Done(v)}
        /\ W!Inner!OnTcpError(w) \in {W!Inner!TellThenWait(w), W!Inner!EnterError(w)}
    BY DEF W!Inner!OnTcpClose, W!Inner!OnTcpError, W!Inner!StopPing, u, v
  <1>6. Held(w) /\ w.st \in {"Closing", "Closed", "Reconnecting"} => Good(w)
    BY DEF Good
  <1> QED
    BY <1>4, <1>5, <1>6 DEF Good, Held

\* tcp_ was called: who is told, and what of the client stands.
LEMMA InnerEndsKeeps ==
    ASSUME NEW w, Loose(w), NEW t \in TcpStates, t.ev \in {"none", "close", "error"}
    PROVE  /\ Loose(W!Inner!Ends(w, t))
           /\ Held(w) /\ (t.ev = "none" /\ w.st = "Connected" =>
                            t.st = "Connected" /\ w.ping /\ ~w.up)
                => Good(W!Inner!Ends(w, t))
           /\ w.st = "Reconnecting" /\ t.ev # "error" =>
                W!Inner!Ends(w, t).st = "Reconnecting"
  <1> DEFINE h == T!TcpHeard(t)
             u == [w EXCEPT !.tcp = h]
  <1>1. h \in T!TcpRecords /\ h.st = t.st
    BY TcpHeardKeeps
  <1> HIDE DEF h
  <1>2. At(u, w.st, w.timer, w.ping, w.up, h)
    BY <1>1, Heard
  <1>3. /\ t.ev = "none" => W!Inner!Ends(w, t) = u
        /\ t.ev = "close" => W!Inner!Ends(w, t) = W!Inner!OnTcpClose(u)
        /\ t.ev = "error" => W!Inner!Ends(w, t) = W!Inner!OnTcpError(u)
    BY WsTcp DEF W!Inner!Ends, h
  <1> HIDE DEF u
  <1>4. Loose(u) /\ (Held(w) => Held(u)) /\ u.st = w.st
    BY <1>2 DEF At, Held
  <1>5. /\ Loose(W!Inner!OnTcpClose(u)) /\ (Held(u) => Good(W!Inner!OnTcpClose(u)))
        /\ Good(W!Inner!OnTcpError(u))
        /\ u.st = "Reconnecting" => W!Inner!OnTcpClose(u) = u
    BY <1>4, InnerOnTcpKeeps
  <1>6. Held(u) /\ (w.st = "Connected" => t.st = "Connected" /\ w.ping /\ ~w.up) => Good(u)
    BY <1>1, <1>2 DEF At, Good
  <1> QED
    BY <1>3, <1>4, <1>5, <1>6 DEF Good, Held

LEMMA InnerSendKeeps ==
    ASSUME NEW w, Loose(w)
    PROVE  /\ Loose(W!Inner!Send(w)) /\ (Good(w) => Good(W!Inner!Send(w)))
           /\ Good(W!Inner!SendUpgrade(w))
  <1>1. ASSUME NEW x, Loose(x)
        PROVE  Loose(W!Inner!Send(x)) /\ (Good(x) => Good(W!Inner!Send(x)))
    <2> DEFINE t == T!TcpSend(x.tcp)
    <2>1. W!Inner!Send(x) = W!Inner!Ends(x, t)
      BY WsTcp DEF W!Inner!Send
    <2>2. x.tcp \in T!TcpRecords
      BY <1>1 DEF Loose, WsClients
    <2>3. t \in TcpStates /\ t.ev \in {"none", "error"} /\ (t.ev = "none" => t.st = x.tcp.st)
      BY <2>2, TcpSendEnds
    <2> HIDE DEF t
    <2> QED
      BY <1>1, <2>1, <2>3, InnerEndsKeeps DEF Good
  <1> DEFINE u == [w EXCEPT !.st = "Upgrading", !.up = TRUE]
  <1>3. At(u, "Upgrading", w.timer, w.ping, TRUE, w.tcp)
    BY Asked, NamesAreNames
  <1>4. Good(u) /\ Loose(u)
    BY <1>3 DEF At, Held, Good
  <1>5. W!Inner!SendUpgrade(w) = W!Inner!Send(u)
    BY DEF W!Inner!SendUpgrade
  <1> HIDE DEF u
  <1> QED
    BY <1>1, <1>4, <1>5

LEMMA InnerConnectKeeps ==
    ASSUME NEW w, Loose(w), NEW how \in T!Hows
    PROVE  Good(W!Inner!DoConnect(w, how)) /\ Good(W!Inner!Connect(w, how))
  <1> DEFINE u == [w EXCEPT !.st = "Connecting", !.up = FALSE, !.pong = FALSE,
                            !.miss = 0, !.buf = "none", !.silent = FALSE]
             t == T!TcpConnect(u.tcp, how)
             h == T!TcpHeard(t)
             v == [u EXCEPT !.tcp = h]
  <1>1. Loose(u) /\ Held(u) /\ u.st = "Connecting"
    <2>1. w \in WsClients /\ w.pend = w.due /\ "Connecting" \in WsNames /\ 0 \in 0 .. 2
      BY NamesAreNames DEF Loose
    <2>2. u \in WsClients
      BY <2>1 DEF WsClients
    <2>3. u.pend = w.pend /\ u.due = w.due /\ u.st = "Connecting"
      BY <2>1 DEF WsClients
    <2> HIDE DEF u
    <2> QED
      BY <2>1, <2>2, <2>3 DEF Loose, Held
  <1>2. W!Inner!DoConnect(w, how) = W!Inner!After(u, t)
    BY WsTcp DEF W!Inner!DoConnect
  <1> HIDE DEF u
  <1>10. u.tcp \in T!TcpRecords
    BY <1>1, WsTcpTyped
  <1>11. W!Inner!After(u, t) = IF t.ev = "connect" THEN W!Inner!SendUpgrade(v) ELSE W!Inner!Ends(u, t)
    BY WsTcp DEF W!Inner!After
  <1>3. t \in TcpStates
    BY <1>10, TcpConnectTyped, TcpRecordsAreStates
  <1>4. t.ev = "connect" \/ t.ev \in {"none", "close", "error"}
    BY <1>3 DEF TcpStates
  <1> HIDE DEF t
  <1>5. h \in T!TcpRecords
    BY <1>3, TcpHeardKeeps
  <1> HIDE DEF h
  <1>6. Loose(v)
    BY <1>1, <1>5, Heard DEF At, Held
  <1> HIDE DEF v
  <1>7. Good(W!Inner!SendUpgrade(v)) /\ (t.ev # "connect" => Good(W!Inner!Ends(u, t)))
    BY <1>1, <1>3, <1>4, <1>6, InnerSendKeeps, InnerEndsKeeps DEF Held
  <1>8. Good(W!Inner!DoConnect(w, how))
    BY <1>2, <1>7, <1>11
  <1>9. W!Inner!Connect(w, how) \in {W!Inner!DoConnect(w, how), W!Inner!EnterError(w)}
    BY DEF W!Inner!Connect
  <1> QED
    BY <1>8, <1>9, InnerEnterErrorKeeps

\* A client that waits to reconnect closes its connection and arms the timer.
LEMMA InnerWaitKeeps ==
    ASSUME NEW w, Loose(w), w.st = "Reconnecting"
    PROVE  Good(W!Inner!Arm(W!Inner!Ends(w, W!Inner!TcpClose(w.tcp))))
  <1> DEFINE t == T!TcpClose(w.tcp)
             u == W!Inner!Ends(w, t)
             v == [u EXCEPT !.timer = TRUE]
  <1>1. w.tcp \in T!TcpRecords
    BY DEF Loose, WsClients
  <1>2. t \in TcpStates /\ t.ev \in {"none", "close"}
    BY <1>1, TcpCloseEnds
  <1>3. W!Inner!Arm(W!Inner!Ends(w, W!Inner!TcpClose(w.tcp))) = v
    BY WsTcp DEF W!Inner!Arm
  <1> HIDE DEF t
  <1>4. Loose(u) /\ u.st = "Reconnecting"
    BY <1>2, InnerEndsKeeps
  <1> HIDE DEF u
  <1>5. At(v, u.st, TRUE, u.ping, u.up, u.tcp)
    BY <1>4, Armed
  <1> HIDE DEF v
  <1> QED
    BY <1>3, <1>4, <1>5 DEF At, Held, Good

LEMMA InnerCallsKeep ==
    ASSUME NEW w, Loose(w)
    PROVE  /\ Loose(W!Inner!Close(w)) /\ (Good(w) => Good(W!Inner!Close(w)))
           /\ Loose(W!Inner!Reconnect(w)) /\ (Good(w) => Good(W!Inner!Reconnect(w)))
  <1> DEFINE u == [w EXCEPT !.ping = FALSE]
             c == [u EXCEPT !.st = "Closing"]
             r == [u EXCEPT !.st = "Reconnecting"]
  <1>1. At(u, w.st, w.timer, FALSE, w.up, w.tcp)
    BY NoPing
  <1> HIDE DEF u
  <1>2. At(c, "Closing", u.timer, u.ping, u.up, u.tcp)
        /\ At(r, "Reconnecting", u.timer, u.ping, u.up, u.tcp)
    BY <1>1, Renamed, NamesAreNames DEF At
  <1>3. /\ W!Inner!Close(w) \in {w, W!Inner!Send(c)}
        /\ W!Inner!Reconnect(w) \in {w, W!Inner!Arm(W!Inner!Ends(r, W!Inner!TcpClose(r.tcp)))}
    BY DEF W!Inner!Close, W!Inner!Reconnect, W!Inner!StopPing, u
  <1> HIDE DEF c, r
  <1>4. Good(c) /\ Loose(c) /\ Loose(r) /\ r.st = "Reconnecting"
    BY <1>2 DEF At, Held, Good
  <1>5. Good(W!Inner!Send(c)) /\ Good(W!Inner!Arm(W!Inner!Ends(r, W!Inner!TcpClose(r.tcp))))
    BY <1>4, InnerSendKeeps, InnerWaitKeeps
  <1> QED
    BY <1>3, <1>5 DEF Good, Held

LEMMA TellKeeps ==
    ASSUME NEW w, Loose(w) PROVE Loose(W!React(w)) /\ (Good(w) => Good(W!React(w)))
  <1> DEFINE u == W!Done(w)
  <1>1. Loose(u) /\ (Good(w) => Good(u))
    BY InnerTellKeeps
  <1>2. w.react \in {"none", "close", "reconnect", "connect"} /\ "wait" \in T!Hows
    BY DEF Loose, WsClients, W!Reactions, T!Hows
  <1>3. W!React(w) \in {u, W!Inner!Close(u), W!Inner!Reconnect(u), W!Inner!Connect(u, "wait")}
    BY <1>2 DEF W!React
  <1> HIDE DEF u
  <1>4. /\ Loose(W!Inner!Close(u)) /\ (Good(u) => Good(W!Inner!Close(u)))
        /\ Loose(W!Inner!Reconnect(u)) /\ (Good(u) => Good(W!Inner!Reconnect(u)))
        /\ Good(W!Inner!Connect(u, "wait"))
    BY <1>1, <1>2, InnerCallsKeep, InnerConnectKeeps
  <1> QED
    BY <1>1, <1>3, <1>4 DEF Good, Held

-----------------------------------------------------------------------------
(* The methods as the loop and the user call them.                         *)

LEMMA EnterErrorKeeps == ASSUME NEW w, Loose(w) PROVE Good(W!EnterError(w))
  <1> DEFINE u == [w EXCEPT !.ping = FALSE]
             v == [u EXCEPT !.timer = FALSE, !.st = "Error"]
  <1>1. At(u, w.st, w.timer, FALSE, w.up, w.tcp)
    BY NoPing
  <1> HIDE DEF u
  <1>2. At(v, "Error", FALSE, u.ping, u.up, u.tcp)
    <2>1. Loose(u)
      BY <1>1 DEF At
    <2> QED
      BY <2>1, Disarmed, NamesAreNames
  <1>3. Loose(v) /\ Good(v)
    BY <1>2 DEF At, Held, Good
  <1>4. W!EnterError(w) = W!React(v)
    BY DEF W!EnterError, W!StopPing, u
  <1> HIDE DEF v
  <1> QED
    BY <1>3, <1>4, TellKeeps

LEMMA TellThenWaitKeeps ==
    ASSUME NEW w, Loose(w) PROVE Good(W!TellThenWait(w))
  <1> DEFINE u == [w EXCEPT !.ping = FALSE]
             v == W!React(u)
             x == [v EXCEPT !.st = "Reconnecting"]
             y == [x EXCEPT !.timer = TRUE]
  <1>1. Loose(u)
    BY NoPing DEF At
  <1> HIDE DEF u
  <1>2. Loose(v)
    BY <1>1, TellKeeps
  <1> HIDE DEF v
  <1>3. At(x, "Reconnecting", v.timer, v.ping, v.up, v.tcp)
    BY <1>2, Renamed, NamesAreNames
  <1> HIDE DEF x
  <1>4. At(y, x.st, TRUE, x.ping, x.up, x.tcp)
    BY <1>3, Armed DEF At
  <1>5. W!TellThenWait(w) = y
    BY DEF W!TellThenWait, W!StopPing, W!Arm, u, v, x
  <1> HIDE DEF y
  <1> QED
    BY <1>3, <1>4, <1>5 DEF At, Held, Good

LEMMA OnTcpKeeps ==
    ASSUME NEW w, Loose(w)
    PROVE  /\ Loose(W!OnTcpClose(w)) /\ (Held(w) => Good(W!OnTcpClose(w)))
           /\ Good(W!OnTcpError(w))
           /\ w.st = "Reconnecting" => W!OnTcpClose(w) = w
  <1> DEFINE u == [w EXCEPT !.ping = FALSE]
             v == [u EXCEPT !.st = "Closed"]
  <1>1. Loose(u)
    BY NoPing DEF At
  <1> HIDE DEF u
  <1>2. At(v, "Closed", u.timer, u.ping, u.up, u.tcp)
    BY <1>1, Renamed, NamesAreNames
  <1>3. Loose(v) /\ Good(v)
    BY <1>2 DEF At, Held, Good
  <1> HIDE DEF v
  <1>4. Good(W!React(v)) /\ Good(W!TellThenWait(w)) /\ Good(W!EnterError(w))
    BY <1>3, TellKeeps, TellThenWaitKeeps, EnterErrorKeeps
  <1>5. /\ w.st \in {"Closing", "Closed", "Reconnecting"} => W!OnTcpClose(w) = w
        /\ w.st \notin {"Closing", "Closed", "Reconnecting"} =>
             W!OnTcpClose(w) \in {W!TellThenWait(w), W!React(v)}
        /\ W!OnTcpError(w) \in {W!TellThenWait(w), W!EnterError(w)}
    BY DEF W!OnTcpClose, W!OnTcpError, W!StopPing, u, v
  <1>6. Held(w) /\ w.st \in {"Closing", "Closed", "Reconnecting"} => Good(w)
    BY DEF Good
  <1> QED
    BY <1>4, <1>5, <1>6 DEF Good, Held

\* tcp_ was called: who is told, and what of the client stands.
LEMMA EndsKeeps ==
    ASSUME NEW w, Loose(w), NEW t \in TcpStates, t.ev \in {"none", "close", "error"}
    PROVE  /\ Loose(W!Ends(w, t))
           /\ Held(w) /\ (t.ev = "none" /\ w.st = "Connected" =>
                            t.st = "Connected" /\ w.ping /\ ~w.up)
                => Good(W!Ends(w, t))
           /\ w.st = "Reconnecting" /\ t.ev # "error" =>
                W!Ends(w, t).st = "Reconnecting"
  <1> DEFINE h == T!TcpHeard(t)
             u == [w EXCEPT !.tcp = h]
  <1>1. h \in T!TcpRecords /\ h.st = t.st
    BY TcpHeardKeeps
  <1> HIDE DEF h
  <1>2. At(u, w.st, w.timer, w.ping, w.up, h)
    BY <1>1, Heard
  <1>3. /\ t.ev = "none" => W!Ends(w, t) = u
        /\ t.ev = "close" => W!Ends(w, t) = W!OnTcpClose(u)
        /\ t.ev = "error" => W!Ends(w, t) = W!OnTcpError(u)
    BY WsTcp DEF W!Ends, h
  <1> HIDE DEF u
  <1>4. Loose(u) /\ (Held(w) => Held(u)) /\ u.st = w.st
    BY <1>2 DEF At, Held
  <1>5. /\ Loose(W!OnTcpClose(u)) /\ (Held(u) => Good(W!OnTcpClose(u)))
        /\ Good(W!OnTcpError(u))
        /\ u.st = "Reconnecting" => W!OnTcpClose(u) = u
    BY <1>4, OnTcpKeeps
  <1>6. Held(u) /\ (w.st = "Connected" => t.st = "Connected" /\ w.ping /\ ~w.up) => Good(u)
    BY <1>1, <1>2 DEF At, Good
  <1> QED
    BY <1>3, <1>4, <1>5, <1>6 DEF Good, Held

LEMMA SendKeeps ==
    ASSUME NEW w, Loose(w)
    PROVE  /\ Loose(W!Send(w)) /\ (Good(w) => Good(W!Send(w)))
           /\ Good(W!SendUpgrade(w))
  <1>1. ASSUME NEW x, Loose(x)
        PROVE  Loose(W!Send(x)) /\ (Good(x) => Good(W!Send(x)))
    <2> DEFINE t == T!TcpSend(x.tcp)
    <2>1. W!Send(x) = W!Ends(x, t)
      BY WsTcp DEF W!Send
    <2>2. x.tcp \in T!TcpRecords
      BY <1>1 DEF Loose, WsClients
    <2>3. t \in TcpStates /\ t.ev \in {"none", "error"} /\ (t.ev = "none" => t.st = x.tcp.st)
      BY <2>2, TcpSendEnds
    <2> HIDE DEF t
    <2> QED
      BY <1>1, <2>1, <2>3, EndsKeeps DEF Good
  <1> DEFINE u == [w EXCEPT !.st = "Upgrading", !.up = TRUE]
  <1>3. At(u, "Upgrading", w.timer, w.ping, TRUE, w.tcp)
    BY Asked, NamesAreNames
  <1>4. Good(u) /\ Loose(u)
    BY <1>3 DEF At, Held, Good
  <1>5. W!SendUpgrade(w) = W!Send(u)
    BY DEF W!SendUpgrade
  <1> HIDE DEF u
  <1> QED
    BY <1>1, <1>4, <1>5

LEMMA ConnectKeeps ==
    ASSUME NEW w, Loose(w), NEW how \in T!Hows
    PROVE  Good(W!DoConnect(w, how)) /\ Good(W!Connect(w, how))
  <1> DEFINE u == [w EXCEPT !.st = "Connecting", !.up = FALSE, !.pong = FALSE,
                            !.miss = 0, !.buf = "none", !.silent = FALSE]
             t == T!TcpConnect(u.tcp, how)
             h == T!TcpHeard(t)
             v == [u EXCEPT !.tcp = h]
  <1>1. Loose(u) /\ Held(u) /\ u.st = "Connecting"
    <2>1. w \in WsClients /\ w.pend = w.due /\ "Connecting" \in WsNames /\ 0 \in 0 .. 2
      BY NamesAreNames DEF Loose
    <2>2. u \in WsClients
      BY <2>1 DEF WsClients
    <2>3. u.pend = w.pend /\ u.due = w.due /\ u.st = "Connecting"
      BY <2>1 DEF WsClients
    <2> HIDE DEF u
    <2> QED
      BY <2>1, <2>2, <2>3 DEF Loose, Held
  <1>2. W!DoConnect(w, how) = W!After(u, t)
    BY WsTcp DEF W!DoConnect
  <1> HIDE DEF u
  <1>10. u.tcp \in T!TcpRecords
    BY <1>1, WsTcpTyped
  <1>11. W!After(u, t) = IF t.ev = "connect" THEN W!SendUpgrade(v) ELSE W!Ends(u, t)
    BY WsTcp DEF W!After
  <1>3. t \in TcpStates
    BY <1>10, TcpConnectTyped, TcpRecordsAreStates
  <1>4. t.ev = "connect" \/ t.ev \in {"none", "close", "error"}
    BY <1>3 DEF TcpStates
  <1> HIDE DEF t
  <1>5. h \in T!TcpRecords
    BY <1>3, TcpHeardKeeps
  <1> HIDE DEF h
  <1>6. Loose(v)
    BY <1>1, <1>5, Heard DEF At, Held
  <1> HIDE DEF v
  <1>7. Good(W!SendUpgrade(v)) /\ (t.ev # "connect" => Good(W!Ends(u, t)))
    BY <1>1, <1>3, <1>4, <1>6, SendKeeps, EndsKeeps DEF Held
  <1>8. Good(W!DoConnect(w, how))
    BY <1>2, <1>7, <1>11
  <1>9. W!Connect(w, how) \in {W!DoConnect(w, how), W!EnterError(w)}
    BY DEF W!Connect
  <1> QED
    BY <1>8, <1>9, EnterErrorKeeps

\* A client that waits to reconnect closes its connection and arms the timer.
LEMMA WaitKeeps ==
    ASSUME NEW w, Loose(w), w.st = "Reconnecting"
    PROVE  Good(W!Arm(W!Ends(w, W!TcpClose(w.tcp))))
  <1> DEFINE t == T!TcpClose(w.tcp)
             u == W!Ends(w, t)
             v == [u EXCEPT !.timer = TRUE]
  <1>1. w.tcp \in T!TcpRecords
    BY DEF Loose, WsClients
  <1>2. t \in TcpStates /\ t.ev \in {"none", "close"}
    BY <1>1, TcpCloseEnds
  <1>3. W!Arm(W!Ends(w, W!TcpClose(w.tcp))) = v
    BY WsTcp DEF W!Arm
  <1> HIDE DEF t
  <1>4. Loose(u) /\ u.st = "Reconnecting"
    BY <1>2, EndsKeeps
  <1> HIDE DEF u
  <1>5. At(v, u.st, TRUE, u.ping, u.up, u.tcp)
    BY <1>4, Armed
  <1> HIDE DEF v
  <1> QED
    BY <1>3, <1>4, <1>5 DEF At, Held, Good

LEMMA CallsKeep ==
    ASSUME NEW w, Loose(w)
    PROVE  /\ Loose(W!Close(w)) /\ (Good(w) => Good(W!Close(w)))
           /\ Loose(W!Reconnect(w)) /\ (Good(w) => Good(W!Reconnect(w)))
  <1> DEFINE u == [w EXCEPT !.ping = FALSE]
             c == [u EXCEPT !.st = "Closing"]
             r == [u EXCEPT !.st = "Reconnecting"]
  <1>1. At(u, w.st, w.timer, FALSE, w.up, w.tcp)
    BY NoPing
  <1> HIDE DEF u
  <1>2. At(c, "Closing", u.timer, u.ping, u.up, u.tcp)
        /\ At(r, "Reconnecting", u.timer, u.ping, u.up, u.tcp)
    BY <1>1, Renamed, NamesAreNames DEF At
  <1>3. /\ W!Close(w) \in {w, W!Send(c)}
        /\ W!Reconnect(w) \in {w, W!Arm(W!Ends(r, W!TcpClose(r.tcp)))}
    BY DEF W!Close, W!Reconnect, W!StopPing, u
  <1> HIDE DEF c, r
  <1>4. Good(c) /\ Loose(c) /\ Loose(r) /\ r.st = "Reconnecting"
    BY <1>2 DEF At, Held, Good
  <1>5. Good(W!Send(c)) /\ Good(W!Arm(W!Ends(r, W!TcpClose(r.tcp))))
    BY <1>4, SendKeeps, WaitKeeps
  <1> QED
    BY <1>3, <1>5 DEF Good, Held

\* What the loop calls: an event of tcp_ goes on from a client that stands.
LEMMA AfterKeeps ==
    ASSUME NEW w, Good(w), NEW e \in T!TcpEvents, T!TcpCan(w.tcp, e)
    PROVE  Good(W!After(w, W!TcpOn(w.tcp, e)))
  <1> DEFINE t == T!TcpOn(w.tcp, e)
             h == T!TcpHeard(t)
             v == [w EXCEPT !.tcp = h]
  <1>1. Loose(w) /\ Held(w) /\ w.tcp \in T!TcpRecords /\ w.tcp \in TcpStates
    BY WsTcpTyped DEF Good, Held
  <1>2. t \in TcpStates /\ h \in T!TcpRecords
    BY <1>1, TcpOnTyped, TcpHeardKeeps
  <1>3. t.ev = "connect" \/ t.ev \in {"none", "close", "error"}
    BY <1>2 DEF TcpStates
  <1>4. w.tcp.st = "Connected" /\ t.ev = "none" => t.st = "Connected"
    BY <1>1, TcpOnStands
  <1>5. W!After(w, W!TcpOn(w.tcp, e)) = IF t.ev = "connect" THEN W!SendUpgrade(v) ELSE W!Ends(w, t)
    BY WsTcp DEF W!After
  <1> HIDE DEF t, h
  <1>6. Loose(v)
    BY <1>1, <1>2, Heard DEF At
  <1> HIDE DEF v
  <1>7. Good(W!SendUpgrade(v)) /\ (t.ev # "connect" => Good(W!Ends(w, t)))
    BY <1>1, <1>2, <1>3, <1>4, <1>6, SendKeeps, EndsKeeps DEF Good
  <1> QED
    BY <1>5, <1>7

\* A request asked and one settled.
LEMMA Settled ==
    ASSUME NEW w, Good(w), NEW r \in Req
    PROVE  /\ Good([w EXCEPT !.pend = @ \ {r}, !.due = @ \ {r}])
           /\ Good([w EXCEPT !.pend = @ \cup {r}, !.due = @ \cup {r}])
  <1>1. w \in WsClients /\ w.pend = w.due
    BY DEF Good, Held, Loose
  <1> DEFINE u == [w EXCEPT !.pend = @ \ {r}, !.due = @ \ {r}]
             v == [w EXCEPT !.pend = @ \cup {r}, !.due = @ \cup {r}]
  <1>2. u \in WsClients /\ v \in WsClients
    BY <1>1 DEF WsClients
  <1>3. /\ u.pend = w.pend \ {r} /\ u.due = w.due \ {r}
        /\ u.st = w.st /\ u.timer = w.timer /\ u.ping = w.ping /\ u.up = w.up /\ u.tcp = w.tcp
        /\ v.pend = w.pend \cup {r} /\ v.due = w.due \cup {r}
        /\ v.st = w.st /\ v.timer = w.timer /\ v.ping = w.ping /\ v.up = w.up /\ v.tcp = w.tcp
    BY <1>1 DEF WsClients
  <1> HIDE DEF u, v
  <1>4. Good(u) /\ Good(v)
    BY <1>1, <1>2, <1>3 DEF Good, Held, Loose
  <1> QED
    BY <1>4 DEF u, v

LEMMA RequestKeeps == ASSUME NEW w, Good(w), NEW r \in Req PROVE Good(W!Request(w, r))
  <1> DEFINE u == [w EXCEPT !.pend = @ \cup {r}, !.due = @ \cup {r}]
  <1>1. Good(u)
    BY Settled
  <1>2. W!Request(w, r) \in {w, W!Send(u)}
    BY DEF W!Request
  <1> HIDE DEF u
  <1>3. Good(W!Send(u))
    BY <1>1, SendKeeps DEF Good, Held
  <1> QED
    BY <1>2, <1>3

LEMMA AnswerKeeps ==
    ASSUME NEW w, Good(w), NEW r \in Req
    PROVE  Good(W!HandleAnswer(w, r)) /\ Good(W!ResponseTimeout(w, r))
  <1> DEFINE u == [w EXCEPT !.pend = @ \ {r}, !.due = @ \ {r}]
  <1>1. Good(u)
    BY Settled
  <1>2. W!HandleAnswer(w, r) = W!React(u) /\ W!ResponseTimeout(w, r) = W!React(u)
    BY DEF W!HandleAnswer, W!ResponseTimeout
  <1> HIDE DEF u
  <1> QED
    BY <1>1, <1>2, TellKeeps DEF Good, Held

\* handle_close_frame()
LEMMA HandleCloseKeeps == ASSUME NEW w, Good(w) PROVE Good(W!HandleClose(w))
  <1> DEFINE began == w.st = "Closing"
             u == IF began THEN w ELSE W!Send(w)
             p == [u EXCEPT !.ping = FALSE]
             c == [p EXCEPT !.st = "Closed"]
             v == W!React(c)
             x == [v EXCEPT !.st = "Reconnecting"]
             y == [x EXCEPT !.timer = TRUE]
  <1>1. Loose(u)
    BY SendKeeps DEF Good, Held
  <1>2. W!HandleClose(w) \in {v, y}
    BY DEF W!HandleClose, W!StopPing, W!Arm
  <1> HIDE DEF u
  <1>3. Loose(p)
    BY <1>1, NoPing DEF At
  <1> HIDE DEF p
  <1>4. At(c, "Closed", p.timer, p.ping, p.up, p.tcp)
    BY <1>3, Renamed, NamesAreNames
  <1> HIDE DEF c
  <1>5. Loose(c) /\ Good(c)
    BY <1>4 DEF At, Held, Good
  <1>6. Loose(v) /\ Good(v)
    BY <1>5, TellKeeps
  <1> HIDE DEF v
  <1>7. At(x, "Reconnecting", v.timer, v.ping, v.up, v.tcp)
    BY <1>6, Renamed, NamesAreNames
  <1> HIDE DEF x
  <1>8. Loose(x)
    BY <1>7 DEF At
  <1>9. At(y, x.st, TRUE, x.ping, x.up, x.tcp)
    BY <1>8, Armed
  <1> HIDE DEF y
  <1>10. Good(y)
    BY <1>7, <1>9 DEF At, Held, Good
  <1> QED
    BY <1>2, <1>6, <1>10

LEMMA OnFrameKeeps == ASSUME NEW w, Good(w), NEW f \in W!Frames PROVE Good(W!OnFrame(w, f))
  <1> DEFINE u == [w EXCEPT !.pong = FALSE]
  <1>1. Good(u)
    <2>1. w \in WsClients /\ u \in WsClients
      BY DEF Good, Held, Loose, WsClients
    <2>2. /\ u.pend = w.pend /\ u.due = w.due /\ u.st = w.st /\ u.timer = w.timer
          /\ u.ping = w.ping /\ u.up = w.up /\ u.tcp = w.tcp
      BY <2>1 DEF WsClients
    <2> HIDE DEF u
    <2> QED
      BY <2>1, <2>2 DEF Good, Held, Loose
  <1>2. Loose(w) /\ Good(W!React(w)) /\ Loose(W!React(w))
    BY TellKeeps DEF Good, Held
  <1>3. Good(W!Send(w)) /\ Good(W!Send(W!React(w))) /\ Good(W!HandleClose(w))
    BY <1>2, SendKeeps, HandleCloseKeeps
  <1>4. Good(W!HandleAction(w))
    BY <1>2, <1>3 DEF W!HandleAction
  <1>5. f \in Req => Good(W!HandleAnswer(w, f))
    BY AnswerKeeps
  <1>6. CASE f \in Req
    <2>1. W!OnFrame(w, f) \in {W!React(w), W!HandleAction(w), W!Send(w), u, W!HandleClose(w),
                               W!HandleAnswer(w, f)}
      BY <1>6 DEF W!OnFrame
    <2> HIDE DEF u
    <2> QED
      BY <1>1, <1>2, <1>3, <1>4, <1>5, <1>6, <2>1
  <1>7. CASE f \notin Req
    <2>1. f \in {"message", "action", "ping", "pong", "close"}
      BY <1>7 DEF W!Frames
    <2>2. W!OnFrame(w, f) \in {W!React(w), W!HandleAction(w), W!Send(w), u, W!HandleClose(w)}
      BY <1>7, <2>1 DEF W!OnFrame
    <2> HIDE DEF u
    <2> QED
      BY <1>1, <1>2, <1>3, <1>4, <2>2
  <1> QED
    BY <1>6, <1>7

LEMMA FeedKeeps ==
    ASSUME NEW w, Good(w), NEW fs \in Seq(W!Frames)
    PROVE  Good(W!Feed(w, fs))
  <1> DEFINE first == IF fs = <<>> THEN w ELSE W!OnFrame(w, fs[1])
  <1>1. Len(fs) \in Nat /\ (fs # <<>> => fs[1] \in W!Frames)
        /\ (Len(fs) >= 2 => fs[2] \in W!Frames)
    OBVIOUS
  <1>2. Good(first)
    BY <1>1, OnFrameKeeps
  <1> HIDE DEF first
  <1>3. W!Feed(w, fs) = IF Len(fs) < 2 THEN first ELSE W!OnFrame(first, fs[2])
    BY DEF W!Feed, first
  <1>4. Len(fs) >= 2 => Good(W!OnFrame(first, fs[2]))
    BY <1>1, <1>2, OnFrameKeeps
  <1> QED
    BY <1>1, <1>2, <1>3, <1>4

\* on_tcp_data()
LEMMA OnDataKeeps ==
    ASSUME NEW w, Good(w), w.tcp.st = "Connected", NEW fs \in Seq(W!Frames), NEW head
    PROVE  Good(W!OnData(w, head, fs))
  <1> DEFINE b == [w EXCEPT !.buf = "bad"]
             p == [w EXCEPT !.buf = "part"]
             c == [w EXCEPT !.up = FALSE, !.st = "Connected", !.ping = TRUE]
             g == W!Upgraded(w)
             f == W!Feed(g, fs)
             n == [f EXCEPT !.buf = "none"]
  <1>1. w \in WsClients /\ w.pend = w.due
    BY DEF Good, Held, Loose
  <1>2. ASSUME NEW x, Good(x), NEW z \in {"none", "part", "bad"} PROVE Good([x EXCEPT !.buf = z])
    <2> DEFINE u == [x EXCEPT !.buf = z]
    <2>1. x \in WsClients /\ u \in WsClients
      BY <1>2 DEF Good, Held, Loose, WsClients
    <2>2. /\ u.pend = x.pend /\ u.due = x.due /\ u.st = x.st /\ u.timer = x.timer
          /\ u.ping = x.ping /\ u.up = x.up /\ u.tcp = x.tcp
      BY <2>1 DEF WsClients
    <2> HIDE DEF u
    <2>3. Good(u)
      BY <1>2, <2>1, <2>2 DEF Good, Held, Loose
    <2> QED
      BY <2>3 DEF u
  <1>3. Good(b) /\ Good(p)
    BY <1>2
  <1>4. Good(c)
    <2>1. c \in WsClients
      BY <1>1, NamesAreNames DEF WsClients
    <2>2. /\ c.pend = w.pend /\ c.due = w.due /\ c.st = "Connected" /\ c.timer = w.timer
          /\ c.ping /\ ~c.up /\ c.tcp = w.tcp
      BY <1>1 DEF WsClients
    <2> HIDE DEF c
    <2> QED
      BY <1>1, <2>1, <2>2 DEF Good, Held, Loose
  <1>5. g = W!React(c)
    BY DEF W!Upgraded
  <1>6. W!OnData(w, head, fs) \in {W!EnterError(b), p, n, W!Feed(w, fs), w}
    BY DEF W!OnData
  <1> HIDE DEF b, p, c, g
  <1>7. Good(g)
    BY <1>4, <1>5, TellKeeps DEF Good, Held
  <1>8. Good(f) /\ Good(W!Feed(w, fs))
    BY <1>7, FeedKeeps
  <1> HIDE DEF f
  <1>9. Good(n)
    BY <1>2, <1>8
  <1>10. Good(W!EnterError(b))
    BY <1>3, EnterErrorKeeps DEF Good, Held
  <1> HIDE DEF n
  <1> QED
    BY <1>3, <1>6, <1>8, <1>9, <1>10

\* The timers.
LEMMA PingTickKeeps == ASSUME NEW w, Good(w) PROVE Good(W!PingTick(w))
  <1> DEFINE u == [w EXCEPT !.ping = FALSE]
             v == [u EXCEPT !.st = "Reconnecting", !.miss = 2]
             e == [u EXCEPT !.miss = 2]
             s == [w EXCEPT !.pong = TRUE, !.miss = IF w.pong THEN @ + 1 ELSE 0]
  <1>1. w \in WsClients /\ w.pend = w.due /\ 2 \in 0 .. 2
    BY DEF Good, Held, Loose
  <1>2. u \in WsClients /\ u.pend = u.due
    BY <1>1 DEF WsClients
  <1>3. w.miss \in 0 .. 2 /\ w.pong \in BOOLEAN
    BY <1>1 DEF WsClients
  <1>5. ~(w.pong /\ w.miss + 1 >= 2) => Good(s)
    <2> SUFFICES ASSUME ~(w.pong /\ w.miss + 1 >= 2) PROVE Good(s)
      OBVIOUS
    <2> DEFINE m == IF w.pong THEN w.miss + 1 ELSE 0
    <2>1. m \in 0 .. 2
      BY <1>3
    <2>2. s = [w EXCEPT !.pong = TRUE, !.miss = m]
      BY <1>1 DEF WsClients
    <2> HIDE DEF m, s
    <2>3. s \in WsClients
      BY <1>1, <2>1, <2>2 DEF WsClients
    <2>4. /\ s.pend = w.pend /\ s.due = w.due /\ s.st = w.st /\ s.timer = w.timer
          /\ s.ping = w.ping /\ s.up = w.up /\ s.tcp = w.tcp
      BY <1>1, <2>2 DEF WsClients
    <2> QED
      BY <2>3, <2>4 DEF Good, Held, Loose
  <1>6. /\ w.st # "Connected" => W!PingTick(w) = w
        /\ w.st = "Connected" /\ w.pong /\ w.miss + 1 >= 2 =>
             W!PingTick(w) \in {W!Arm(W!Ends(v, W!TcpClose(v.tcp))), W!EnterError(e)}
        /\ w.st = "Connected" /\ ~(w.pong /\ w.miss + 1 >= 2) => W!PingTick(w) = W!Send(s)
    BY DEF W!PingTick, W!StopPing
  <1> HIDE DEF u
  <1>7. Loose(v) /\ v.st = "Reconnecting" /\ Loose(e)
    <2>1. v \in WsClients /\ v.st = "Reconnecting" /\ v.pend = u.pend /\ v.due = u.due
      BY <1>1, <1>2, NamesAreNames DEF WsClients
    <2>2. e \in WsClients /\ e.pend = u.pend /\ e.due = u.due
      BY <1>1, <1>2 DEF WsClients
    <2> HIDE DEF v, e
    <2> QED
      BY <1>2, <2>1, <2>2 DEF Loose
  <1> HIDE DEF v, e, s
  <1>8. Good(W!Arm(W!Ends(v, W!TcpClose(v.tcp)))) /\ Good(W!EnterError(e))
        /\ (Good(s) => Good(W!Send(s)))
    BY <1>7, WaitKeeps, EnterErrorKeeps, SendKeeps DEF Good, Held
  <1> QED
    BY <1>5, <1>6, <1>8

LEMMA DoReconnectKeeps ==
    ASSUME NEW w, Good(w), NEW how \in T!Hows PROVE Good(W!DoReconnect(w, how))
  <1> DEFINE u == [w EXCEPT !.timer = FALSE, !.pend = {}, !.due = {}]
  <1>1. w \in WsClients
    BY DEF Good, Held, Loose
  <1>2. u \in WsClients /\ u.pend = {} /\ u.due = {}
    BY <1>1 DEF WsClients
  <1>3. W!DoReconnect(w, how) = W!DoConnect(u, how)
    BY DEF W!DoReconnect
  <1> HIDE DEF u
  <1>4. Loose(u)
    BY <1>2 DEF Loose
  <1> QED
    BY <1>3, <1>4, ConnectKeeps

-----------------------------------------------------------------------------

WsClientInv ==
    /\ Good(ws) /\ ws.react = "none" /\ calls \in 0 .. MaxCalls /\ faults \in 0 .. MaxFaults

\* The state with the reaction of the user, and the state an action leaves.
LEMMA WsWith ==
    ASSUME Good(ws), NEW r \in W!Reactions
    PROVE  Good(W!With(r)) /\ W!With(r).tcp = ws.tcp
  <1> DEFINE u == [ws EXCEPT !.react = r]
  <1>1. ws \in WsClients /\ u \in WsClients
    BY DEF Good, Held, Loose, WsClients
  <1>2. /\ u.pend = ws.pend /\ u.due = ws.due /\ u.st = ws.st /\ u.timer = ws.timer
        /\ u.ping = ws.ping /\ u.up = ws.up /\ u.tcp = ws.tcp
    BY <1>1 DEF WsClients
  <1>3. W!With(r) = u
    BY DEF W!With
  <1> HIDE DEF u
  <1> QED
    BY <1>1, <1>2, <1>3 DEF Good, Held, Loose

LEMMA WsBecomes ==
    ASSUME WsClientInv, NEW w, Good(w), W!Becomes(w),
           NEW n \in Nat, NEW fault \in Nat, NEW r, W!Count(n, fault, r)
    PROVE  WsClientInv'
  <1> DEFINE u == [w EXCEPT !.react = "none"]
  <1>1. Loose(w)
    BY DEF Good, Held
  <1>2. At(u, w.st, w.timer, w.ping, w.up, w.tcp)
    BY <1>1, Reacted
  <1>3. ws' = u /\ u.react = "none"
    BY <1>1 DEF W!Becomes, Loose, WsClients
  <1> HIDE DEF u
  <1>4. Good(u)
    BY <1>2 DEF At, Held, Good
  <1>5. calls \in Nat /\ faults \in Nat /\ MaxCalls \in Nat /\ MaxFaults \in Nat
    <2>1. MaxCalls \in Nat /\ MaxFaults \in Nat
      BY SocketsConstants
    <2> QED
      BY <2>1 DEF WsClientInv
  <1>6. calls' \in 0 .. MaxCalls /\ faults' \in 0 .. MaxFaults
    BY <1>5 DEF W!Count
  <1>7. Good(ws')
    BY <1>3, <1>4
  <1> QED
    BY <1>3, <1>6, <1>7 DEF WsClientInv, Good, Held, Loose, WsClients

LEMMA UserKeeps ==
    WsClientInv /\ (W!UserConnects \/ W!UserCloses \/ W!UserReconnects \/ W!UserRequests)
      => WsClientInv'
  <1> SUFFICES ASSUME WsClientInv,
                      W!UserConnects \/ W!UserCloses \/ W!UserReconnects \/ W!UserRequests
               PROVE  WsClientInv'
    OBVIOUS
  <1>1. ASSUME NEW r \in W!Reactions PROVE Good(W!With(r)) /\ Loose(W!With(r))
    BY WsWith DEF WsClientInv, Good, Held
  <1>2. \A how : W!Failure(how) \in Nat
    BY DEF W!Failure
  <1>3. CASE W!UserConnects
    <2>1. PICK how \in T!Hows, r \in W!Reactions :
            W!Becomes(W!Connect(W!With(r), how)) /\ W!Count(1, W!Failure(how), r)
      BY <1>3, WsTcp DEF W!UserConnects
    <2>2. Good(W!Connect(W!With(r), how))
      BY <1>1, ConnectKeeps
    <2> QED
      BY <1>2, <2>1, <2>2, WsBecomes
  <1>4. CASE W!UserCloses
    <2>1. PICK r \in W!Reactions : W!Becomes(W!Close(W!With(r))) /\ W!Count(1, 0, r)
      BY <1>4 DEF W!UserCloses
    <2>2. Good(W!Close(W!With(r)))
      BY <1>1, CallsKeep
    <2> QED
      BY <2>1, <2>2, WsBecomes
  <1>5. CASE W!UserReconnects
    <2>1. PICK r \in W!Reactions : W!Becomes(W!Reconnect(W!With(r))) /\ W!Count(1, 0, r)
      BY <1>5 DEF W!UserReconnects
    <2>2. Good(W!Reconnect(W!With(r)))
      BY <1>1, CallsKeep
    <2> QED
      BY <2>1, <2>2, WsBecomes
  <1>6. CASE W!UserRequests
    <2>1. PICK q \in Req, r \in W!Reactions :
            W!Becomes(W!Request(W!With(r), q)) /\ W!Count(1, 0, r)
      BY <1>6 DEF W!UserRequests
    <2>2. Good(W!Request(W!With(r), q))
      BY <1>1, RequestKeeps
    <2> QED
      BY <2>1, <2>2, WsBecomes
  <1> QED
    BY <1>3, <1>4, <1>5, <1>6

LEMMA TcpNewsKeeps ==
    ASSUME WsClientInv, NEW e \in T!TcpEvents, W!TcpNews(e) PROVE WsClientInv'
  <1>1. PICK r \in W!Reactions :
          /\ W!Becomes(W!After(W!With(r), W!TcpOn(ws.tcp, e)))
          /\ W!Count(0, IF e \in W!TcpFaults THEN 1 ELSE 0, r)
    BY DEF W!TcpNews
  <1>2. Good(W!With(r)) /\ W!With(r).tcp = ws.tcp /\ T!TcpCan(ws.tcp, e)
    BY WsWith, WsTcp DEF WsClientInv, W!TcpNews
  <1>3. Good(W!After(W!With(r), W!TcpOn(ws.tcp, e)))
    BY <1>2, AfterKeeps
  <1>4. (IF e \in W!TcpFaults THEN 1 ELSE 0) \in Nat /\ 0 \in Nat
    OBVIOUS
  <1> QED
    BY <1>1, <1>3, <1>4, WsBecomes

LEMMA DataKeeps ==
    ASSUME WsClientInv, NEW head, NEW fs \in Seq(W!Frames), NEW fault \in Nat,
           W!Data(head, fs, fault)
    PROVE  WsClientInv'
  <1>1. PICK r \in W!Reactions :
          /\ W!Becomes(W!OnData([W!With(r) EXCEPT !.tcp = W!TcpReading(@)], head, fs))
          /\ W!Count(0, fault, r)
    BY DEF W!Data
  <1> DEFINE w == W!With(r)
             t == T!TcpReading(w.tcp)
             u == [w EXCEPT !.tcp = t]
  <1>2. Good(w) /\ Loose(w) /\ w.tcp = ws.tcp
    BY WsWith DEF WsClientInv, Good, Held
  <1>3. ws.tcp.st = "Connected"
    BY DEF W!Data
  <1> HIDE DEF w
  <1>4. w.tcp \in T!TcpRecords
    BY <1>2, WsTcpTyped
  <1>5. t \in T!TcpRecords /\ t.st = w.tcp.st
    BY <1>4 DEF T!TcpReading, T!ResetIdle, T!TcpRecords
  <1>6. u = [w EXCEPT !.tcp = W!TcpReading(@)]
    BY WsTcp
  <1> HIDE DEF t
  <1>7. At(u, w.st, w.timer, w.ping, w.up, t)
    BY <1>2, <1>5, Heard
  <1> HIDE DEF u
  <1>8. Good(u) /\ u.tcp.st = "Connected"
    BY <1>2, <1>3, <1>5, <1>7 DEF At, Held, Good
  <1>9. Good(W!OnData(u, head, fs))
    BY <1>8, OnDataKeeps
  <1> QED
    BY <1>1, <1>6, <1>9, WsBecomes DEF w

LEMMA ServerKeeps ==
    WsClientInv /\ (W!ServerUpgrades \/ W!ServerDelays \/ W!ServerRefuses \/ W!ServerSends)
      => WsClientInv'
  <1> SUFFICES ASSUME WsClientInv,
                      W!ServerUpgrades \/ W!ServerDelays \/ W!ServerRefuses \/ W!ServerSends
               PROVE  WsClientInv'
    OBVIOUS
  <1>1. ASSUME NEW n \in Nat PROVE W!SeqOf(W!Frames, n) \subseteq Seq(W!Frames)
    BY DEF W!SeqOf
  <1>2. \A fs : W!Closing(fs) \in Nat
    BY DEF W!Closing
  <1>3. <<>> \in Seq(W!Frames) /\ 0 \in Nat /\ 1 \in Nat /\ 2 \in Nat
    OBVIOUS
  <1>4. CASE W!ServerUpgrades
    <2>1. PICK fs \in W!SeqOf(W!Frames, 1) : W!Data("ok", fs, W!Closing(fs))
      BY <1>4 DEF W!ServerUpgrades
    <2> QED
      BY <1>1, <1>2, <1>3, <2>1, DataKeeps
  <1>5. CASE W!ServerDelays
    BY <1>3, <1>5, DataKeeps DEF W!ServerDelays
  <1>6. CASE W!ServerRefuses
    BY <1>3, <1>6, DataKeeps DEF W!ServerRefuses
  <1>7. CASE W!ServerSends
    <2>1. PICK fs \in W!SeqOf(W!Frames, 2) : W!Data("none", fs, W!Closing(fs))
      BY <1>7 DEF W!ServerSends
    <2> QED
      BY <1>1, <1>2, <1>3, <2>1, DataKeeps
  <1> QED
    BY <1>4, <1>5, <1>6, <1>7

LEMMA SilenceKeeps ==
    WsClientInv /\ (W!ServerFallsSilent \/ W!DescriptorIsClosed) => WsClientInv'
  <1> SUFFICES ASSUME WsClientInv, W!ServerFallsSilent \/ W!DescriptorIsClosed
               PROVE  WsClientInv'
    OBVIOUS
  <1> DEFINE s == [ws EXCEPT !.silent = TRUE]
             t == [ws.tcp EXCEPT !.gone = TRUE]
             d == [ws EXCEPT !.tcp = t, !.silent = TRUE]
  <1>1. ws \in WsClients /\ ws.pend = ws.due /\ ws.tcp \in T!TcpRecords
    BY WsTcpTyped DEF WsClientInv, Good, Held, Loose
  <1>2. t \in T!TcpRecords /\ t.st = ws.tcp.st
    BY <1>1 DEF T!TcpRecords
  <1>3. d = [ws EXCEPT !.tcp.gone = TRUE, !.silent = TRUE]
    BY <1>1 DEF WsClients
  <1> HIDE DEF t
  <1>4. /\ s \in WsClients /\ s.pend = ws.pend /\ s.due = ws.due /\ s.st = ws.st
        /\ s.timer = ws.timer /\ s.ping = ws.ping /\ s.up = ws.up /\ s.tcp = ws.tcp
    BY <1>1 DEF WsClients
  <1>5. /\ d \in WsClients /\ d.pend = ws.pend /\ d.due = ws.due /\ d.st = ws.st
        /\ d.timer = ws.timer /\ d.ping = ws.ping /\ d.up = ws.up /\ d.tcp = t
    BY <1>1, <1>2 DEF WsClients
  <1> HIDE DEF s, d
  <1>6. Good(s) /\ Good(d)
    BY <1>1, <1>2, <1>4, <1>5 DEF WsClientInv, Good, Held, Loose
  <1>7. \/ W!Becomes(s) /\ W!Count(0, 1, "none")
        \/ W!Becomes(d) /\ W!Count(0, 1, "none")
    BY <1>3 DEF W!ServerFallsSilent, W!DescriptorIsClosed, s
  <1>8. 0 \in Nat /\ 1 \in Nat
    OBVIOUS
  <1> QED
    BY <1>6, <1>7, <1>8, WsBecomes

LEMMA TimersKeep ==
    WsClientInv /\ (W!PingTimer \/ W!ResponseTimer \/ \E how \in W!Hows : W!ReconnectTimer(how))
      => WsClientInv'
  <1> SUFFICES ASSUME WsClientInv,
                      W!PingTimer \/ W!ResponseTimer \/ \E how \in W!Hows : W!ReconnectTimer(how)
               PROVE  WsClientInv'
    OBVIOUS
  <1>1. ASSUME NEW r \in W!Reactions PROVE Good(W!With(r))
    BY WsWith DEF WsClientInv
  <1>2. \A how : W!Failure(how) \in Nat
    BY DEF W!Failure
  <1>3. CASE W!PingTimer
    <2>1. PICK r \in W!Reactions : W!Becomes(W!PingTick(W!With(r))) /\ W!Count(0, 0, r)
      BY <1>3 DEF W!PingTimer
    <2>2. Good(W!PingTick(W!With(r)))
      BY <1>1, PingTickKeeps
    <2> QED
      BY <2>1, <2>2, WsBecomes
  <1>4. CASE W!ResponseTimer
    <2>1. PICK q \in ws.due, r \in W!Reactions :
            W!Becomes(W!ResponseTimeout(W!With(r), q)) /\ W!Count(0, 0, r)
      BY <1>4 DEF W!ResponseTimer
    <2>2. q \in Req
      BY <2>1 DEF WsClientInv, Good, Held, Loose, WsClients
    <2>3. Good(W!ResponseTimeout(W!With(r), q))
      BY <1>1, <2>2, AnswerKeeps
    <2> QED
      BY <2>1, <2>3, WsBecomes
  <1>5. CASE \E how \in W!Hows : W!ReconnectTimer(how)
    <2>1. PICK how \in T!Hows, r \in W!Reactions :
            W!Becomes(W!DoReconnect(W!With(r), how)) /\ W!Count(0, W!Failure(how), r)
      BY <1>5, WsTcp DEF W!ReconnectTimer
    <2>2. Good(W!DoReconnect(W!With(r), how))
      BY <1>1, DoReconnectKeeps
    <2> QED
      BY <1>2, <2>1, <2>2, WsBecomes
  <1> QED
    BY <1>3, <1>4, <1>5

LEMMA WsClientBegins == W!Init => WsClientInv
  <1> SUFFICES ASSUME W!Init PROVE WsClientInv
    OBVIOUS
  <1>1. PICK auto \in BOOLEAN, tls \in BOOLEAN : ws = W!Fresh(auto, tls)
    BY DEF W!Init
  <1> DEFINE t == T!TcpFresh(tls, TRUE, FALSE)
  <1>2. t \in T!TcpRecords
    BY TcpFreshTyped
  <1>3. ws = [ st |-> "Idle", up |-> FALSE, buf |-> "none", ping |-> FALSE, timer |-> FALSE,
               pong |-> FALSE, miss |-> 0, pend |-> {}, due |-> {}, auto |-> auto,
               tcp |-> t, react |-> "none", silent |-> FALSE ]
    BY <1>1, WsTcp DEF W!Fresh
  <1> HIDE DEF t
  <1>4. ws \in WsClients /\ ws.st = "Idle" /\ ws.pend = ws.due /\ ws.react = "none"
    BY <1>2, <1>3 DEF WsClients, WsNames, W!Reactions
  <1>5. calls \in 0 .. MaxCalls /\ faults \in 0 .. MaxFaults
    <2>1. MaxCalls \in Nat /\ MaxFaults \in Nat
      BY SocketsConstants
    <2> QED
      BY <2>1 DEF W!Init
  <1> QED
    BY <1>4, <1>5 DEF WsClientInv, Good, Held, Loose

LEMMA WsClientNextKeeps == WsClientInv /\ [W!Next]_(W!vars) => WsClientInv'
  <1> SUFFICES ASSUME WsClientInv, [W!Next]_(W!vars) PROVE WsClientInv'
    OBVIOUS
  <1>1. CASE UNCHANGED W!vars
    BY <1>1 DEF W!vars, WsClientInv, Good, Held, Loose, WsClients
  <1>2. CASE W!Next
    <2>1. CASE \E e \in W!TcpEvents : W!TcpNews(e)
      BY <2>1, WsTcp, TcpNewsKeeps
    <2> QED
      BY <1>2, <2>1, UserKeeps, ServerKeeps, SilenceKeeps, TimersKeep DEF W!Next
  <1> QED
    BY <1>1, <1>2

LEMMA WsClientPromises == WsClientInv => W!TypeOK /\ W!SaysWhatItIs
  <1> SUFFICES ASSUME WsClientInv PROVE W!TypeOK /\ W!SaysWhatItIs
    OBVIOUS
  <1>1. ws \in WsClients /\ ws.react = "none" /\ calls \in 0 .. MaxCalls
        /\ faults \in 0 .. MaxFaults
    BY DEF WsClientInv, Good, Held, Loose
  <1>2. W!TypeOK
    BY <1>1, WsTcp DEF W!TypeOK, WsClients, WsNames
  <1>3. W!SaysWhatItIs
    BY DEF WsClientInv, Good, Held, Loose, W!SaysWhatItIs
  <1> QED
    BY <1>2, <1>3

-----------------------------------------------------------------------------
(* RouteDispatch: the handler that answers is the one the path asks for.   *)

LEMMA HasLeast ==
    ASSUME NEW A, A \subseteq Nat, A # {}
    PROVE  \E i \in A : \A j \in A : i <= j
  <1>1. PICK x \in A : \A y \in A : ~ (<<y, x>> \in OpToRel(<, Nat))
    BY NatLessThanWellFounded, WFMin
  <1>2. \A y \in A : y \in Nat /\ x \in Nat /\ ~(y < x)
    BY <1>1 DEF OpToRel
  <1> QED
    BY <1>2

LEMMA FirstIsLeast ==
    ASSUME NEW A, A \subseteq Nat
    PROVE  /\ A # {} => R!First(A) # {}
           /\ \A i \in R!First(A) : i \in A /\ \A j \in A : i <= j
  BY HasLeast DEF R!First

-----------------------------------------------------------------------------
(* Patterns and paths.                                                     *)

\* The segments of a path, of which nothing but their order matters here.
Segments(p) == {p[R!Nth(R!Kept(p), k)] : k \in 1 .. Cardinality(R!Kept(p))}

LEMMA SplitTyped == ASSUME NEW p \in Seq(STRING) PROVE R!Split(p) \in Seq(Segments(p))
  <1>1. IsFiniteSet(1 .. Len(p)) /\ R!Kept(p) \subseteq 1 .. Len(p)
    BY FS_Interval DEF R!Kept
  <1>2. Cardinality(R!Kept(p)) \in Nat
    BY <1>1, FS_Subset, FS_CardinalityType
  <1>3. R!Cardinality(R!Kept(p)) = Cardinality(R!Kept(p))
    BY DEF R!Cardinality, Cardinality
  <1> QED
    BY <1>2, <1>3 DEF R!Split, Segments

LEMMA BeginningTyped ==
    ASSUME NEW V, NEW s \in Seq(V), NEW n \in Nat, n <= Len(s)
    PROVE  SubSeq(s, 1, n) \in Seq(V) /\ Len(SubSeq(s, 1, n)) = n
           /\ \A i \in 1 .. n : SubSeq(s, 1, n)[i] = s[i]
  <1>1. 1 \in Int /\ n \in Int /\ \A i \in 1 .. n : s[i] \in V
    OBVIOUS
  <1>2. /\ SubSeq(s, 1, n) \in Seq(V)
        /\ Len(SubSeq(s, 1, n)) = IF 1 <= n THEN n - 1 + 1 ELSE 0
        /\ \A i \in 1 .. n - 1 + 1 : SubSeq(s, 1, n)[i] = s[1 + i - 1]
    BY <1>1, SubSeqProperties
  <1>3. n - 1 + 1 = n /\ (IF 1 <= n THEN n - 1 + 1 ELSE 0) = n
        /\ \A i \in 1 .. n : 1 + i - 1 = i
    OBVIOUS
  <1> QED
    BY <1>2, <1>3, Zenon

LEMMA ComparedTyped ==
    ASSUME NEW V, NEW pat \in Seq(V)
    PROVE  /\ R!Compared(pat) \in Seq(V)
           /\ R!Wild(pat) => Len(R!Compared(pat)) = Len(pat) - 1
           /\ ~R!Wild(pat) => R!Compared(pat) = pat
  <1>1. CASE R!Wild(pat)
    <2>1. Len(pat) \in Nat /\ Len(pat) > 0
      BY <1>1, EmptySeq DEF R!Wild
    <2>2. R!Compared(pat) = SubSeq(pat, 1, Len(pat) - 1)
      BY <1>1 DEF R!Compared, R!Front
    <2>3. SubSeq(pat, 1, Len(pat) - 1) \in Seq(V) /\ Len(SubSeq(pat, 1, Len(pat) - 1)) = Len(pat) - 1
      <3> DEFINE n == Len(pat) - 1
      <3>1. n \in Nat /\ n <= Len(pat)
        BY <2>1
      <3> HIDE DEF n
      <3>2. SubSeq(pat, 1, n) \in Seq(V) /\ Len(SubSeq(pat, 1, n)) = n
        BY <3>1, BeginningTyped
      <3> QED
        BY <3>2 DEF n
    <2> QED
      BY <1>1, <2>2, <2>3
  <1>2. CASE ~R!Wild(pat)
    BY <1>2 DEF R!Compared
  <1> QED
    BY <1>1, <1>2

\* A sequence is another, or begins it, when they agree segment by segment.
LEMMA SameSegments ==
    ASSUME NEW V, NEW f \in Seq(V), NEW U, NEW s \in Seq(U)
    PROVE  /\ f = s <=> Len(f) = Len(s) /\ \A i \in 1 .. Len(f) : f[i] = s[i]
           /\ IsStrictPrefix(f, s) <=> Len(f) < Len(s) /\ \A i \in 1 .. Len(f) : f[i] = s[i]
  <1>1. f = s <=> Len(f) = Len(s) /\ \A i \in 1 .. Len(f) : f[i] = s[i]
    OBVIOUS
  <1>2. SubSeq(f, 1, Len(f)) = f /\ Len(f) \in Nat /\ Len(s) \in Nat
    OBVIOUS
  <1>3. ASSUME Len(f) <= Len(s)
        PROVE  f = SubSeq(s, 1, Len(f)) <=> \A i \in 1 .. Len(f) : f[i] = s[i]
    <2>1. /\ SubSeq(s, 1, Len(f)) \in Seq(U) /\ Len(SubSeq(s, 1, Len(f))) = Len(f)
          /\ \A i \in 1 .. Len(f) : SubSeq(s, 1, Len(f))[i] = s[i]
      BY <1>2, <1>3
    <2> HIDE <1>3
    <2> QED
      BY <2>1
  <1> QED
    BY <1>1, <1>2, <1>3 DEF IsStrictPrefix, IsPrefix

FilledAt(cmp, v, i) == IF cmp[i] \in R!Params THEN v[cmp[i]] ELSE cmp[i]

\* A pattern filled in is a sequence as long as it is.
LEMMA FilledTyped ==
    ASSUME NEW V, NEW cmp \in Seq(V), NEW U, NEW v \in [R!ToSet(cmp) \cap R!Params -> U]
    PROVE  /\ R!Filled(cmp, v) \in Seq(V \cup U) /\ Len(R!Filled(cmp, v)) = Len(cmp)
           /\ \A i \in 1 .. Len(cmp) :
                 R!Filled(cmp, v)[i] = FilledAt(cmp, v, i)
  <1>1. \A i \in 1 .. Len(cmp) :
           FilledAt(cmp, v, i) \in V \cup U
    BY DEF R!ToSet, FilledAt
  <1>2. R!Filled(cmp, v) =
           [i \in 1 .. Len(cmp) |-> FilledAt(cmp, v, i)]
    BY DEF R!Filled, FilledAt
  <1> QED
    BY <1>1, <1>2

Agrees(pattern, v, path) ==
    LET cmp  == R!Compared(R!Split(pattern))
        segs == R!Split(path)
    IN  /\ IF R!Wild(R!Split(pattern)) THEN Len(segs) > Len(cmp) ELSE Len(segs) = Len(cmp)
        /\ \A i \in DOMAIN cmp : FilledAt(cmp, v, i) = segs[i]

\* What a pattern becomes agrees with the path where no parameter stands, and has at
\* each parameter what it was given.
LEMMA BecomesIs ==
    ASSUME NEW pattern \in Seq(STRING), NEW path \in Seq(STRING), NEW U,
           NEW v \in [R!ToSet(R!Compared(R!Split(pattern))) \cap R!Params -> U]
    PROVE  R!Becomes(pattern, v, R!Split(path)) <=> Agrees(pattern, v, path)
  <1> DEFINE pat == R!Split(pattern)
             cmp == R!Compared(pat)
             segs == R!Split(path)
             f == R!Filled(cmp, v)
  <1>1. pat \in Seq(Segments(pattern)) /\ segs \in Seq(Segments(path))
    BY SplitTyped
  <1>2. cmp \in Seq(Segments(pattern))
    BY <1>1, ComparedTyped
  <1>3. /\ f \in Seq(Segments(pattern) \cup U) /\ Len(f) = Len(cmp)
        /\ \A i \in 1 .. Len(cmp) : f[i] = FilledAt(cmp, v, i)
    <2>1. v \in [R!ToSet(cmp) \cap R!Params -> U]
      OBVIOUS
    <2> HIDE DEF cmp
    <2>2. /\ R!Filled(cmp, v) \in Seq(Segments(pattern) \cup U) /\ Len(R!Filled(cmp, v)) = Len(cmp)
          /\ \A i \in 1 .. Len(cmp) :
                R!Filled(cmp, v)[i] = FilledAt(cmp, v, i)
      BY <1>2, <2>1, FilledTyped
    <2> QED
      BY <2>2 DEF f
  <1>4. /\ f = segs <=> Len(f) = Len(segs) /\ \A i \in 1 .. Len(f) : f[i] = segs[i]
        /\ IsStrictPrefix(f, segs) <=> Len(f) < Len(segs) /\ \A i \in 1 .. Len(f) : f[i] = segs[i]
    BY <1>1, <1>3, SameSegments
  <1>5. R!IsStrictPrefix(f, segs) = IsStrictPrefix(f, segs)
    BY DEF R!IsStrictPrefix, IsStrictPrefix, R!IsPrefix, IsPrefix
  <1>6. R!Becomes(pattern, v, segs) <=> IF R!Wild(pat) THEN IsStrictPrefix(f, segs) ELSE f = segs
    BY <1>5 DEF R!Becomes
  <1>7. DOMAIN cmp = 1 .. Len(cmp) /\ Len(cmp) \in Nat /\ Len(segs) \in Nat
    BY <1>1, <1>2
  <1> HIDE DEF f, cmp, segs, pat
  <1>8. R!Becomes(pattern, v, segs) <=>
           /\ IF R!Wild(pat) THEN Len(segs) > Len(cmp) ELSE Len(segs) = Len(cmp)
           /\ \A i \in DOMAIN cmp :
                 FilledAt(cmp, v, i) = segs[i]
    BY <1>3, <1>4, <1>6, <1>7
  <1> QED
    BY <1>8 DEF cmp, segs, pat, Agrees

\* match_route() takes the paths the pattern stands for, and hands out what fills it.
LEMMA MatchIsStanding ==
    ASSUME NEW pattern \in Seq(STRING), NEW path \in Seq(STRING),
           \A k, n \in DOMAIN R!Compared(R!Split(pattern)) :
              /\ R!Compared(R!Split(pattern))[k] = R!Compared(R!Split(pattern))[n]
              /\ R!Compared(R!Split(pattern))[k] \in R!Params
              => k = n
    PROVE  /\ R!MatchRoute(pattern, path) <=> R!StandsFor(pattern, path)
           /\ R!MatchRoute(pattern, path) =>
                 R!Becomes(pattern, R!Captured(pattern, path), R!Split(path))
  <1> DEFINE pat == R!Split(pattern)
             cmp == R!Compared(pat)
             segs == R!Split(path)
             ps == R!ToSet(cmp) \cap R!Params
             got == R!Captured(pattern, path)
             At1(p) == {i \in DOMAIN cmp : cmp[i] = p}
             Fitting == /\ IF R!Wild(pat) THEN Len(segs) > Len(cmp) ELSE Len(segs) = Len(cmp)
                        /\ \A i \in DOMAIN cmp : cmp[i] \in R!Params \/ cmp[i] = segs[i]
  <1>1. pat \in Seq(Segments(pattern)) /\ segs \in Seq(Segments(path))
    BY SplitTyped
  <1>2. cmp \in Seq(Segments(pattern))
    BY <1>1, ComparedTyped
  <1>3. R!MatchRoute(pattern, path) <=> Fitting
    BY DEF R!MatchRoute
  <1>4. R!StandsFor(pattern, path) <=> \E v \in [ps -> R!ToSet(segs)] : R!Becomes(pattern, v, segs)
    BY DEF R!StandsFor
  <1>5. ASSUME NEW v \in [ps -> R!ToSet(segs)], R!Becomes(pattern, v, segs) PROVE Fitting
    <2> HIDE DEF cmp, segs, pat, ps, Fitting
    <2>1. /\ IF R!Wild(pat) THEN Len(segs) > Len(cmp) ELSE Len(segs) = Len(cmp)
          /\ \A i \in DOMAIN cmp : FilledAt(cmp, v, i) = segs[i]
      <3>1. v \in [R!ToSet(R!Compared(R!Split(pattern))) \cap R!Params -> R!ToSet(segs)]
        BY DEF cmp, pat, ps
      <3>2. R!Becomes(pattern, v, R!Split(path))
        BY <1>5 DEF segs
      <3>3. Agrees(pattern, v, path)
        BY <3>1, <3>2, BecomesIs
      <3> QED
        BY <3>3 DEF cmp, segs, pat, Agrees
    <2> QED
      BY <2>1 DEF FilledAt, Fitting
  <1>6. ASSUME Fitting PROVE got \in [ps -> R!ToSet(segs)] /\ R!Becomes(pattern, got, segs)
    <2>1. got = [p \in ps |-> segs[R!Max(At1(p))]]
      BY DEF R!Captured
    <2>2. DOMAIN cmp = 1 .. Len(cmp) /\ Len(cmp) \in Nat /\ DOMAIN segs = 1 .. Len(segs)
          /\ Len(segs) \in Nat
      BY <1>1, <1>2
    <2>3. DOMAIN cmp \subseteq DOMAIN segs
      <3>1. IF R!Wild(pat) THEN Len(segs) > Len(cmp) ELSE Len(segs) = Len(cmp)
        BY <1>6
      <3> HIDE DEF cmp, segs, pat
      <3>2. Len(segs) > Len(cmp) \/ Len(segs) = Len(cmp)
        BY <3>1, Zenon
      <3>3. \A m, n \in Nat : n > m \/ n = m => 1 .. m \subseteq 1 .. n
        OBVIOUS
      <3> QED
        BY <2>2, <3>2, <3>3, Zenon
    <2>4. \A k, n \in DOMAIN cmp : cmp[k] = cmp[n] /\ cmp[k] \in R!Params => k = n
      OBVIOUS
    <2> HIDE DEF cmp, segs, got, pat, At1
    <2>5. ASSUME NEW k \in DOMAIN cmp, cmp[k] \in R!Params
          PROVE  R!Max(At1(cmp[k])) = k
      <3>1. At1(cmp[k]) = {k}
        BY <2>4, <2>5 DEF At1
      <3>2. k \in Nat
        BY <2>2
      <3> QED
        BY <3>1, <3>2 DEF R!Max
    <2>6. \A k \in DOMAIN cmp : cmp[k] \in R!Params => cmp[k] \in ps /\ got[cmp[k]] = segs[k]
      BY <2>1, <2>5 DEF R!ToSet
    <2>7. got \in [ps -> R!ToSet(segs)]
      <3>1. \A p \in ps : \E k \in DOMAIN cmp : cmp[k] = p /\ p \in R!Params
        BY DEF R!ToSet
      <3>2. \A p \in ps : segs[R!Max(At1(p))] \in R!ToSet(segs)
        BY <2>3, <2>5, <3>1 DEF R!ToSet
      <3> QED
        BY <2>1, <3>2
    <2>8. \A i \in DOMAIN cmp : FilledAt(cmp, got, i) = segs[i]
      BY <1>6, <2>6 DEF FilledAt
    <2> QED
      BY <1>6, <2>7, <2>8, BecomesIs DEF cmp, segs, pat, Agrees
  <1> HIDE DEF Fitting, ps, got, segs
  <1> QED
    BY <1>3, <1>4, <1>5, <1>6 DEF got, segs

-----------------------------------------------------------------------------
(* The choice among the routes of a module.                                *)

LEMMA ElementTyped == ASSUME NEW E, NEW s \in Seq(E) PROVE \A i \in DOMAIN s : s[i] \in E
  OBVIOUS

\* The routes that fit are those that may answer.
LEMMA FitsAreAble ==
    ASSUME NEW routes, R!Proper(routes), NEW path \in Seq(STRING), NEW method
    PROVE  /\ \A i \in DOMAIN routes :
                 /\ R!MatchRoute(routes[i].pattern, path) <=> R!StandsFor(routes[i].pattern, path)
                 /\ R!MatchRoute(routes[i].pattern, path) =>
                       R!Becomes(routes[i].pattern, R!Captured(routes[i].pattern, path),
                                 R!Split(path))
           /\ R!Fits(routes, method, path) = R!Able(routes, method, path)
           /\ R!Fits(routes, method, path) \subseteq Nat
  <1>1. \A i \in DOMAIN routes : routes[i].pattern \in Seq(STRING)
    <2>1. routes \in Seq([method : R!Registered, pattern : Seq(STRING)])
      BY DEF R!Proper
    <2>2. \A i \in DOMAIN routes : routes[i] \in [method : R!Registered, pattern : Seq(STRING)]
      BY <2>1, ElementTyped
    <2> QED
      BY <2>2
  <1>2. DOMAIN routes \subseteq Nat
    BY DEF R!Proper
  <1>3. ASSUME NEW i \in DOMAIN routes
        PROVE  /\ R!MatchRoute(routes[i].pattern, path) <=> R!StandsFor(routes[i].pattern, path)
               /\ R!MatchRoute(routes[i].pattern, path) =>
                     R!Becomes(routes[i].pattern, R!Captured(routes[i].pattern, path),
                               R!Split(path))
    <2> DEFINE pattern == routes[i].pattern
    <2>1. \A k, n \in DOMAIN R!Compared(R!Split(pattern)) :
              /\ R!Compared(R!Split(pattern))[k] = R!Compared(R!Split(pattern))[n]
              /\ R!Compared(R!Split(pattern))[k] \in R!Params
              => k = n
      BY DEF R!Proper
    <2>2. pattern \in Seq(STRING)
      BY <1>1
    <2> HIDE DEF pattern
    <2>3. /\ R!MatchRoute(pattern, path) <=> R!StandsFor(pattern, path)
          /\ R!MatchRoute(pattern, path) =>
                R!Becomes(pattern, R!Captured(pattern, path), R!Split(path))
      BY <2>1, <2>2, MatchIsStanding
    <2> QED
      BY <2>3 DEF pattern
  <1> QED
    BY <1>2, <1>3 DEF R!Fits, R!Able

\* dispatch() takes one route, and none of those that fit comes before it.
LEMMA ChosenIsFirst ==
    ASSUME NEW routes, NEW method, NEW path, R!Fits(routes, method, path) \subseteq Nat
    PROVE  /\ R!Fits(routes, method, path) # {} => R!Chosen(routes, method, path) # {}
           /\ \A i \in R!Chosen(routes, method, path) :
                 /\ i \in R!Fits(routes, method, path)
                 /\ \A j \in R!Fits(routes, method, path) \ {i} : R!Before(routes, i, j)
  <1> DEFINE fits == R!Fits(routes, method, path)
             kind(i) == R!Kind(routes[i].pattern)
             Pass(k) == {i \in fits : kind(i) = k}
             rank(i) == R!Rank(routes[i].pattern)
  <1>1. \A i : kind(i) \in {"exact", "parametric", "wildcard"}
    BY DEF R!Kind
  <1>2. \A i : rank(i) = IF kind(i) = "exact" THEN 1 ELSE IF kind(i) = "parametric" THEN 2 ELSE 3
    BY DEF R!Rank
  <1>3. R!Chosen(routes, method, path) =
           IF Pass("exact") # {} THEN R!First(Pass("exact"))
           ELSE IF Pass("parametric") # {} THEN R!First(Pass("parametric"))
           ELSE R!First(Pass("wildcard"))
    BY DEF R!Chosen
  <1>4. \A i, j : R!Before(routes, i, j) <=> rank(i) < rank(j) \/ (rank(i) = rank(j) /\ i < j)
    BY DEF R!Before
  <1> HIDE DEF fits, kind, rank
  <1>5. \A k : Pass(k) \subseteq fits /\ Pass(k) \subseteq Nat
    BY DEF fits
  <1> HIDE DEF Pass
  <1>6. \A k : /\ Pass(k) # {} => R!First(Pass(k)) # {}
               /\ \A i \in R!First(Pass(k)) : i \in Pass(k) /\ \A j \in Pass(k) : i <= j
    BY <1>5, FirstIsLeast
  <1>7. fits # {} => Pass("exact") # {} \/ Pass("parametric") # {} \/ Pass("wildcard") # {}
    BY <1>1 DEF Pass
  <1>8. fits # {} => R!Chosen(routes, method, path) # {}
    BY <1>3, <1>6, <1>7
  <1>9. ASSUME NEW i \in R!Chosen(routes, method, path)
        PROVE  i \in fits /\ \A j \in fits \ {i} : R!Before(routes, i, j)
    <2>1. PICK k \in {"exact", "parametric", "wildcard"} :
             /\ i \in R!First(Pass(k))
             /\ k = "parametric" => Pass("exact") = {}
             /\ k = "wildcard" => Pass("exact") = {} /\ Pass("parametric") = {}
      BY <1>3, <1>9
    <2>2. i \in Pass(k) /\ i \in fits /\ \A j \in Pass(k) : i <= j
      BY <1>5, <1>6, <2>1
    <2>3. ASSUME NEW j \in fits, j # i PROVE R!Before(routes, i, j)
      <3>1. kind(i) = k /\ i \in Nat /\ j \in Nat
        BY <2>2 DEF Pass, fits
      <3>2. CASE kind(j) = k
        <4>1. j \in Pass(k)
          BY <2>3, <3>2 DEF Pass
        <4>2. i < j /\ rank(i) = rank(j)
          BY <1>2, <2>2, <2>3, <3>1, <3>2, <4>1
        <4> QED
          BY <1>4, <4>2
      <3>3. CASE kind(j) # k
        <4>1. j \in Pass(kind(j)) /\ kind(j) \in {"exact", "parametric", "wildcard"}
          BY <1>1, <2>3 DEF Pass
        <4>2. rank(i) < rank(j)
          BY <1>2, <2>1, <3>1, <3>3, <4>1
        <4> QED
          BY <1>4, <4>2
      <3> QED
        BY <3>2, <3>3
    <2> QED
      BY <2>2, <2>3
  <1> QED
    BY <1>8, <1>9 DEF fits

-----------------------------------------------------------------------------
(* The modules in turn.                                                    *)

HasPath(routes, path) ==
    R!IsDocs(path) \/ \E i \in DOMAIN routes : R!StandsFor(routes[i].pattern, path)

\* What an answer says of the routes of the module that gives it.
AnswersFor(routes, method, path, a) ==
    LET able == R!Able(routes, method, path)
        r    == a.route
    IN  /\ a.what = "route" =>
              /\ r \in able /\ \A i \in able \ {r} : R!Before(routes, r, i)
              /\ R!Becomes(routes[r].pattern, a.params, R!Split(path))
        /\ a.what = "405" => able = {}

LEMMA AnswerIs ==
    ASSUME NEW what, NEW route, NEW params
    PROVE  /\ R!Answer(what, route, params).what = what
           /\ R!Answer(what, route, params).route = route
           /\ R!Answer(what, route, params).params = params
           /\ R!None.what = "none"
  BY DEF R!Answer, R!None

LEMMA ExecuteIsRight ==
    ASSUME NEW routes, R!Proper(routes), NEW path \in Seq(STRING), NEW method,
           NEW a \in R!Execute(routes, method, path)
    PROVE  /\ a = R!None <=> ~HasPath(routes, path)
           /\ a # R!None => a.what # "404" /\ AnswersFor(routes, method, path, a)
  <1> DEFINE fits == R!Fits(routes, method, path)
             chosen == R!Chosen(routes, method, path)
  <1>1. /\ \A i \in DOMAIN routes :
              /\ R!MatchRoute(routes[i].pattern, path) <=> R!StandsFor(routes[i].pattern, path)
              /\ R!MatchRoute(routes[i].pattern, path) =>
                    R!Becomes(routes[i].pattern, R!Captured(routes[i].pattern, path), R!Split(path))
        /\ fits = R!Able(routes, method, path) /\ fits \subseteq Nat
    BY FitsAreAble
  <1>2. R!HasRoute(routes, path) <=> \E i \in DOMAIN routes : R!StandsFor(routes[i].pattern, path)
    BY <1>1 DEF R!HasRoute
  <1>3. /\ fits # {} => chosen # {}
        /\ \A i \in chosen : i \in fits /\ \A j \in fits \ {i} : R!Before(routes, i, j)
    BY <1>1, ChosenIsFirst
  <1>4. \A i \in fits : i \in DOMAIN routes /\ routes[i].method = method
                       /\ R!MatchRoute(routes[i].pattern, path)
    BY DEF R!Fits
  <1>5. method \notin R!Registered => fits = {}
    <2>1. routes \in Seq([method : R!Registered, pattern : Seq(STRING)])
      BY DEF R!Proper
    <2>2. \A i \in DOMAIN routes : routes[i] \in [method : R!Registered, pattern : Seq(STRING)]
      BY <2>1, ElementTyped
    <2>3. \A i \in DOMAIN routes : routes[i].method \in R!Registered
      BY <2>2
    <2> QED
      BY <1>4, <2>3
  <1> HIDE DEF fits, chosen
  <1>6. CASE ~HasPath(routes, path)
    <2>1. a = R!None
      BY <1>2, <1>6 DEF R!Execute, HasPath
    <2> QED
      BY <1>6, <2>1
  <1>7. CASE HasPath(routes, path)
    <2>1. \/ a = R!Answer("options", 0, <<>>)
          \/ a = R!Answer("docs", 0, <<>>)
          \/ \E i \in chosen : a = R!Answer("route", i, R!Captured(routes[i].pattern, path))
          \/ a = R!Answer("405", 0, <<>>) /\ (method \notin R!Registered \/ chosen = {})
      BY <1>2, <1>7 DEF R!Execute, HasPath, chosen
    <2>2. CASE a = R!Answer("options", 0, <<>>) \/ a = R!Answer("docs", 0, <<>>)
      <3>1. a.what \in {"options", "docs"} /\ a # R!None
        BY <2>2, AnswerIs
      <3> QED
        BY <1>7, <3>1 DEF AnswersFor
    <2>3. ASSUME NEW i \in chosen, a = R!Answer("route", i, R!Captured(routes[i].pattern, path))
          PROVE  a # R!None /\ a.what # "404" /\ AnswersFor(routes, method, path, a)
      <3>1. a.what = "route" /\ a.route = i /\ a.params = R!Captured(routes[i].pattern, path)
            /\ a # R!None
        BY <2>3, AnswerIs
      <3>2. R!Becomes(routes[i].pattern, R!Captured(routes[i].pattern, path), R!Split(path))
        BY <1>1, <1>3, <1>4
      <3> QED
        BY <1>1, <1>3, <3>1, <3>2 DEF AnswersFor
    <2>4. CASE a = R!Answer("405", 0, <<>>) /\ (method \notin R!Registered \/ chosen = {})
      <3>1. a.what = "405" /\ a # R!None
        BY <2>4, AnswerIs
      <3>2. R!Able(routes, method, path) = {}
        BY <1>1, <1>3, <1>5, <2>4
      <3> QED
        BY <1>7, <3>1, <3>2 DEF AnswersFor
    <2> QED
      BY <1>7, <2>1, <2>2, <2>3, <2>4
  <1> QED
    BY <1>6, <1>7

Count == Len(rq.tables)

\* The modules before the one the request has got to do not have its path; an
\* answer is of the module it stopped at.
RouteInv ==
    /\ rq \in [ tables : Tables, enabled : {rq.enabled}, path : Paths, method : Methods,
                at : Nat, answer : {rq.answer} ]
    /\ rq.enabled \in [DOMAIN rq.tables -> BOOLEAN]
    /\ rq.at \in 1 .. Count + 1 /\ \A m \in 1 .. rq.at - 1 : ~R!Has(m)
    /\ \/ rq.answer = R!None
       \/ rq.answer.what = "404" /\ rq.at = Count + 1
       \/ /\ rq.answer.what # "404" /\ rq.at \in DOMAIN rq.tables /\ R!Has(rq.at)
          /\ AnswersFor(rq.tables[rq.at], rq.method, rq.path, rq.answer)

LEMMA RouteBegins == R!RouteInit => RouteInv
  <1> SUFFICES ASSUME R!RouteInit PROVE RouteInv
    OBVIOUS
  <1>1. PICK tables \in Tables, path \in Paths, method \in Methods :
           \E enabled \in [DOMAIN tables -> BOOLEAN] :
              rq = [ tables |-> tables, enabled |-> enabled, path |-> path, method |-> method,
                     at |-> 1, answer |-> R!None ]
    BY DEF R!RouteInit
  <1>2. PICK enabled \in [DOMAIN tables -> BOOLEAN] :
           rq = [ tables |-> tables, enabled |-> enabled, path |-> path, method |-> method,
                  at |-> 1, answer |-> R!None ]
    BY <1>1
  <1>3. /\ rq.tables = tables /\ rq.enabled = enabled /\ rq.path = path /\ rq.method = method
        /\ rq.at = 1 /\ rq.answer = R!None
    BY <1>2
  <1>4. Len(tables) \in Nat
    BY RouteConstants
  <1> QED
    BY <1>2, <1>3, <1>4 DEF RouteInv, Count

LEMMA NextModuleKeeps == RouteInv /\ R!NextModule => RouteInv'
  <1> SUFFICES ASSUME RouteInv, R!NextModule PROVE RouteInv'
    OBVIOUS
  <1> DEFINE routes == rq.tables[rq.at]
  <1>1. rq.at \in DOMAIN rq.tables /\ rq.answer = R!None /\ R!Proper(routes)
        /\ rq.path \in Seq(STRING) /\ Count \in Nat /\ DOMAIN rq.tables = 1 .. Count
    BY RouteConstants DEF RouteInv, R!NextModule, Count
  <1>2. R!Has(rq.at) <=> rq.enabled[rq.at] /\ HasPath(routes, rq.path)
    BY DEF R!Has, HasPath
  <1> HIDE DEF routes
  <1>3. ASSUME rq.tables' = rq.tables, rq.enabled' = rq.enabled, rq.path' = rq.path
        PROVE  \A m : R!Has(m)' <=> R!Has(m)
    BY <1>3 DEF R!Has
  <1>4. CASE ~R!Has(rq.at) /\ rq' = [rq EXCEPT !.at = rq.at + 1]
    <2>1. /\ rq'.tables = rq.tables /\ rq'.enabled = rq.enabled /\ rq'.path = rq.path
          /\ rq'.method = rq.method /\ rq'.answer = rq.answer /\ rq'.at = rq.at + 1
          /\ rq' \in [ tables : Tables, enabled : {rq'.enabled}, path : Paths, method : Methods,
                       at : Nat, answer : {rq'.answer} ]
      BY <1>4 DEF RouteInv
    <2>2. rq.at + 1 \in 1 .. Count + 1 /\ Count' = Count
      BY <1>1, <2>1 DEF Count
    <2>3. ASSUME NEW m \in 1 .. (rq.at + 1) - 1 PROVE ~R!Has(m)'
      <3>1. m = rq.at \/ m \in 1 .. rq.at - 1
        BY <1>1
      <3>2. ~R!Has(m)
        BY <1>4, <3>1 DEF RouteInv
      <3> QED
        BY <1>3, <2>1, <3>2
    <2> QED
      BY <1>1, <2>1, <2>2, <2>3 DEF RouteInv
  <1>5. ASSUME NEW a \in R!Execute(routes, rq.method, rq.path), a # R!None, R!Has(rq.at),
               rq' = [rq EXCEPT !.answer = a]
        PROVE  RouteInv'
    <2>1. /\ rq'.tables = rq.tables /\ rq'.enabled = rq.enabled /\ rq'.path = rq.path
          /\ rq'.method = rq.method /\ rq'.answer = a /\ rq'.at = rq.at
          /\ rq' \in [ tables : Tables, enabled : {rq'.enabled}, path : Paths, method : Methods,
                       at : Nat, answer : {rq'.answer} ]
      BY <1>5 DEF RouteInv
    <2>2. a.what # "404" /\ AnswersFor(routes, rq.method, rq.path, a)
      BY <1>1, <1>5, ExecuteIsRight
    <2>3. \A m : R!Has(m)' <=> R!Has(m)
      BY <1>3, <2>1
    <2> QED
      BY <1>1, <1>5, <2>1, <2>2, <2>3 DEF RouteInv, Count, routes
  <1>6. CASE rq.enabled[rq.at]
    <2>1. PICK a \in R!Execute(routes, rq.method, rq.path) :
             rq' = [rq EXCEPT !.answer = a, !.at = IF a = R!None THEN rq.at + 1 ELSE rq.at]
      BY <1>6 DEF R!NextModule, routes
    <2>2. a = R!None <=> ~R!Has(rq.at)
      BY <1>1, <1>2, <1>6, ExecuteIsRight
    <2>3. CASE a = R!None
      <3>1. rq' = [rq EXCEPT !.at = rq.at + 1]
        BY <1>1, <2>1, <2>3 DEF RouteInv
      <3> QED
        BY <1>4, <2>2, <2>3, <3>1
    <2>4. CASE a # R!None
      <3>1. rq' = [rq EXCEPT !.answer = a]
        BY <2>1, <2>4 DEF RouteInv
      <3> QED
        BY <1>5, <2>2, <2>4, <3>1
    <2> QED
      BY <2>3, <2>4
  <1>7. CASE ~rq.enabled[rq.at]
    <2>1. rq' = [rq EXCEPT !.at = rq.at + 1]
      BY <1>7 DEF R!NextModule
    <2> QED
      BY <1>2, <1>4, <1>7, <2>1
  <1> QED
    BY <1>6, <1>7

LEMMA RouteNextKeeps == RouteInv /\ [R!RouteNext]_rq => RouteInv'
  <1> SUFFICES ASSUME RouteInv, [R!RouteNext]_rq PROVE RouteInv'
    OBVIOUS
  <1>1. CASE R!NextModule
    BY <1>1, NextModuleKeeps
  <1>2. CASE R!NotFound
    <2>1. rq.at = Count + 1
      BY <1>2, RouteConstants DEF R!NotFound, RouteInv, Count
    <2>2. /\ rq'.tables = rq.tables /\ rq'.enabled = rq.enabled /\ rq'.path = rq.path
          /\ rq'.method = rq.method /\ rq'.at = rq.at
          /\ rq'.answer = R!Answer("404", 0, <<>>)
          /\ rq' \in [ tables : Tables, enabled : {rq'.enabled}, path : Paths, method : Methods,
                       at : Nat, answer : {rq'.answer} ]
      BY <1>2 DEF R!NotFound, RouteInv
    <2>3. rq'.answer.what = "404"
      BY <2>2, AnswerIs
    <2>4. \A m : R!Has(m)' <=> R!Has(m)
      BY <2>2 DEF R!Has
    <2> QED
      BY <2>1, <2>2, <2>3, <2>4 DEF RouteInv, Count
  <1>3. CASE UNCHANGED rq
    BY <1>3 DEF RouteInv, Count, R!Has, AnswersFor
  <1> QED
    BY <1>1, <1>2, <1>3 DEF R!RouteNext

LEMMA RoutePromises == RouteInv => R!RightRouteAnswers
  <1> SUFFICES ASSUME RouteInv PROVE R!RightRouteAnswers
    OBVIOUS
  <1>1. CASE rq.answer = R!None
    BY <1>1, AnswerIs DEF R!RightRouteAnswers
  <1>2. CASE rq.answer # R!None /\ rq.answer.what = "404"
    <2>1. \A m \in DOMAIN rq.tables : ~R!Has(m)
      <3>1. DOMAIN rq.tables = 1 .. Count /\ Count \in Nat
        BY RouteConstants DEF RouteInv, Count
      <3>2. rq.at = Count + 1
        BY <1>2 DEF RouteInv
      <3> QED
        BY <3>1, <3>2 DEF RouteInv
    <2> QED
      BY <1>2, <2>1 DEF R!RightRouteAnswers
  <1>3. CASE rq.answer # R!None /\ rq.answer.what # "404"
    <2>1. /\ R!Has(rq.at) /\ \A m \in 1 .. rq.at - 1 : ~R!Has(m)
          /\ AnswersFor(rq.tables[rq.at], rq.method, rq.path, rq.answer)
      BY <1>3 DEF RouteInv
    <2> QED
      BY <1>3, <2>1 DEF R!RightRouteAnswers, AnswersFor
  <1> QED
    BY <1>1, <1>2, <1>3

-----------------------------------------------------------------------------
(* The parts side by side.                                                 *)

\* The invariant of each part holds whenever the others do as they please.
THEOREM PartsHold ==
    SocketsSpec => [](/\ WsClientInv /\ HttpInv /\ ProxyInv /\ SmtpInv
                      /\ CurlInv /\ LoopInv /\ WsConnectionInv /\ RouteInv)
  <1>1. SmtpInv /\ [M!SmtpNext]_(M!smVars) => SmtpInv'
    BY SmtpNextKeeps
  <1>2. M!SmtpInit => SmtpInv
    BY SmtpBegins
  <1>3. CurlInv /\ [C!CurlNext]_(C!ccVars) => CurlInv'
    BY CurlNextKeeps
  <1>4. C!CurlInit => CurlInv
    BY CurlBegins
  <1>5. W!Spec => []WsClientInv
    BY WsClientBegins, WsClientNextKeeps, PTL DEF W!Spec
  <1>6. H!HttpClientSpec => []HttpInv
    BY HttpBegins, HttpNextKeeps, PTL DEF H!HttpClientSpec
  <1>7. X!HttpProxySpec => []ProxyInv
    BY ProxyBegins, ProxyNextKeeps, PTL DEF X!HttpProxySpec
  <1>8. M!SmtpSpec => []SmtpInv
    BY <1>1, <1>2, PTL DEF M!SmtpSpec
  <1>9. C!CurlSpec => []CurlInv
    BY <1>3, <1>4, PTL DEF C!CurlSpec
  <1>10. S!WsConnectionSpec => []WsConnectionInv
    BY WsConnectionBegins, WsConnectionNextKeeps, PTL DEF S!WsConnectionSpec
  <1>11. R!RouteSpec => []RouteInv
    BY RouteBegins, RouteNextKeeps, PTL DEF R!RouteSpec
  <1> QED
    BY <1>5, <1>6, <1>7, <1>8, <1>9, <1>10, <1>11, LoopInvariant, PTL DEF SocketsSpec

\* The state of every part keeps its type: no timer, registration or buffer of a
\* value its code cannot have.
THEOREM TypesHold == SocketsSpec => []TypeOK
  <1>1. /\ WsClientInv /\ HttpInv /\ ProxyInv /\ SmtpInv /\ CurlInv /\ LoopInv /\ WsConnectionInv
        => TypeOK
    BY WsClientPromises, HttpPromises, ProxyPromises, SmtpPromises, CurlPromises,
       WsConnectionPromises DEF LoopInv, TypeOK
  <1> QED
    BY PartsHold, <1>1, PTL

\* Nobody is told twice of a request (HttpClient::perform and its timers); a forward is
\* answered or fails once, and is said to have failed to connect only when nothing has
\* reached the upstream (HttpProxy, its reasons); on_done means the server has accepted
\* the message (SmtpClient::advance, send_next_message).
THEOREM OutcomesAreTrueHolds == SocketsSpec => []OutcomesAreTrue
  <1>1. HttpInv /\ ProxyInv /\ SmtpInv => OutcomesAreTrue
    BY HttpPromises, ProxyPromises, SmtpPromises DEF OutcomesAreTrue
  <1> QED
    BY PartsHold, <1>1, PTL

\* A WebSocket client that says it is connected is, and one that reconnects has the
\* timer (WsClient); libcurl is called back whenever it asked to be, and each socket it
\* waits for is watched (CurlClient's socket and timer callbacks); a peer that is gone
\* is noticed in time, and what it is sent goes out whole and in order (WsConnection's
\* drain and keep-alive).
THEOREM ConnectionsHoldAlways == SocketsSpec => []ConnectionsHold
  <1>1. WsClientInv /\ CurlInv /\ WsConnectionInv => ConnectionsHold
    BY WsClientPromises, CurlPromises, WsConnectionPromises DEF ConnectionsHold
  <1> QED
    BY PartsHold, <1>1, PTL

\* Of a client that was destroyed nobody hears any more (~HttpClient, its timers and
\* sockets), whatever was under way.
THEOREM QuietOnceGoneHolds == SocketsSpec => H!QuietOnceGone
  <1>1. HttpInv /\ [H!HttpClientNext]_(H!hcVars) => (client = "gone" => UNCHANGED told)
    BY GoneIsQuiet
  <1>2. HttpInv /\ [H!HttpClientNext]_(H!hcVars) => [client = "gone" => UNCHANGED told]_(H!hcVars)
    BY <1>1
  <1> QED
    BY PartsHold, <1>2, PTL DEF SocketsSpec, H!HttpClientSpec, H!QuietOnceGone

\* The handler that answers is of the first module that has the path, its route becomes
\* the path when the parameters it is given are filled in, and none of the method was
\* passed over that comes before it (ModuleManager::execute, RouteManager::dispatch).
THEOREM RightRouteAnswersHolds == SocketsSpec => []RightRouteAnswers
  <1>1. RouteInv => RightRouteAnswers
    BY RoutePromises DEF RightRouteAnswers
  <1> QED
    BY PartsHold, <1>1, PTL
=============================================================================

------------------------ MODULE HttpConnectionProofs ------------------------
(***************************************************************************)
(* Proofs about HttpConnection, for any number of requests and any marks.  *)
(***************************************************************************)
EXTENDS HttpConnection, TLAPS, SequenceTheorems

USE DEF Request, Kinds

-----------------------------------------------------------------------------
(* Types.                                                                  *)

OutputType ==
    /\ out \in Seq(Part) /\ gone \in 0..Len(out) /\ tail \in Nat /\ throttled \in BOOLEAN

LEMMA InitType == ASSUME ConstantsAssumption, Init PROVE TypeOK
  <1>1. out \in Seq(Part) /\ gone \in 0..Len(out)
    BY DEF Init
  <1>2. tail \in Nat /\ got \in 0..sent /\ parsed \in 0..got BY DEF Init
  <1>3. kind \in [Request -> Kinds] /\ sent \in 0..2 * MaxRequests /\ deferred \in 0..MaxRequests
        /\ file \in 0..MaxRequests
    BY DEF Init, ConstantsAssumption
  <1> QED BY <1>1, <1>2, <1>3 DEF Init, TypeOK

\* What is put out are parts.
LEMMA AnswerIsPart ==
  ASSUME NEW r \in Request, NEW c \in BOOLEAN PROVE Answer(r, c) \in Part
  BY DEF Answer, Part

LEMMA BodyIsPart ==
  ASSUME NEW r \in Request, NEW w \in {"body", "short"} PROVE BodyOf(r, w) \in Part
  BY DEF BodyOf, Part

LEMMA AppendType ==
  ASSUME NEW S, NEW s \in Seq(S), NEW x \in S
  PROVE  /\ Append(s, x) \in Seq(S) /\ Len(Append(s, x)) = Len(s) + 1
         /\ Append(s, x)[Len(s) + 1] = x
         /\ \A i \in 1..Len(s) : Append(s, x)[i] = s[i]
  OBVIOUS

LEMMA WritesType ==
  ASSUME ConstantsAssumption, TypeOK, NEW p \in Part, Writes(p) PROVE OutputType'
  <1>1. CASE Buffers(p)
    <2>1. out' \in Seq(Part) /\ Len(out') = Len(out) + 1
      BY <1>1, AppendType DEF TypeOK, Buffers
    <2>2. tail' \in Nat
      BY <1>1 DEF TypeOK, Buffers, ConstantsAssumption
    <2>3. throttled' \in BOOLEAN
      BY <1>1 DEF TypeOK, Buffers
    <2> QED BY <1>1, <2>1, <2>2, <2>3 DEF TypeOK, Buffers, OutputType
  <1>2. CASE GoesOut(p)
    <2>1. out' \in Seq(Part) /\ Len(out') = Len(out) + 1
      BY <1>2, AppendType DEF TypeOK, GoesOut
    <2> QED BY <1>2, <2>1 DEF TypeOK, GoesOut, OutputType
  <1> QED BY <1>1, <1>2 DEF Writes

LEMMA FileEndsType ==
  ASSUME NEW r \in Request, NEW before \in Seq(Part), FileEnds(r, before)
  PROVE  out' \in Seq(Part) /\ gone' \in 0..Len(out') /\ file' = 0
  <1>1. PICK what \in {"body", "short"} : out' = Append(before, BodyOf(r, what))
                                          /\ gone' = Len(out') /\ file' = 0
    BY DEF FileEnds
  <1> QED BY <1>1, AppendType, BodyIsPart

LEMMA StreamsType ==
  ASSUME ConstantsAssumption, TypeOK, NEW r \in Request, NEW c \in BOOLEAN, Streams(r, c)
  PROVE  OutputType' /\ file' \in 0..MaxRequests
  <1> DEFINE head == [req |-> r, what |-> "head", close |-> c]
  <1>1. head \in Part BY DEF Part
  <1>2. CASE Writes(head) /\ file' = r
    BY <1>1, <1>2, WritesType DEF ConstantsAssumption
  <1>3. CASE FileEnds(r, Append(out, head)) /\ UNCHANGED <<tail, throttled>>
    <2>1. Append(out, head) \in Seq(Part) BY <1>1, AppendType DEF TypeOK
    <2> HIDE DEF head
    <2>2. out' \in Seq(Part) /\ gone' \in 0..Len(out') /\ file' = 0 BY <2>1, <1>3, FileEndsType
    <2> QED BY <1>3, <2>2 DEF OutputType, TypeOK, ConstantsAssumption
  <1> QED BY <1>2, <1>3 DEF Streams

LEMMA AfterResponseType ==
  ASSUME TypeOK, AfterResponse
  PROVE  closeAfter' \in BOOLEAN /\ closed' \in BOOLEAN /\ watched' \in BOOLEAN
         /\ mask' \subseteq {"IN", "RDHUP", "OUT"}
  BY DEF TypeOK, AfterResponse, Closes, Stays, Wanted

\* Each action keeps the types.
LEMMA TypeStep == ASSUME ConstantsAssumption, TypeOK, [Next]_vars PROVE TypeOK'
  <1> USE DEF TypeOK, client, input, output, flags
  <1>1. CASE ClientSends BY <1>1 DEF ClientSends, ConstantsAssumption
  <1>2. CASE ClientLeaves BY <1>2 DEF ClientLeaves
  <1>3. ASSUME NEW evs \in SUBSET {"IN", "OUT"}, Collect(evs) PROVE TypeOK'
    BY <1>3 DEF Collect
  <1>4. CASE Discard BY <1>4 DEF Discard
  <1>5. CASE DeliversAll
    <2>1. closeAfter' \in BOOLEAN /\ closed' \in BOOLEAN /\ watched' \in BOOLEAN
          /\ mask' \subseteq {"IN", "RDHUP", "OUT"}
      BY <1>5, AfterResponseType DEF DeliversAll, Delivers, Drained
    <2>2. out' \in Seq(Part) /\ gone' \in 0..Len(out') /\ file' \in 0..MaxRequests
      <3>1. CASE file = 0 /\ gone' = Len(out) /\ UNCHANGED <<out, file>>
        BY <3>1
      <3>2. CASE file # 0 /\ FileEnds(file, out)
        <4>1. out' \in Seq(Part) /\ gone' \in 0..Len(out') /\ file' = 0
          BY <3>2, FileEndsType
        <4> QED BY <4>1, ConstantsAssumption DEF ConstantsAssumption
      <3> QED BY <1>5, <3>1, <3>2 DEF DeliversAll, Delivers, Drained
    <2>3. tail' \in Nat /\ throttled' \in BOOLEAN
      BY <1>5 DEF DeliversAll, Delivers, Drained
    <2> QED BY <1>5, <2>1, <2>2, <2>3 DEF DeliversAll, Delivers
  <1>6. CASE DeliversPart
    <2>1. CASE Delivers(DrainedInPart)
      BY <2>1 DEF Delivers, DrainedInPart
    <2>2. CASE Delivers(DrainFails)
      <3>1. out' \in Seq(Part) /\ Len(out') = gone
        BY <2>2 DEF Delivers, DrainFails
      <3>2. gone' \in 0..Len(out') /\ tail' \in Nat /\ file' \in 0..MaxRequests
        BY <2>2, <3>1, ConstantsAssumption DEF Delivers, DrainFails, ConstantsAssumption
      <3> QED BY <2>2, <3>1, <3>2 DEF Delivers, DrainFails, Closes
    <2> QED BY <1>6, <2>1, <2>2 DEF DeliversPart
  <1>7. CASE DeliversNothing BY <1>7 DEF DeliversNothing, Delivers
  <1>8. CASE Serve BY ZenonT(60), <1>8 DEF Serve, Closes, Stays
  <1>9. CASE ParseHead BY <1>9 DEF ParseHead
  <1>10. CASE Reads BY <1>10 DEF Reads
  <1>11. CASE ReadsEof BY <1>11 DEF ReadsEof, Closes
  <1>12. CASE Settle BY ZenonT(60), <1>12 DEF Settle, SettleOpen, Closes, Stays, Wanted
  <1>13. ASSUME NEW r \in Request, Dispatch(r) PROVE TypeOK'
    <2>1. OutputType' /\ file' \in 0..MaxRequests
      <3>1. CASE HandlerAnswers(r)
        <4>1. Announced(r) \/ Ending(r) \in BOOLEAN BY DEF Announced, Ending
        <4> QED BY <1>13, <3>1, <4>1, WritesType, AnswerIsPart
              DEF HandlerAnswers, WriteFails, OutputType
      <3>2. CASE HandlerSends(r)
        <4>1. Announced(r) \in BOOLEAN BY DEF Announced
        <4> QED BY <1>13, <3>2, <4>1, WritesType, StreamsType, AnswerIsPart
              DEF HandlerSends, WriteFails, OutputType
      <3>3. CASE HandlerDefers(r) \/ HandlerTakes(r)
        BY <3>3 DEF HandlerDefers, HandlerTakes, OutputType
      <3> QED BY <1>13, <3>1, <3>2, <3>3 DEF Dispatch
    <2>2. deferred' \in 0..MaxRequests /\ awaiting' \in BOOLEAN
          /\ closed' \in BOOLEAN /\ watched' \in BOOLEAN
      <3> USE ConstantsAssumption DEF ConstantsAssumption, WriteFails, Stays, Closes
      <3>1. CASE HandlerAnswers(r) BY <3>1 DEF HandlerAnswers
      <3>2. CASE HandlerSends(r) BY <3>2 DEF HandlerSends
      <3>3. CASE HandlerDefers(r) BY <3>3 DEF HandlerDefers
      <3>4. CASE HandlerTakes(r) BY <3>4 DEF HandlerTakes
      <3> QED BY <1>13, <3>1, <3>2, <3>3, <3>4 DEF Dispatch
    <2>3. closeAfter' \in BOOLEAN /\ stopReading' \in BOOLEAN
      BY <1>13 DEF Dispatch, Ends, Ending
    <2>4. parsed' \in 0..got BY <1>13 DEF Dispatch, Dispatching
    <2> QED BY <1>13, <2>1, <2>2, <2>3, <2>4 DEF Dispatch, OutputType
  <1>14. ASSUME NEW r \in Request, BadRequest(r) PROVE TypeOK'
    <2>1. OutputType' BY <1>14, WritesType, AnswerIsPart DEF BadRequest, WriteFails, OutputType
    <2>2. closed' \in BOOLEAN /\ watched' \in BOOLEAN /\ closeAfter' \in BOOLEAN
          /\ stopReading' \in BOOLEAN
      BY <1>14 DEF BadRequest, WriteFails, Closes, Stays
    <2>3. parsed' \in 0..got BY <1>14 DEF BadRequest
    <2> QED BY <1>14, <2>1, <2>2, <2>3 DEF BadRequest, OutputType
  <1>15. CASE LateAnswer
    <2>1. deferred \in Request /\ LateAnnounced \in BOOLEAN
      BY <1>15, ConstantsAssumption DEF LateAnswer, LateAnnounced, ConstantsAssumption
    <2>2. OutputType' /\ file' \in 0..MaxRequests
      BY <1>15, <2>1, WritesType, StreamsType, AnswerIsPart DEF LateAnswer, WriteFails, OutputType
    <2>3. closeAfter' \in BOOLEAN /\ closed' \in BOOLEAN /\ watched' \in BOOLEAN
          /\ mask' \subseteq {"IN", "RDHUP", "OUT"}
      BY <1>15, AfterResponseType DEF LateAnswer, WriteFails, Closes
    <2>4. deferred' \in 0..MaxRequests /\ awaiting' \in BOOLEAN
      <3>1. deferred' = 0 /\ (awaiting' = awaiting \/ awaiting' = FALSE)
        BY <1>15, Zenon DEF LateAnswer
      <3>2. awaiting' \in BOOLEAN BY <3>1, Zenon
      <3> QED BY <3>1, <3>2, ConstantsAssumption DEF ConstantsAssumption
    <2>5. UNCHANGED <<client, input, stopReading, draining, at, events>>
      BY <1>15 DEF LateAnswer
    <2> QED BY <2>2, <2>3, <2>4, <2>5 DEF OutputType
  <1>16. CASE StopKeepAlive BY <1>16 DEF StopKeepAlive, Closes, Stays
  <1>17. CASE UNCHANGED vars BY <1>17 DEF vars
  <1> QED
    BY <1>1, <1>2, <1>3, <1>4, <1>5, <1>6, <1>7, <1>8, <1>9, <1>10, <1>11, <1>12, <1>13, <1>14,
       <1>15, <1>16, <1>17 DEF Next

\* Every reachable state of the connection has the types of the code.
THEOREM TypeCorrect == Spec => []TypeOK
  <1>1. Init => TypeOK BY InitType, ConstantsAssumption
  <1>2. TypeOK /\ [Next]_vars => TypeOK' BY TypeStep, ConstantsAssumption
  <1> QED BY <1>1, <1>2, PTL DEF Spec

-----------------------------------------------------------------------------
(* The inductive invariant.                                                *)

\* The conjuncts of the properties, of any stream.
InOrder(s) ==
    \A i \in 1..Len(s) : IsHead(s[i]) => s[i].req = IF i = 1 THEN 1 ELSE s[i - 1].req + 1

Linked(s) ==
    \A i \in 1..Len(s) :
        ~IsHead(s[i]) => i > 1 /\ s[i - 1].what = "head" /\ s[i - 1].req = s[i].req

Paired(s) == \A i \in 1..Len(s) - 1 : s[i].what = "head" => ~IsHead(s[i + 1])

Finished(s) == Paired(s) /\ (s = <<>> \/ s[Len(s)].what # "head")

Says(s) == \E i \in 1..Len(s) : s[i].close

EndsAtClose(s) == \A i, j \in 1..Len(s) : i < j /\ IsHead(s[j]) => ~s[i].close

Last(s) == IF s = <<>> THEN 0 ELSE s[Len(s)].req

\* One answer is owed at a time: the last one, behind a buffer that had room.
Owing ==
    ~closed =>
        /\ awaiting <=> deferred # 0
        /\ deferred # 0 => deferred = parsed \div 2 /\ file = 0 /\ tail <= HighWater

\* Who announces the end has stopped reading.
Parting ==
    ~closed =>
        /\ closeAfter <=> stopReading
        /\ Owed /\ draining => stopReading
        /\ Says(Stream) => stopReading /\ ~awaiting

Streaming ==
    /\ InOrder(Stream) /\ Linked(Stream) /\ EndsAtClose(Stream)
    /\ ~closed => Finished(Stream) /\ Begun = Last(Stream)

Tails == tail <= HighWater + MaxTail /\ (~throttled => tail <= HighWater)

\* NeverDeaf of every place but on_readable(), which settles it at its end.
Masks ==
    at # "feed" /\ ~closed =>
        /\ Pending \/ Resumable => "OUT" \in mask
        /\ ~Stopped => mask \cap {"IN", "OUT"} # {}
        /\ ~stopReading => "RDHUP" \in mask
        /\ "IN" \in mask /\ ~draining => ~Stopped

\* An event to read is of a connection that reads, or that the peer leaves.
Events ==
    /\ at = "event" => events \subseteq {"IN"}
    /\ at \in {"batch", "event"} /\ "IN" \in events /\ peer = "open" /\ ~draining /\ ~closed =>
        ~Stopped

Inv ==
    /\ TypeOK /\ (watched <=> ~closed)
    /\ Owing /\ Parting /\ Streaming /\ EndAnnounced /\ Tails /\ Masks /\ Events

-----------------------------------------------------------------------------
(* Streams.                                                                *)

\* Sequences that differ in no more than how a body ended.
Alike(s, t) ==
    /\ Len(t) = Len(s)
    /\ \A i \in 1..Len(s) : t[i].req = s[i].req /\ t[i].close = s[i].close
                           /\ (IsHead(t[i]) <=> IsHead(s[i]))
                           /\ (t[i].what = "head" <=> s[i].what = "head")

LEMMA AlikeHolds ==
  ASSUME NEW s \in Seq(Part), NEW t \in Seq(Part), Alike(s, t)
  PROVE  /\ InOrder(s) => InOrder(t)
         /\ Linked(s) => Linked(t)
         /\ EndsAtClose(s) => EndsAtClose(t)
         /\ Finished(s) => Finished(t)
         /\ Says(t) <=> Says(s)
         /\ Last(t) = Last(s)
  <1>0. Len(s) \in Nat /\ Len(t) = Len(s) BY DEF Alike
  <1>1. InOrder(s) => InOrder(t) BY <1>0 DEF Alike, InOrder
  <1>2. Linked(s) => Linked(t) BY <1>0 DEF Alike, Linked
  <1>3. EndsAtClose(s) => EndsAtClose(t) BY <1>0 DEF Alike, EndsAtClose
  <1>4. s = <<>> <=> t = <<>> BY <1>0
  <1>5. s # <<>> => Len(s) \in 1..Len(s) BY <1>0, <1>4
  <1>6. Paired(s) => Paired(t) BY <1>0 DEF Alike, Paired
  <1>7. Finished(s) => Finished(t) BY <1>0, <1>4, <1>5, <1>6 DEF Alike, Finished
  <1>8. Says(t) <=> Says(s) BY <1>0 DEF Alike, Says
  <1>9. Last(t) = Last(s) BY <1>0, <1>4, <1>5 DEF Alike, Last
  <1> QED BY <1>1, <1>2, <1>3, <1>7, <1>8, <1>9

\* A prefix keeps what the whole has.
LEMMA PrefixHolds ==
  ASSUME NEW s \in Seq(Part), NEW n \in 0..Len(s)
  PROVE  /\ InOrder(s) => InOrder(SubSeq(s, 1, n))
         /\ Linked(s) => Linked(SubSeq(s, 1, n))
         /\ EndsAtClose(s) => EndsAtClose(SubSeq(s, 1, n))
  <1> DEFINE t == SubSeq(s, 1, n)
  <1>1. Len(t) = n /\ n \in Nat /\ n <= Len(s) /\ Len(s) \in Nat OBVIOUS
  <1>2. \A i \in 1..n : t[i] = s[i] BY <1>1
  <1> HIDE DEF t
  <1>3. InOrder(s) => InOrder(t) BY <1>1, <1>2 DEF InOrder
  <1>4. Linked(s) => Linked(t) BY <1>1, <1>2 DEF Linked
  <1>5. EndsAtClose(s) => EndsAtClose(t) BY <1>1, <1>2 DEF EndsAtClose
  <1> QED BY <1>3, <1>4, <1>5 DEF t

\* The answer to the next request, or its head, is put behind a stream that
\* does not announce its end.
LEMMA HeadAdded ==
  ASSUME NEW s \in Seq(Part), NEW p \in Part, IsHead(p), p.req = Last(s) + 1,
         InOrder(s), Linked(s), EndsAtClose(s), Finished(s), ~Says(s)
  PROVE  LET t == Append(s, p)
         IN  /\ InOrder(t) /\ Linked(t) /\ EndsAtClose(t) /\ Paired(t)
             /\ t \in Seq(Part) /\ t # <<>> /\ t[Len(t)] = p
             /\ ~p.close => ~Says(t)
             /\ p.close => Says(t)
  <1> DEFINE t == Append(s, p)
  <1>1. /\ t \in Seq(Part) /\ Len(t) = Len(s) + 1 /\ t[Len(s) + 1] = p /\ Len(s) \in Nat
        /\ \A i \in 1..Len(s) : t[i] = s[i]
    BY AppendType
  <1>2. p.req = IF Len(s) = 0 THEN 1 ELSE s[Len(s)].req + 1
    BY DEF Last
  <1> HIDE DEF t
  <1>3. InOrder(t)
    <2> SUFFICES ASSUME NEW i \in 1..Len(t), IsHead(t[i])
                 PROVE  t[i].req = IF i = 1 THEN 1 ELSE t[i - 1].req + 1
      BY DEF InOrder
    <2>1. CASE i = Len(s) + 1 BY <1>1, <1>2, <2>1
    <2>2. CASE i \in 1..Len(s) BY <1>1, <2>2 DEF InOrder
    <2> QED BY <1>1, <2>1, <2>2
  <1>4. Linked(t)
    <2> SUFFICES ASSUME NEW i \in 1..Len(t), ~IsHead(t[i])
                 PROVE  i > 1 /\ t[i - 1].what = "head" /\ t[i - 1].req = t[i].req
      BY DEF Linked
    <2>1. i \in 1..Len(s) BY <1>1
    <2> QED BY <1>1, <2>1 DEF Linked
  <1>5. EndsAtClose(t) BY <1>1 DEF EndsAtClose, Says
  <1>6. Paired(t)
    <2> SUFFICES ASSUME NEW i \in 1..Len(t) - 1, t[i].what = "head" PROVE ~IsHead(t[i + 1])
      BY DEF Paired
    <2>1. i \in 1..Len(s) BY <1>1
    <2>2. i # Len(s) BY <1>1, <2>1 DEF Finished
    <2> QED BY <1>1, <2>1, <2>2 DEF Finished, Paired
  <1>7. ~p.close => ~Says(t) BY <1>1 DEF Says
  <1>8. p.close => Says(t) BY <1>1 DEF Says
  <1>9. t # <<>> BY <1>1
  <1> QED BY <1>1, <1>3, <1>4, <1>5, <1>6, <1>7, <1>8, <1>9 DEF t

\* The body is put behind its head.
LEMMA BodyAdded ==
  ASSUME NEW s \in Seq(Part), NEW p \in Part, ~IsHead(p), ~p.close, s # <<>>,
         s[Len(s)].what = "head", s[Len(s)].req = p.req,
         InOrder(s), Linked(s), EndsAtClose(s), Paired(s)
  PROVE  LET t == Append(s, p)
         IN  /\ InOrder(t) /\ Linked(t) /\ EndsAtClose(t) /\ Finished(t)
             /\ t \in Seq(Part) /\ Last(t) = p.req
             /\ Says(t) <=> Says(s)
  <1> DEFINE t == Append(s, p)
  <1>1. /\ t \in Seq(Part) /\ Len(t) = Len(s) + 1 /\ t[Len(s) + 1] = p /\ Len(s) \in Nat \ {0}
        /\ \A i \in 1..Len(s) : t[i] = s[i]
    BY AppendType
  <1> HIDE DEF t
  <1>2. InOrder(t) BY <1>1 DEF InOrder
  <1>3. Linked(t)
    <2> SUFFICES ASSUME NEW i \in 1..Len(t), ~IsHead(t[i])
                 PROVE  i > 1 /\ t[i - 1].what = "head" /\ t[i - 1].req = t[i].req
      BY DEF Linked
    <2>1. CASE i = Len(s) + 1 BY <1>1, <2>1
    <2>2. CASE i \in 1..Len(s) BY <1>1, <2>2 DEF Linked
    <2> QED BY <1>1, <2>1, <2>2
  <1>4. EndsAtClose(t) BY <1>1 DEF EndsAtClose
  <1>5. Finished(t)
    <2>1. Paired(t)
      <3> SUFFICES ASSUME NEW i \in 1..Len(t) - 1, t[i].what = "head" PROVE ~IsHead(t[i + 1])
        BY DEF Paired
      <3>1. CASE i = Len(s) BY <1>1, <3>1
      <3>2. CASE i \in 1..Len(s) - 1 BY <1>1, <3>2 DEF Paired
      <3> QED BY <1>1, <3>1, <3>2
    <2>2. t[Len(t)].what # "head" BY <1>1 DEF IsHead
    <2> QED BY <2>1, <2>2 DEF Finished
  <1>6. Says(t) <=> Says(s) BY <1>1 DEF Says
  <1>7. Last(t) = p.req BY <1>1 DEF Last
  <1> QED BY <1>1, <1>2, <1>3, <1>4, <1>5, <1>6, <1>7 DEF t

-----------------------------------------------------------------------------
(* What a step does to the stream.                                         *)

HeadOf(r, c) == [req |-> r, what |-> "head", close |-> c]

\* Nothing.
Kept == Stream' = Stream /\ (~closed' => ~closed /\ Begun' = Begun)

\* What was not out is lost.
Cut == closed' /\ \E n \in 0..Len(Stream) : Stream' = SubSeq(Stream, 1, n)

\* The file is out, in full or not.
Sent ==
    /\ ~closed /\ file # 0 /\ Begun' = Begun
    /\ \E w \in {"body", "short"} : Stream' = Append(out, BodyOf(file, w))

\* The next answer is put behind it.
Adds(r, c) ==
    /\ ~closed /\ r = Last(Stream) + 1 /\ ~Says(Stream)
    /\ ~closed' => Begun' = r
    /\ \/ Stream' = Append(Stream, Answer(r, c))
       \/ \E w \in {"body", "short"} :
            Stream' = Append(Append(Stream, HeadOf(r, c)), BodyOf(r, w))

LEMMA StreamIsSeq == ASSUME TypeOK, ConstantsAssumption PROVE Stream \in Seq(Part)
  <1>1. CASE file = 0 BY <1>1 DEF TypeOK, Stream
  <1>2. CASE file # 0
    <2>1. BodyOf(file, "body") \in Part BY <1>2, BodyIsPart DEF TypeOK, ConstantsAssumption
    <2> QED BY <1>2, <2>1, AppendType DEF TypeOK, Stream
  <1> QED BY <1>1, <1>2

\* What is so wherever requests are parsed.
LEMMA FeedingFacts ==
  ASSUME Inv, Feeding
  PROVE  /\ ~closed /\ ~awaiting /\ deferred = 0 /\ file = 0 /\ ~stopReading /\ ~closeAfter
         /\ ~throttled /\ Stream = out /\ ~Says(Stream)
         /\ Last(Stream) = parsed \div 2 /\ Begun = parsed \div 2
  BY DEF Inv, Feeding, Stopped, Owed, Owing, Parting, Streaming, Stream, Begun, TypeOK

\* What is so of a connection whose module answers late.
LEMMA LateFacts ==
  ASSUME Inv, LateAnswer, ~closed
  PROVE  /\ awaiting /\ deferred \in Request /\ deferred = parsed \div 2 /\ file = 0
         /\ tail <= HighWater /\ Stream = out /\ ~Says(Stream)
         /\ Last(Stream) = deferred - 1
  <1>1. awaiting /\ deferred # 0 /\ deferred = parsed \div 2 /\ file = 0 /\ tail <= HighWater
    BY DEF Inv, LateAnswer, Owing
  <1>2. deferred \in Request BY <1>1 DEF Inv, TypeOK
  <1>3. Stream = out /\ ~Says(Stream) /\ Last(Stream) = deferred - 1
    BY <1>1, <1>2 DEF Inv, Parting, Streaming, Stream, Begun
  <1> QED BY <1>1, <1>2, <1>3

LEMMA WritesAppends ==
  ASSUME NEW p, file = 0, file' = 0, Writes(p) PROVE Stream' = Append(Stream, p)
  BY DEF Writes, Buffers, GoesOut, Stream

LEMMA StreamsAppends ==
  ASSUME NEW r \in Request, NEW c, file = 0, Streams(r, c), ConstantsAssumption
  PROVE  \E w \in {"body", "short"} :
           Stream' = Append(Append(Stream, HeadOf(r, c)), BodyOf(r, w))
  <1>1. r # 0 BY DEF ConstantsAssumption
  <1>2. CASE Writes(HeadOf(r, c)) /\ file' = r
    BY <1>1, <1>2 DEF Writes, Buffers, GoesOut, Stream, HeadOf
  <1>3. CASE FileEnds(r, Append(out, HeadOf(r, c)))
    BY <1>3 DEF FileEnds, Stream
  <1> QED BY <1>2, <1>3 DEF Streams, HeadOf

LEMMA Halves ==
  ASSUME NEW n \in Nat
  PROVE  /\ n \div 2 \in Nat
         /\ n % 2 = 0 => (n + 1) \div 2 = n \div 2
         /\ n % 2 = 1 => (n + 1) \div 2 = (n \div 2) + 1
  OBVIOUS

\* Only the last answer announces the end, and it does, but for a handshake's.
Fits(r, c) == (c => Ending(r)) /\ (Ending(r) => c \/ kind[r] = "websocket")

LEMMA DispatchStream ==
  ASSUME Inv, ConstantsAssumption, NEW r \in Request, Dispatch(r)
  PROVE  \/ Kept /\ (closed' \/ deferred' = r)
         \/ UNCHANGED <<awaiting, deferred>> /\ \E c \in BOOLEAN : Adds(r, c) /\ Fits(r, c)
  <1>1. /\ Feeding /\ parsed \in Nat /\ parsed % 2 = 1 /\ r = (parsed + 1) \div 2
        /\ parsed' = parsed + 1
    BY DEF Dispatch, Dispatching, Coming, Inv, TypeOK
  <1>2. /\ ~closed /\ ~closeAfter /\ ~awaiting /\ deferred = 0 /\ file = 0 /\ Stream = out /\ ~Says(Stream)
        /\ Last(Stream) = parsed \div 2 /\ Begun = parsed \div 2
    BY <1>1, FeedingFacts
  <1>3. r = Last(Stream) + 1 BY <1>1, <1>2, Halves
  <1>4. deferred' = 0 => Begun' = r BY <1>1 DEF Begun
  <1>5. Fits(r, Announced(r)) /\ Fits(r, Announced(r) \/ Ending(r))
    BY <1>2 DEF Fits, Announced, Ending
  <1>7. CASE HandlerAnswers(r)
    <2>1. CASE WriteFails BY <2>1, <1>7 DEF HandlerAnswers, WriteFails, Closes, Kept, Stream, output
    <2>2. CASE Writes(Answer(r, Announced(r) \/ Ending(r)))
      <3>1. Announced(r) \/ Ending(r) \in BOOLEAN BY DEF Announced, Ending
      <3>2. Stream' = Append(Stream, Answer(r, Announced(r) \/ Ending(r)))
        BY <2>2, <1>2, <1>7, WritesAppends DEF HandlerAnswers
      <3>3. Begun' = r BY <1>2, <1>4, <1>7 DEF HandlerAnswers
      <3> QED BY <1>2, <1>3, <1>5, <1>7, <3>1, <3>2, <3>3 DEF Adds, HandlerAnswers
    <2> QED BY <1>7, <2>1, <2>2 DEF HandlerAnswers
  <1>8. CASE HandlerSends(r)
    <2>1. Announced(r) \in BOOLEAN /\ Begun' = r
      BY <1>2, <1>4, <1>8 DEF Announced, HandlerSends
    <2>2. CASE WriteFails /\ UNCHANGED file BY <2>2 DEF WriteFails, Closes, Kept, Stream, output
    <2>3. CASE Writes(Answer(r, Announced(r))) /\ UNCHANGED file
      <3>1. Stream' = Append(Stream, Answer(r, Announced(r)))
        BY <2>3, <1>2, WritesAppends
      <3> QED BY <1>2, <1>3, <1>5, <1>8, <2>1, <3>1 DEF Adds, HandlerSends
    <2>4. CASE Streams(r, Announced(r))
      <3>1. \E w \in {"body", "short"} :
              Stream' = Append(Append(Stream, HeadOf(r, Announced(r))), BodyOf(r, w))
        BY <2>4, <1>2, StreamsAppends
      <3> QED BY <1>2, <1>3, <1>5, <1>8, <2>1, <3>1 DEF Adds, HandlerSends
    <2> QED BY <1>8, <2>2, <2>3, <2>4 DEF HandlerSends
  <1>9. CASE HandlerDefers(r)
    <2>1. Begun' = parsed \div 2
      BY <1>1, <1>9, Halves, ConstantsAssumption DEF HandlerDefers, Begun, ConstantsAssumption
    <2>2. Stream' = Stream BY <1>9 DEF HandlerDefers, Stream, output
    <2> QED BY <1>2, <1>9, <2>1, <2>2 DEF Kept, HandlerDefers
  <1>10. CASE HandlerTakes(r)
    BY <1>10 DEF HandlerTakes, Closes, Kept, Stream, output
  <1> QED BY <1>7, <1>8, <1>9, <1>10 DEF Dispatch

LEMMA LateStream ==
  ASSUME Inv, ConstantsAssumption, LateAnswer
  PROVE  Kept \/ Adds(deferred, LateAnnounced)
  <1>1. CASE closed
    BY <1>1 DEF LateAnswer, Kept, Stream, output
  <1>2. CASE ~closed
    <2>1. /\ deferred \in Request /\ deferred = parsed \div 2 /\ file = 0 /\ Stream = out
          /\ ~Says(Stream) /\ Last(Stream) = deferred - 1
      BY <1>2, LateFacts
    <2>2. Begun' = deferred BY <2>1 DEF LateAnswer, Begun, input
    <2>3. deferred = Last(Stream) + 1 BY <2>1, ConstantsAssumption DEF ConstantsAssumption
    <2>4. CASE Writes(Answer(deferred, LateAnnounced)) /\ UNCHANGED file
      <3>1. Stream' = Append(Stream, Answer(deferred, LateAnnounced))
        BY <2>1, <2>4, WritesAppends
      <3> QED BY <1>2, <2>1, <2>2, <2>3, <3>1 DEF Adds
    <2>5. CASE Streams(deferred, LateAnnounced)
      <3>1. \E w \in {"body", "short"} :
              Stream' = Append(Append(Stream, HeadOf(deferred, LateAnnounced)), BodyOf(deferred, w))
        BY <2>1, <2>5, StreamsAppends
      <3> QED BY <1>2, <2>1, <2>2, <2>3, <3>1 DEF Adds
    <2>6. CASE WriteFails /\ UNCHANGED file
      BY <2>6 DEF WriteFails, Closes, Kept, Stream, output
    <2> QED BY <1>2, <2>4, <2>5, <2>6 DEF LateAnswer
  <1> QED BY <1>1, <1>2

LEMMA BadStream ==
  ASSUME Inv, ConstantsAssumption, NEW r \in Request, BadRequest(r)
  PROVE  Kept \/ Adds(r, TRUE)
  <1>1. /\ Feeding /\ parsed \in Nat /\ parsed % 2 = 1 /\ r = (parsed + 1) \div 2
        /\ parsed' = parsed + 1 /\ UNCHANGED <<deferred, file>>
    BY DEF BadRequest, Coming, Inv, TypeOK
  <1>2. /\ ~closed /\ deferred = 0 /\ file = 0 /\ ~Says(Stream) /\ Last(Stream) = parsed \div 2
    BY <1>1, FeedingFacts
  <1>3. r = Last(Stream) + 1 BY <1>1, <1>2, Halves
  <1>4. Begun' = r BY <1>1, <1>2 DEF Begun
  <1>5. CASE Writes(Answer(r, TRUE))
    <2>1. Stream' = Append(Stream, Answer(r, TRUE)) BY <1>1, <1>2, <1>5, WritesAppends
    <2> QED BY <1>2, <1>3, <1>4, <2>1 DEF Adds
  <1>6. CASE WriteFails BY <1>1, <1>6 DEF WriteFails, Closes, Kept, Stream, output
  <1> QED BY <1>5, <1>6 DEF BadRequest

\* No step does anything else to it.
LEMMA StreamStep ==
  ASSUME Inv, ConstantsAssumption, [Next]_vars
  PROVE  Kept \/ Cut \/ Sent \/ \E r \in Request, c \in BOOLEAN : Adds(r, c)
  <1> USE DEF client, input, output, flags
  <1>1. CASE UNCHANGED <<out, file, parsed, deferred>> /\ (~closed' => ~closed)
    BY <1>1 DEF Kept, Stream, Begun
  <1>2. CASE ClientSends BY <1>1, <1>2 DEF ClientSends
  <1>3. CASE ClientLeaves BY <1>1, <1>3 DEF ClientLeaves
  <1>4. ASSUME NEW evs \in SUBSET {"IN", "OUT"}, Collect(evs) PROVE Kept BY <1>4 DEF Collect, Kept, Stream, Begun
  <1>5. CASE Discard BY <1>1, <1>5 DEF Discard
  <1>6. CASE DeliversAll
    <2>1. ~closed BY <1>6 DEF DeliversAll, Delivers, Inv
    <2>2. Begun' = Begun BY <1>6 DEF DeliversAll, Delivers, Begun
    <2>3. CASE UNCHANGED <<out, file>> BY <2>1, <2>2, <2>3 DEF Kept, Stream
    <2>4. CASE file # 0 /\ FileEnds(file, out) BY <2>1, <2>2, <2>4 DEF Sent, FileEnds, Stream
    <2> QED BY <1>6, <2>3, <2>4 DEF DeliversAll, Delivers, Drained
  <1>7. CASE DeliversPart
    <2>1. CASE Delivers(DrainedInPart) BY <1>1, <2>1 DEF Delivers, DrainedInPart, Inv
    <2>2. CASE Delivers(DrainFails)
      <3>1. closed' /\ Stream' = SubSeq(out, 1, gone) BY <2>2 DEF Delivers, DrainFails, Closes, Stream
      <3>2. out \in Seq(Part) /\ gone \in 0..Len(out) BY DEF Inv, TypeOK
      <3>3. CASE file = 0 BY <3>1, <3>2, <3>3 DEF Cut, Stream
      <3>4. CASE file # 0
        <4> DEFINE b == BodyOf(file, "body")
        <4>1. b \in Part BY <3>4, BodyIsPart, ConstantsAssumption DEF Inv, TypeOK, ConstantsAssumption
        <4>2. Stream = Append(out, b) BY <3>4 DEF Stream
        <4> HIDE DEF b
        <4>3. SubSeq(out, 1, gone) = SubSeq(Append(out, b), 1, gone) /\ gone \in 0..Len(Append(out, b))
          BY <3>2, <4>1
        <4> QED BY <3>1, <4>2, <4>3 DEF Cut
      <3> QED BY <3>3, <3>4
    <2> QED BY <1>7, <2>1, <2>2 DEF DeliversPart
  <1>8. CASE DeliversNothing BY <1>1, <1>8 DEF DeliversNothing, Delivers, Inv
  <1>9. CASE Serve BY <1>1, <1>9 DEF Serve, Closes, Stays
  <1>10. CASE ParseHead
    <2>1. parsed' = parsed + 1 /\ parsed % 2 = 0 /\ parsed \in Nat BY <1>10 DEF ParseHead, Inv, TypeOK
    <2>2. Begun' = Begun BY <1>10, <2>1, Halves DEF ParseHead, Begun
    <2> QED BY <1>10, <2>2 DEF ParseHead, Kept, Stream
  <1>11. CASE Reads BY <1>1, <1>11 DEF Reads
  <1>12. CASE ReadsEof BY <1>1, <1>12 DEF ReadsEof, Closes
  <1>13. CASE Settle BY <1>1, <1>13 DEF Settle, SettleOpen, Closes, Stays
  <1>14. ASSUME NEW r \in Request, Dispatch(r) PROVE Kept \/ \E c \in BOOLEAN : Adds(r, c)
    BY <1>14, DispatchStream
  <1>15. ASSUME NEW r \in Request, BadRequest(r) PROVE Kept \/ Adds(r, TRUE)
    BY <1>15, BadStream
  <1>16. CASE LateAnswer
    <2>1. CASE closed BY <1>16, <2>1 DEF LateAnswer, Kept, Stream
    <2>2. CASE ~closed
      <3>1. deferred \in Request /\ LateAnnounced \in BOOLEAN
        BY <1>16, <2>2, LateFacts DEF LateAnnounced
      <3> QED BY <1>16, <3>1, LateStream
    <2> QED BY <2>1, <2>2
  <1>17. CASE StopKeepAlive BY <1>1, <1>17 DEF StopKeepAlive, Closes, Stays
  <1>18. CASE UNCHANGED vars BY <1>1, <1>18 DEF vars
  <1> QED
    BY <1>2, <1>3, <1>4, <1>5, <1>6, <1>7, <1>8, <1>9, <1>10, <1>11, <1>12, <1>13, <1>14,
       <1>15, <1>16, <1>17, <1>18 DEF Next

-----------------------------------------------------------------------------
(* The conjuncts of the invariant, each kept by every step.                *)

\* Whatever is put behind it, the stream is one of whole answers in order.
LEMMA AddsHolds ==
  ASSUME ConstantsAssumption, Inv, NEW r \in Request, NEW c \in BOOLEAN, Adds(r, c)
  PROVE  /\ InOrder(Stream') /\ Linked(Stream') /\ EndsAtClose(Stream') /\ Finished(Stream')
         /\ Last(Stream') = r
         /\ Says(Stream') <=> c
  <1> DEFINE s == Stream
  <1>1. /\ s \in Seq(Part) /\ InOrder(s) /\ Linked(s) /\ EndsAtClose(s) /\ Finished(s) /\ ~Says(s)
        /\ r = Last(s) + 1
    BY StreamIsSeq DEF Adds, Inv, Streaming
  <1> HIDE DEF s
  <1>2. CASE Stream' = Append(s, Answer(r, c))
    <2> DEFINE p == Answer(r, c)
    <2>1. p \in Part /\ p.req = r /\ p.close = c /\ p.what = "answer" /\ IsHead(p)
      BY AnswerIsPart DEF Answer, IsHead
    <2> HIDE DEF p
    <2> DEFINE t == Append(s, p)
    <2>2. /\ InOrder(t) /\ Linked(t) /\ EndsAtClose(t) /\ Paired(t)
          /\ t # <<>> /\ t[Len(t)] = p /\ (Says(t) <=> c)
      BY <1>1, <2>1, HeadAdded
    <2>3. Stream' = t BY <1>2 DEF p
    <2> HIDE DEF t
    <2>4. Finished(t) /\ Last(t) = r BY <2>1, <2>2 DEF Finished, Last
    <2> QED BY <2>2, <2>3, <2>4
  <1>3. CASE \E w \in {"body", "short"} : Stream' = Append(Append(s, HeadOf(r, c)), BodyOf(r, w))
    <2>0. PICK w \in {"body", "short"} : Stream' = Append(Append(s, HeadOf(r, c)), BodyOf(r, w))
      BY <1>3
    <2> DEFINE p == HeadOf(r, c)
               b == BodyOf(r, w)
    <2>1. p \in Part /\ p.req = r /\ p.close = c /\ p.what = "head" /\ IsHead(p)
      BY DEF HeadOf, IsHead, Part
    <2>2. b \in Part /\ b.req = r /\ ~b.close /\ ~IsHead(b)
      BY BodyIsPart DEF BodyOf, IsHead
    <2> HIDE DEF p, b
    <2> DEFINE t == Append(s, p)
               u == Append(t, b)
    <2>3. /\ InOrder(t) /\ Linked(t) /\ EndsAtClose(t) /\ Paired(t) /\ t \in Seq(Part)
          /\ t # <<>> /\ t[Len(t)] = p /\ (Says(t) <=> c)
      BY <1>1, <2>1, HeadAdded
    <2> HIDE DEF t
    <2>4. /\ InOrder(u) /\ Linked(u) /\ EndsAtClose(u) /\ Finished(u)
          /\ Last(u) = r /\ (Says(u) <=> Says(t))
      BY <2>1, <2>2, <2>3, BodyAdded
    <2>5. Stream' = u BY <2>0 DEF p, b, t
    <2> HIDE DEF u
    <2> QED BY <2>3, <2>4, <2>5
  <1> QED BY <1>2, <1>3 DEF Adds, s

\* A file that is out leaves the stream as it was, but for how it ended.
LEMMA SentHolds ==
  ASSUME ConstantsAssumption, Inv, Sent
  PROVE  /\ InOrder(Stream') /\ Linked(Stream') /\ EndsAtClose(Stream') /\ Finished(Stream')
         /\ Last(Stream') = Last(Stream)
         /\ Says(Stream') <=> Says(Stream)
  <1>1. PICK w \in {"body", "short"} : Stream' = Append(out, BodyOf(file, w))
    BY DEF Sent
  <1> DEFINE s == Append(out, BodyOf(file, "body"))
             t == Append(out, BodyOf(file, w))
  <1>2. file \in Request BY ConstantsAssumption DEF Sent, Inv, TypeOK, ConstantsAssumption
  <1>3. BodyOf(file, "body") \in Part /\ BodyOf(file, w) \in Part BY <1>2, BodyIsPart
  <1>4. s \in Seq(Part) /\ t \in Seq(Part) BY <1>3, AppendType DEF Inv, TypeOK
  <1>5. Alike(s, t)
    <2>1. /\ Len(s) = Len(out) + 1 /\ Len(t) = Len(out) + 1 /\ Len(out) \in Nat
          /\ s[Len(out) + 1] = BodyOf(file, "body") /\ t[Len(out) + 1] = BodyOf(file, w)
          /\ \A i \in 1..Len(out) : s[i] = t[i]
      BY <1>3, AppendType DEF Inv, TypeOK
    <2> HIDE DEF s, t
    <2> DEFINE like(i) == /\ t[i].req = s[i].req /\ t[i].close = s[i].close
                          /\ (IsHead(t[i]) <=> IsHead(s[i]))
                          /\ (t[i].what = "head" <=> s[i].what = "head")
    <2>2. \A i \in 1..Len(out) : like(i) BY <2>1
    <2>3. like(Len(out) + 1) BY <2>1 DEF BodyOf, IsHead
    <2>4. \A i \in 1..Len(s) : like(i)
      <3> HIDE DEF like
      <3> QED BY <2>1, <2>2, <2>3
    <2> QED BY <2>1, <2>4 DEF Alike
  <1>6. Stream = s BY DEF Stream, Sent
  <1> HIDE DEF s, t
  <1>7. InOrder(s) /\ Linked(s) /\ EndsAtClose(s) /\ Finished(s)
    BY <1>6 DEF Inv, Streaming, Sent
  <1> QED BY <1>1, <1>4, <1>5, <1>6, <1>7, AlikeHolds DEF t

LEMMA StreamingStep ==
  ASSUME ConstantsAssumption, Inv, [Next]_vars PROVE Streaming'
  <1>1. CASE Kept BY <1>1 DEF Kept, Inv, Streaming
  <1>2. CASE Cut
    <2>1. PICK n \in 0..Len(Stream) : Stream' = SubSeq(Stream, 1, n) BY <1>2 DEF Cut
    <2>2. InOrder(Stream') /\ Linked(Stream') /\ EndsAtClose(Stream')
      BY <2>1, StreamIsSeq, PrefixHolds DEF Inv, Streaming
    <2> QED BY <1>2, <2>2 DEF Cut, Streaming
  <1>3. CASE Sent
    <2>1. /\ InOrder(Stream') /\ Linked(Stream') /\ EndsAtClose(Stream') /\ Finished(Stream')
          /\ Last(Stream') = Last(Stream)
      BY <1>3, SentHolds
    <2> QED BY <1>3, <2>1 DEF Streaming, Sent, Inv
  <1>4. ASSUME NEW r \in Request, NEW c \in BOOLEAN, Adds(r, c) PROVE Streaming'
    <2>1. /\ InOrder(Stream') /\ Linked(Stream') /\ EndsAtClose(Stream') /\ Finished(Stream')
          /\ Last(Stream') = r
      BY <1>4, AddsHolds
    <2> QED BY <1>4, <2>1 DEF Streaming, Adds
  <1> QED BY <1>1, <1>2, <1>3, <1>4, StreamStep

\* The rest of the invariant, about the flags and the loop.
Rest == (watched <=> ~closed) /\ Owing /\ Parting /\ Tails /\ Masks /\ Events

LEMMA SaysStep ==
  ASSUME ConstantsAssumption, Inv, [Next]_vars, ~closed'
  PROVE  \/ (Says(Stream') <=> Says(Stream))
         \/ \E r \in Request, c \in BOOLEAN : Adds(r, c) /\ (Says(Stream') <=> c)
  BY StreamStep, AddsHolds, SentHolds DEF Kept, Cut

LEMMA ClientRest ==
  ASSUME ConstantsAssumption, Inv, ClientSends \/ ClientLeaves PROVE Rest'
  <1> USE DEF client, input, output, flags
  <1>1. Stream' = Stream BY DEF ClientSends, ClientLeaves, Stream
  <1>2. (watched' <=> ~closed') /\ Owing' /\ Parting' /\ Tails'
    BY <1>1 DEF Inv, ClientSends, ClientLeaves, Owing, Parting, Tails, Owed
  <1>3. Masks' BY DEF Inv, ClientSends, ClientLeaves, Masks, Pending, Resumable, Stopped, Owed
  <1>4. Events' BY DEF Inv, ClientSends, ClientLeaves, Events, Stopped, Owed
  <1> QED BY <1>2, <1>3, <1>4 DEF Rest

LEMMA CollectRest ==
  ASSUME ConstantsAssumption, Inv, NEW evs \in SUBSET {"IN", "OUT"}, Collect(evs) PROVE Rest'
  <1> USE DEF client, input, output, flags
  <1>1. Stream' = Stream BY DEF Collect, Stream
  <1>2. (watched' <=> ~closed') /\ Owing' /\ Parting' /\ Tails'
    BY <1>1 DEF Inv, Collect, Owing, Parting, Tails, Owed
  <1>3. Masks' BY DEF Inv, Collect, Masks, Pending, Resumable, Stopped, Owed
  <1>4. Events' BY DEF Inv, Collect, Events, Masks, Stopped, Owed, Readable, Broken
  <1> QED BY <1>2, <1>3, <1>4 DEF Rest

\* Steps of the thread that write nothing and dispatch nothing.
LEMMA ThreadRest ==
  ASSUME ConstantsAssumption, Inv,
         Discard \/ DeliversNothing \/ Serve \/ ParseHead \/ Reads \/ ReadsEof
  PROVE  Rest'
  <1> USE DEF client, input, output, flags, Discard, DeliversNothing, Delivers, Serve, ParseHead,
              Reads, ReadsEof, Closes, Stays
  <1>1. Stream' = Stream BY DEF Stream
  <1>2. watched' <=> ~closed' BY DEF Inv
  <1>3. Owing' BY DEF Inv, Owing, Feeding, Stopped, Owed
  <1>4. Parting' BY <1>1 DEF Inv, Parting, Owed
  <1>5. Tails' BY DEF Inv, Tails
  <1>6. Masks' BY DEF Inv, Masks, Pending, Resumable, Stopped, Owed, Feeding
  <1>7. Events'
    <2>1. CASE DeliversNothing
      <3>1. /\ at = "batch" /\ events' = events \ {"OUT"} /\ events \subseteq {"IN", "OUT"}
            /\ UNCHANGED <<peer, draining, closed, stopReading, throttled, awaiting, file>>
        BY <2>1 DEF Inv, TypeOK
      <3> HIDE DEF DeliversNothing, Delivers
      <3> QED BY <3>1 DEF Inv, Events, Stopped, Owed
    <2>2. CASE ~DeliversNothing
      <3>1. at' \notin {"batch", "event"} BY <2>2 DEF Feeding
      <3> QED BY <3>1 DEF Events
    <2> QED BY <2>1, <2>2
  <1> QED BY <1>2, <1>3, <1>4, <1>5, <1>6, <1>7 DEF Rest

LEMMA SettleRest == ASSUME ConstantsAssumption, Inv, Settle PROVE Rest'
  <1> USE DEF client, input, output, flags, Settle, SettleOpen, Closes, Stays
  <1>1. Stream' = Stream BY DEF Stream
  <1>2. watched' <=> ~closed' BY DEF Inv
  <1>3. Owing' BY DEF Inv, Owing
  <1>4. Parting' BY <1>1 DEF Inv, Parting, Owed
  <1>5. Tails' BY DEF Inv, Tails
  <1>6. Masks' BY DEF Inv, Masks, Pending, Resumable, Stopped, Owed, Wanted
  <1>7. Events' BY DEF Events
  <1> QED BY <1>2, <1>3, <1>4, <1>5, <1>6, <1>7 DEF Rest

LEMMA StopRest == ASSUME ConstantsAssumption, Inv, StopKeepAlive PROVE Rest'
  <1> USE DEF client, input, output, flags, StopKeepAlive, Closes, Stays
  <1>1. Stream' = Stream BY DEF Stream
  <1>2. watched' <=> ~closed' BY DEF Inv
  <1>3. Owing' BY DEF Inv, Owing
  <1>4. Parting' BY <1>1 DEF Inv, Parting, Owed
  <1>5. Tails' BY DEF Inv, Tails
  <1>6. Masks' BY DEF Inv, Masks, Pending, Resumable, Stopped, Owed, Outside
  <1>7. Events' BY DEF Inv, Events, Outside
  <1> QED BY <1>2, <1>3, <1>4, <1>5, <1>6, <1>7 DEF Rest

LEMMA DeliversAllRest == ASSUME ConstantsAssumption, Inv, DeliversAll PROVE Rest'
  <1> USE DEF client, input, output, flags, DeliversAll, Delivers, Drained, AfterResponse,
              Closes, Stays
  <1>0. /\ UNCHANGED <<parsed, stopReading, draining, awaiting, deferred>>
        /\ ~closed /\ closed \in BOOLEAN /\ at' = "event" /\ events' = events \ {"OUT"}
        /\ tail' = 0 /\ throttled' = FALSE /\ (file' = file \/ file' = 0)
    BY DEF FileEnds, Inv, TypeOK
  <1>1. Says(Stream') => Says(Stream)
    <2>2. CASE file = 0 /\ UNCHANGED <<out, file>> BY <2>2 DEF Stream
    <2>3. CASE file # 0 /\ FileEnds(file, out)
      <3>1. Sent BY <1>0, <2>3 DEF Sent, FileEnds, Stream, Begun
      <3> QED BY <3>1, SentHolds
    <2> QED BY <2>2, <2>3
  <1>2. watched' <=> ~closed'
    <2>1. CASE closed' = TRUE /\ watched' = FALSE BY <2>1
    <2>2. CASE UNCHANGED <<closed, watched>> BY <2>2 DEF Inv
    <2> QED BY <2>1, <2>2
  <1>3. Owing' BY <1>0 DEF Inv, Owing, ConstantsAssumption
  <1>4. Parting'
    <2> SUFFICES ASSUME ~closed' PROVE Parting' BY DEF Parting
    <2>1. closeAfter' = closeAfter OBVIOUS
    <2> QED BY <1>0, <1>1, <2>1 DEF Inv, Parting, Owed
  <1>5. Tails' BY <1>0 DEF Tails, ConstantsAssumption
  <1>6. Masks'
    <2> SUFFICES ASSUME ~closed' PROVE Masks' BY DEF Masks
    <2>1. mask' = Wanted' OBVIOUS
    <2> HIDE DEF DeliversAll
    <2> QED BY <2>1 DEF Masks, Wanted, Stopped, Owed
  <1>7. Events' BY <1>0 DEF Inv, TypeOK, Events, Stopped, Owed
  <1> QED BY <1>2, <1>3, <1>4, <1>5, <1>6, <1>7 DEF Rest

LEMMA DeliversPartRest == ASSUME ConstantsAssumption, Inv, DeliversPart PROVE Rest'
  <1> USE DEF client, input, output, flags, Closes
  <1>1. CASE Delivers(DrainFails)
    <2>1. closed' /\ ~watched' /\ tail' = 0 /\ at' = "event" /\ events' = events \ {"OUT"}
      BY <1>1 DEF Delivers, DrainFails
    <2> QED BY <2>1 DEF Rest, Owing, Parting, Tails, Masks, Events, Inv, TypeOK, ConstantsAssumption
  <1>2. CASE Delivers(DrainedInPart)
    <2> USE <1>2 DEF Delivers, DrainedInPart
    <2>1. /\ Stream' = Stream /\ at' = "event" /\ Pending /\ Pending'
          /\ UNCHANGED <<closed, watched, mask, awaiting, deferred, file, parsed, got, stopReading,
                         closeAfter, draining, peer>>
      BY DEF Stream, Pending, Inv, TypeOK
    <2>2. tail' \in Nat /\ tail' <= tail BY DEF Inv, TypeOK
    <2>3. throttled' = (throttled /\ tail' > LowWater) OBVIOUS
    <2>4. events' = events \ {"OUT"} OBVIOUS
    <2>5. at = "batch" OBVIOUS
    <2> HIDE <1>2 DEF Delivers, DrainedInPart
    <2>6. Owing' BY <2>1, <2>2 DEF Inv, TypeOK, Owing, ConstantsAssumption
    <2>7. Parting' BY <2>1 DEF Inv, Parting, Owed
    <2>8. Tails' BY <2>2, <2>3 DEF Inv, TypeOK, Tails, ConstantsAssumption
    <2>9. Masks' BY <2>1, <2>3, <2>5 DEF Inv, Masks, Stopped, Owed
    <2>10. Events' BY <2>1, <2>3, <2>4, <2>5 DEF Inv, TypeOK, Events, Stopped, Owed
    <2> QED BY <2>1, <2>6, <2>7, <2>8, <2>9, <2>10 DEF Rest, Inv
  <1> QED BY <1>1, <1>2 DEF DeliversPart

\* The marks, wherever an answer is put out with room for it.
LEMMA WritesTails ==
  ASSUME ConstantsAssumption, TypeOK, Tails, tail <= HighWater, NEW p, Writes(p) PROVE Tails'
  <1>1. CASE Buffers(p)
    <2>1. tail' \in Nat /\ tail' <= HighWater + MaxTail
      BY <1>1 DEF Buffers, TypeOK, ConstantsAssumption
    <2>2. tail' > HighWater => throttled' BY <1>1 DEF Buffers
    <2> QED BY <2>1, <2>2 DEF Tails, ConstantsAssumption
  <1>2. CASE GoesOut(p) BY <1>2 DEF GoesOut, TypeOK, Tails, ConstantsAssumption
  <1> QED BY <1>1, <1>2 DEF Writes

LEMMA StreamsTails ==
  ASSUME ConstantsAssumption, TypeOK, Tails, tail <= HighWater, NEW r, NEW c, Streams(r, c)
  PROVE  Tails'
  <1>1. CASE UNCHANGED <<tail, throttled>> BY <1>1 DEF Tails
  <1>2. CASE Writes(HeadOf(r, c)) BY <1>2, WritesTails
  <1> QED BY <1>1, <1>2 DEF Streams, HeadOf

LEMMA DispatchRest ==
  ASSUME ConstantsAssumption, Inv, NEW r \in Request, Dispatch(r) PROVE Rest'
  <1> USE DEF client, input, output, flags
  <1>1. /\ at = "feed" /\ at' = "feed" /\ parsed \in Nat /\ parsed % 2 = 1 /\ r = (parsed + 1) \div 2
        /\ parsed' = parsed + 1 /\ UNCHANGED draining /\ Feeding
    BY DEF Dispatch, Dispatching, Coming, Feeding, Inv, TypeOK
  <1>2. /\ ~closed /\ ~awaiting /\ deferred = 0 /\ file = 0 /\ ~stopReading /\ ~closeAfter
        /\ ~throttled /\ ~Says(Stream)
    BY <1>1, FeedingFacts
  <1>3. /\ closeAfter' <=> Ending(r)
        /\ stopReading' <=> Ending(r)
    BY <1>2 DEF Dispatch, Ends
  <1>4. watched' <=> ~closed'
    BY <1>2 DEF Dispatch, HandlerAnswers, HandlerSends, HandlerDefers, HandlerTakes, WriteFails,
                Closes, Stays, Inv
  <1>5. Tails'
    <2>1. tail <= HighWater /\ Tails /\ TypeOK BY <1>2 DEF Inv, Tails
    <2>2. CASE UNCHANGED <<tail, throttled>> BY <2>1, <2>2 DEF Tails
    <2>3. CASE \E p : Writes(p) BY <2>1, <2>3, WritesTails
    <2>4. CASE \E c : Streams(r, c) BY <2>1, <2>4, StreamsTails
    <2> QED BY <2>2, <2>3, <2>4
          DEF Dispatch, HandlerAnswers, HandlerSends, HandlerDefers, HandlerTakes, WriteFails
  <1>6. Owing'
    <2> SUFFICES ASSUME ~closed' PROVE Owing' BY DEF Owing
    <2>1. CASE HandlerDefers(r)
      <3>1. awaiting' /\ deferred' = r /\ r # 0 /\ file' = 0 /\ tail' = tail
        BY <1>2, <2>1, ConstantsAssumption DEF HandlerDefers, ConstantsAssumption
      <3>2. r = parsed' \div 2 BY <1>1
      <3>3. tail <= HighWater BY <1>2 DEF Inv, Tails
      <3> QED BY <3>1, <3>2, <3>3 DEF Owing
    <2>2. CASE UNCHANGED <<awaiting, deferred>> BY <1>2, <2>2 DEF Owing
    <2> QED BY <2>1, <2>2 DEF Dispatch, HandlerAnswers, HandlerSends, HandlerTakes
  <1>7. Parting'
    <2> SUFFICES ASSUME ~closed' PROVE Parting' BY DEF Parting
    <2>1. draining => Ending(r) BY DEF Ending
    <2>2. CASE Kept
      <3>1. ~Says(Stream') BY <1>2, <2>2 DEF Kept
      <3> QED BY <1>1, <1>3, <2>1, <3>1 DEF Parting
    <2>3. CASE UNCHANGED <<awaiting, deferred>> /\ \E c \in BOOLEAN : Adds(r, c) /\ Fits(r, c)
      <3>1. Says(Stream') => Ending(r) BY <2>3, AddsHolds DEF Fits
      <3> QED BY <1>1, <1>2, <1>3, <2>1, <2>3, <3>1 DEF Parting
    <2> QED BY <2>2, <2>3, DispatchStream
  <1>8. Masks' /\ Events' BY <1>1 DEF Masks, Events
  <1> QED BY <1>4, <1>5, <1>6, <1>7, <1>8 DEF Rest

LEMMA BadRest ==
  ASSUME ConstantsAssumption, Inv, NEW r \in Request, BadRequest(r) PROVE Rest'
  <1> USE DEF client, input, output, flags
  <1>1. /\ at' = "feed" /\ UNCHANGED <<draining, awaiting, deferred, file>> /\ Feeding
    BY DEF BadRequest, Feeding
  <1>2. /\ ~closed /\ ~awaiting /\ deferred = 0 /\ file = 0 /\ ~stopReading /\ ~closeAfter
        /\ ~throttled
    BY <1>1, FeedingFacts
  <1>3. tail <= HighWater /\ Tails /\ TypeOK BY <1>2 DEF Inv, Tails
  <1>4. watched' <=> ~closed'
    <2>1. CASE closed' = TRUE /\ watched' = FALSE BY <2>1
    <2>2. CASE UNCHANGED <<closed, watched>> BY <2>2 DEF Inv
    <2> QED BY <2>1, <2>2 DEF BadRequest, WriteFails, Closes, Stays
  <1>5. Tails'
    <2>1. CASE UNCHANGED <<tail, throttled>> BY <1>3, <2>1 DEF Tails
    <2>2. CASE Writes(Answer(r, TRUE)) BY <1>3, <2>2, WritesTails
    <2> QED BY <2>1, <2>2 DEF BadRequest, WriteFails
  <1>6. Owing' BY <1>1, <1>2 DEF Owing
  <1>7. Parting'
    <2>1. closed' \/ (closeAfter' /\ stopReading') BY DEF BadRequest, WriteFails, Closes
    <2> QED BY <1>1, <1>2, <2>1 DEF Parting
  <1>8. Masks' /\ Events' BY <1>1 DEF Masks, Events
  <1> QED BY <1>4, <1>5, <1>6, <1>7, <1>8 DEF Rest

LEMMA LateRest == ASSUME ConstantsAssumption, Inv, LateAnswer PROVE Rest'
  <1> USE DEF client, input, output, flags
  <1>1. CASE closed
    <2>1. closed' /\ ~watched' /\ UNCHANGED <<at, tail, throttled>>
      BY <1>1 DEF LateAnswer, Inv
    <2>2. at # "event" BY DEF LateAnswer, Outside
    <2> QED BY <2>1, <2>2 DEF Rest, Owing, Parting, Tails, Masks, Events, Inv
  <1>2. CASE ~closed
    <2>1. /\ awaiting /\ deferred \in Request /\ file = 0 /\ tail <= HighWater /\ ~Says(Stream)
      BY <1>2, LateFacts
    <2>2. /\ awaiting' = FALSE /\ deferred' = 0 /\ at' = at /\ at # "event" /\ at # "feed"
          /\ UNCHANGED <<draining, stopReading, events, peer>> /\ watched
      BY <1>2 DEF LateAnswer, Outside, Inv
    <2>3. \/ closed' = TRUE /\ watched' = FALSE
          \/ UNCHANGED <<closeAfter, closed, watched>> /\ mask' = Wanted'
      BY <1>2 DEF LateAnswer, AfterResponse, WriteFails, Closes, Stays
    <2>4. watched' <=> ~closed'
      <3>1. CASE closed' = TRUE /\ watched' = FALSE BY <3>1
      <3>2. CASE UNCHANGED <<closed, watched>> BY <1>2, <2>2, <3>2
      <3> QED BY <2>3, <3>1, <3>2
    <2>5. Owing' BY <2>2 DEF Owing
    <2>6. Parting'
      <3> SUFFICES ASSUME ~closed' PROVE Parting' BY DEF Parting
      <3>1. closeAfter' = closeAfter BY <2>3
      <3>2. (closeAfter <=> stopReading) /\ (draining => stopReading)
        BY <1>2, <2>1 DEF Inv, Parting, Owed
      <3>3. LateAnnounced \in BOOLEAN /\ (LateAnnounced => stopReading) BY <3>2 DEF LateAnnounced
      <3>4. Says(Stream') => stopReading
        <4>1. CASE Kept BY <2>1, <4>1 DEF Kept
        <4>2. CASE Adds(deferred, LateAnnounced) BY <2>1, <3>3, <4>2, AddsHolds
        <4> QED BY <4>1, <4>2, LateStream
      <3> QED BY <2>2, <3>1, <3>2, <3>4 DEF Parting
    <2>7. Tails'
      <3>1. Tails /\ TypeOK BY DEF Inv
      <3>2. CASE UNCHANGED <<tail, throttled>> BY <3>1, <3>2 DEF Tails
      <3>3. CASE \E p : Writes(p) BY <2>1, <3>1, <3>3, WritesTails
      <3>4. CASE \E c : Streams(deferred, c) BY <2>1, <3>1, <3>4, StreamsTails
      <3> QED BY <1>2, <3>2, <3>3, <3>4 DEF LateAnswer, WriteFails
    <2>8. Masks'
      <3> SUFFICES ASSUME ~closed' PROVE Masks' BY DEF Masks
      <3>1. mask' = Wanted' BY <2>3
      <3> QED BY <3>1 DEF Masks, Wanted, Stopped, Owed
    <2>9. Events'
      <3>1. Stopped BY <2>1 DEF Stopped, Owed
      <3> QED BY <1>2, <2>2, <3>1 DEF Inv, Events
    <2> QED BY <2>4, <2>5, <2>6, <2>7, <2>8, <2>9 DEF Rest
  <1> QED BY <1>1, <1>2

LEMMA RestStep == ASSUME ConstantsAssumption, Inv, [Next]_vars PROVE Rest'
  <1>1. CASE UNCHANGED vars
    <2> USE <1>1 DEF vars, client, input, output, flags
    <2>1. Stream' = Stream BY DEF Stream
    <2>2. (watched' <=> ~closed') /\ Owing' /\ Parting' /\ Tails'
      BY <2>1 DEF Inv, Owing, Parting, Tails, Owed
    <2>3. Masks' BY DEF Inv, Masks, Pending, Resumable, Stopped, Owed
    <2>4. Events' BY DEF Inv, Events, Stopped, Owed
    <2> QED BY <2>2, <2>3, <2>4 DEF Rest
  <1> QED
    BY <1>1, ClientRest, CollectRest, ThreadRest, SettleRest, StopRest, DeliversAllRest,
       DeliversPartRest, DispatchRest, BadRest, LateRest DEF Next

\* A step that answers nothing neither begins nor ends the reading.
LEMMA QuietStep ==
  ASSUME ConstantsAssumption, Inv, [Next]_vars, ~closed', ~draining', stopReading', ~LateAnswer,
         \A r \in Request : ~Dispatch(r) /\ ~BadRequest(r)
  PROVE  /\ stopReading /\ ~draining /\ ~closed /\ UNCHANGED <<kind, parsed, deferred>>
         /\ Kept \/ Sent
  <1> USE DEF client, input, output, flags
  <1>1. UNCHANGED <<kind, parsed, deferred, stopReading, draining>>
    <2>1. CASE ClientSends \/ ClientLeaves BY <2>1 DEF ClientSends, ClientLeaves
    <2>2. CASE \E evs \in SUBSET {"IN", "OUT"} : Collect(evs) BY <2>2 DEF Collect
    <2>3. CASE Discard \/ Serve \/ Settle BY <2>3 DEF Discard, Serve, Settle
    <2>4. CASE DeliversAll \/ DeliversPart \/ DeliversNothing
      BY <2>4 DEF DeliversAll, DeliversPart, DeliversNothing, Delivers
    <2>5. CASE Reads \/ ReadsEof BY <2>5 DEF Reads, ReadsEof
    <2>6. CASE UNCHANGED vars BY <2>6 DEF vars
    <2>7. ~ParseHead BY DEF ParseHead, Feeding, Stopped
    <2>8. ~StopKeepAlive BY DEF StopKeepAlive
    <2> QED BY <2>1, <2>2, <2>3, <2>4, <2>5, <2>6, <2>7, <2>8 DEF Next
  <1>2. \A r \in Request, c \in BOOLEAN : ~Adds(r, c)
    <2> SUFFICES ASSUME NEW r \in Request, NEW c \in BOOLEAN, Adds(r, c) PROVE FALSE OBVIOUS
    <2>1. Begun' = Begun BY <1>1 DEF Begun
    <2>2. Begun = Last(Stream) /\ Begun' = r /\ r = Last(Stream) + 1
      BY DEF Adds, Inv, Streaming
    <2> QED BY <2>1, <2>2, ConstantsAssumption DEF ConstantsAssumption
  <1>3. Kept \/ Sent BY <1>2, StreamStep DEF Cut
  <1>4. ~closed BY <1>3 DEF Kept, Sent
  <1> QED BY <1>1, <1>3, <1>4

LEMMA EndAnnouncedStep ==
  ASSUME ConstantsAssumption, Inv, [Next]_vars PROVE EndAnnounced'
  <1> SUFFICES ASSUME stopReading', Begun' = parsed' \div 2, ~closed', ~draining'
               PROVE  kind'[Begun'] = "websocket" \/ Says(Stream')
    BY DEF EndAnnounced, Says
  <1>1. ASSUME NEW r \in Request, Dispatch(r) PROVE kind'[Begun'] = "websocket" \/ Says(Stream')
    <2>1. /\ ~stopReading /\ kind' = kind /\ deferred = 0
      BY <1>1, FeedingFacts DEF Dispatch, Dispatching, client
    <2>2. Ending(r) BY <1>1, <2>1 DEF Dispatch, Ends
    <2>3. deferred' # r
      <3>1. deferred' = 0
        BY <1>1, ConstantsAssumption, Halves DEF Begun, Inv, TypeOK, Dispatch
      <3> QED BY <3>1, ConstantsAssumption DEF ConstantsAssumption
    <2>4. PICK c \in BOOLEAN : Adds(r, c) /\ Fits(r, c) BY <1>1, <2>3, DispatchStream
    <2>5. Begun' = r /\ (Says(Stream') <=> c) BY <2>4, AddsHolds DEF Adds
    <2> QED BY <2>1, <2>2, <2>4, <2>5 DEF Fits
  <1>2. ASSUME NEW r \in Request, BadRequest(r) PROVE Says(Stream')
    <2>1. ~stopReading BY <1>2, FeedingFacts DEF BadRequest
    <2>2. ~Kept
      <3>1. /\ Feeding /\ parsed \in Nat /\ parsed % 2 = 1 /\ parsed' = parsed + 1 /\ UNCHANGED deferred
        BY <1>2 DEF BadRequest, Inv, TypeOK
      <3>2. deferred = 0 BY <3>1, FeedingFacts
      <3>3. Begun' # Begun BY <3>1, <3>2, Halves DEF Begun
      <3> QED BY <3>3 DEF Kept
    <2> QED BY <1>2, <2>2, BadStream, AddsHolds
  <1>3. CASE LateAnswer
    <2>1. ~closed BY <1>3 DEF LateAnswer
    <2>2. /\ deferred \in Request /\ stopReading /\ closeAfter
      BY <1>3, <2>1, LateFacts DEF LateAnswer, Inv, Parting
    <2>3. LateAnnounced = TRUE BY <2>2 DEF LateAnnounced, Inv, TypeOK
    <2>4. ~Kept
      <3>1. deferred' = 0 /\ parsed' = parsed /\ parsed \in Nat
        BY <1>3 DEF LateAnswer, input, Inv, TypeOK
      <3>2. Begun' # Begun BY <2>2, <3>1, ConstantsAssumption DEF Begun, ConstantsAssumption
      <3> QED BY <3>2 DEF Kept
    <2> QED BY <1>3, <2>2, <2>3, <2>4, LateStream, AddsHolds
  <1>4. CASE ~LateAnswer /\ \A r \in Request : ~Dispatch(r) /\ ~BadRequest(r)
    <2>1. /\ stopReading /\ ~draining /\ ~closed /\ UNCHANGED <<kind, parsed, deferred>>
          /\ Kept \/ Sent
      BY <1>4, QuietStep
    <2>2. Begun = parsed \div 2 /\ Begun' = Begun BY <2>1 DEF Begun
    <2>3. kind[Begun] = "websocket" \/ Says(Stream) BY <2>1, <2>2 DEF Inv, EndAnnounced, Says
    <2>4. Says(Stream') <=> Says(Stream) BY <2>1, SentHolds DEF Kept
    <2> QED BY <2>1, <2>2, <2>3, <2>4
  <1> QED BY <1>1, <1>2, <1>3, <1>4

LEMMA InvInit == ASSUME ConstantsAssumption, Init PROVE Inv
  <1>1. TypeOK BY InitType
  <1>2. Stream = <<>> /\ Len(Stream) = 0 BY DEF Init, Stream
  <1>3. Streaming
    BY <1>1, <1>2 DEF Streaming, InOrder, Linked, EndsAtClose, Finished, Paired, Last, Begun, Init
  <1>4. ~Says(Stream) BY <1>2 DEF Says
  <1>5. Owing /\ Parting BY <1>4 DEF Init, Owing, Parting, Owed
  <1>6. Tails BY DEF Init, Tails, ConstantsAssumption
  <1>7. Masks BY <1>1, <1>2 DEF Init, Masks, Pending, Resumable, Stopped, Owed, Stream
  <1>8. Events BY DEF Init, Events
  <1>9. EndAnnounced BY DEF Init, EndAnnounced
  <1> QED BY <1>1, <1>3, <1>5, <1>6, <1>7, <1>8, <1>9 DEF Init, Inv

LEMMA InvStep == ASSUME ConstantsAssumption, Inv, [Next]_vars PROVE Inv'
  <1>1. TypeOK' BY TypeStep DEF Inv
  <1> QED BY <1>1, StreamingStep, RestStep, EndAnnouncedStep DEF Inv, Rest

\* The invariant holds of every reachable state.
THEOREM Invariant == Spec => []Inv
  <1>1. Init => Inv BY InvInit, ConstantsAssumption
  <1>2. Inv /\ [Next]_vars => Inv' BY InvStep, ConstantsAssumption
  <1> QED BY <1>1, <1>2, PTL DEF Spec

-----------------------------------------------------------------------------
(* The properties.                                                         *)

\* T314: the answers of a pipelined connection go out in the order of its
\* requests, however they are written, deferred or streamed.
THEOREM AnswersInOrderHolds == Spec => []AnswersInOrder
  <1>1. Inv => AnswersInOrder BY DEF Inv, Streaming, InOrder, Last, AnswersInOrder
  <1> QED BY <1>1, Invariant, PTL

\* No answer gets between the head of a file and its body.
THEOREM FilesFollowHeadsHolds == Spec => []FilesFollowHeads
  <1>1. ASSUME Inv PROVE FilesFollowHeads
    <2>1. Linked(Stream) /\ (~closed => Finished(Stream)) BY <1>1 DEF Inv, Streaming
    <2>2. Len(Stream) \in Nat /\ (Stream = <<>> => Len(Stream) = 0)
      BY <1>1, StreamIsSeq, ConstantsAssumption DEF Inv
    <2>3. ASSUME NEW i \in 1..Len(Stream), Stream[i].what = "head", ~closed
          PROVE  i < Len(Stream) /\ ~IsHead(Stream[i + 1])
      <3>1. i # Len(Stream) BY <2>1, <2>2, <2>3 DEF Finished
      <3> QED BY <2>1, <2>2, <2>3, <3>1 DEF Finished, Paired
    <2> QED BY <2>1, <2>3 DEF Linked, FilesFollowHeads
  <1> QED BY <1>1, Invariant, PTL

\* RFC 9112: nothing follows the answer that ends the connection.
THEOREM NothingAfterCloseHolds == Spec => []NothingAfterClose
  <1>1. Inv => NothingAfterClose BY DEF Inv, Streaming, EndsAtClose, NothingAfterClose
  <1> QED BY <1>1, Invariant, PTL

\* The answer to a request that closes the connection says so.
THEOREM EndAnnouncedHolds == Spec => []EndAnnounced
  <1>1. Inv => EndAnnounced BY DEF Inv
  <1> QED BY <1>1, Invariant, PTL

\* update_interest() is never out of date where the loop waits.
THEOREM NeverDeafHolds == Spec => []NeverDeaf
  <1>1. ASSUME Inv PROVE NeverDeaf
    <2>1. watched = ~closed BY <1>1, Zenon DEF Inv, TypeOK
    <2> QED BY <1>1, <2>1 DEF Inv, Masks, NeverDeaf
  <1> QED BY <1>1, Invariant, PTL

\* What a client that does not read costs is bounded by one answer over the mark.
THEOREM TailBoundedHolds == Spec => []TailBounded
  <1>1. Inv => TailBounded BY DEF Inv, Tails, TailBounded
  <1> QED BY <1>1, Invariant, PTL

\* A client that waits is not taken for one that left.
THEOREM OnlyLeaversDroppedHolds == Spec => OnlyLeaversDropped
  <1> DEFINE Dropped == at = "event" /\ ~closed /\ closed' => peer # "open" \/ draining
  <1>1. ASSUME Inv, [Next]_vars PROVE Dropped
    <2> SUFFICES ASSUME at = "event", ~closed, closed', peer = "open", ~draining PROVE FALSE
      OBVIOUS
    <2> USE DEF client, input, output, flags
    <2>1. ~Serve
      <3> SUFFICES ASSUME Serve PROVE FALSE OBVIOUS
      <3>1. Stopped /\ (events # {} \/ Resumable) BY DEF Serve, Stays
      <3>2. "IN" \in events BY <1>1, <3>1 DEF Resumable, Inv, Events
      <3> QED BY <1>1, <3>1, <3>2 DEF Inv, Events
    <2>2. ~DeliversAll /\ ~DeliversPart /\ ~DeliversNothing
      BY DEF DeliversAll, DeliversPart, DeliversNothing, Delivers
    <2>3. ~ReadsEof /\ ~Settle /\ ~LateAnswer /\ ~StopKeepAlive /\ ~ParseHead /\ ~Reads
      BY DEF ReadsEof, Feeding, Settle, LateAnswer, StopKeepAlive, Outside, ParseHead, Reads
    <2>4. \A r \in Request : ~Dispatch(r) /\ ~BadRequest(r)
      BY DEF Dispatch, Dispatching, BadRequest, Feeding
    <2>5. ~ClientSends /\ ~ClientLeaves /\ ~Discard
      BY DEF ClientSends, ClientLeaves, Discard
    <2>6. \A evs \in SUBSET {"IN", "OUT"} : ~Collect(evs) BY DEF Collect
    <2>7. ~UNCHANGED vars BY DEF vars
    <2> QED BY <1>1, <2>1, <2>2, <2>3, <2>4, <2>5, <2>6, <2>7 DEF Next
  <1>2. Inv /\ [Next]_vars => [Dropped]_vars BY <1>1
  <1> QED BY <1>2, Invariant, PTL DEF Spec, OnlyLeaversDropped

=============================================================================

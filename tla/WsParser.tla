------------------------------ MODULE WsParser ------------------------------
(***************************************************************************)
(* The framing of WebSocket messages (websocket.cpp): the two builders     *)
(* write a frame, the push parser takes the bytes as they come, in any     *)
(* pieces, and hands on whole messages.                                    *)
(*                                                                         *)
(* The numbers of the wire format are parameters: a length below Seven - 2 *)
(* stands in the second byte, one below Radix^2 in two bytes more, any     *)
(* other in eight.  In the code Seven is 128 and Radix 256; TLC checks the *)
(* same algorithm where all three forms are short.  The first two bytes    *)
(* of a frame are pairs: the bits of each that the parser tells apart.     *)
(***************************************************************************)
EXTENDS Integers, Sequences, SequencesExt, Bitwise

CONSTANTS
    Seven,      \* 2^7: the values of the length field
    Radix,      \* 2^8: the values of a byte
    MaskBytes,  \* 4: the bytes of a mask
    Streams     \* the sequences of frames to be sent

VARIABLES
    stream,     \* the frames on their way
    pos,        \* the bytes of them that have been fed
    parser,     \* the parser
    got         \* what its handler was called with

wpVars == <<stream, pos, parser, got>>

Continuation == 0
Control(op) == op >= 8

----------------------------------------------------------------------------
(* ws_build_frame() and ws_build_client_frame().                           *)

\* A length in so many bytes, the highest first.
InBytes(len, count) ==
    [i \in 1 .. count |-> (len \div Radix^(count - i)) % Radix]

LengthForm(len) ==
    CASE len < Seven - 2                     -> [code |-> len, ext |-> <<>>]
      [] len >= Seven - 2 /\ len < Radix^2   -> [code |-> Seven - 2, ext |-> InBytes(len, 2)]
      [] OTHER                               -> [code |-> Seven - 1, ext |-> InBytes(len, 8)]

Masked(payload, mask) ==
    [i \in DOMAIN payload |-> payload[i] ^^ mask[((i - 1) % MaskBytes) + 1]]

BuildFrame(op, payload, fin) ==
    LET form == LengthForm(Len(payload))
    IN  << <<fin, op>>, <<FALSE, form.code>> >> \o form.ext \o payload

BuildClientFrame(op, payload, fin, mask) ==
    LET form == LengthForm(Len(payload))
    IN  << <<fin, op>>, <<TRUE, form.code>> >> \o form.ext \o mask \o Masked(payload, mask)

Bytes(f) == IF f.mask = <<>> THEN BuildFrame(f.op, f.payload, f.fin)
            ELSE BuildClientFrame(f.op, f.payload, f.fin, f.mask)

Wire(fs) == FlattenSeq([i \in DOMAIN fs |-> Bytes(fs[i])])

----------------------------------------------------------------------------
(* WsParser.  `out` collects the calls of the handler in one feed().       *)

Fresh == [st |-> "Header", buf |-> <<>>, fin |-> FALSE, op |-> 0, masked |-> FALSE,
          len |-> 0, mask |-> <<>>, fragOp |-> 0, frag |-> <<>>, out |-> <<>>]

\* Mutant: what is left of a read is dropped with the part that was taken.
TakenAll(p, n) == [p EXCEPT !.buf = <<>>]

Taken(p, n) == [p EXCEPT !.buf = SubSeq(@, n + 1, Len(@))]
AfterLength(p) == IF p.masked THEN "MaskKey" ELSE "Payload"

Needs(p) ==
    CASE p.st = "Header"   -> 2
      [] p.st = "ExtLen16" -> 2
      [] p.st = "ExtLen64" -> 8
      [] p.st = "MaskKey"  -> MaskBytes
      [] p.st = "Payload"  -> p.len

\* process_header()
Header(p) ==
    LET first == p.buf[1]
        second == p.buf[2]
        u == [Taken(p, 2) EXCEPT !.fin = first[1], !.op = first[2], !.masked = second[1]]
    IN  CASE second[2] < Seven - 2 -> [u EXCEPT !.len = second[2], !.st = AfterLength(u)]
          [] second[2] = Seven - 2 -> [u EXCEPT !.st = "ExtLen16"]
          [] second[2] = Seven - 1 -> [u EXCEPT !.st = "ExtLen64"]

\* process_ext_len16() and process_ext_len64()
Length(p, count) ==
    [Taken(p, count) EXCEPT
        !.len = FoldLeft(LAMBDA n, b : n * Radix + b, 0, SubSeq(p.buf, 1, count)),
        !.st = AfterLength(p)]

\* process_mask_key()
MaskKey(p) ==
    [Taken(p, MaskBytes) EXCEPT !.mask = SubSeq(p.buf, 1, MaskBytes), !.st = "Payload"]

\* deliver_frame(): control frames pass between the fragments of a message.
Deliver(p, payload) ==
    LET data == IF p.op # Continuation THEN payload ELSE p.frag \o payload
        op   == IF p.op # Continuation THEN p.op ELSE p.fragOp
    IN  CASE Control(p.op) -> [p EXCEPT !.out = Append(@, <<p.op, payload>>)]
          [] ~Control(p.op) /\ ~p.fin -> [p EXCEPT !.fragOp = op, !.frag = data]
          [] ~Control(p.op) /\ p.fin ->
                [p EXCEPT !.fragOp = op, !.frag = <<>>, !.out = Append(@, <<op, data>>)]

\* process_payload()
Payload(p) ==
    LET bytes == SubSeq(p.buf, 1, p.len)
    IN  Deliver([Taken(p, p.len) EXCEPT !.st = "Header"],
                IF p.masked THEN Masked(bytes, p.mask) ELSE bytes)

Step(p) ==
    CASE p.st = "Header"   -> Header(p)
      [] p.st = "ExtLen16" -> Length(p, 2)
      [] p.st = "ExtLen64" -> Length(p, 8)
      [] p.st = "MaskKey"  -> MaskKey(p)
      [] p.st = "Payload"  -> Payload(p)

\* process(): as long as there is enough for the next part.
RECURSIVE Process(_)
Process(p) == IF Len(p.buf) < Needs(p) THEN p ELSE Process(Step(p))

Feed(p, bytes) == Process([p EXCEPT !.buf = @ \o bytes, !.out = <<>>])

----------------------------------------------------------------------------
ParserInit ==
    /\ stream \in Streams
    /\ pos = 0
    /\ parser = Fresh
    /\ got = <<>>

\* A read hands over any number of the bytes that follow.
Read ==
    /\ \E last \in pos + 1 .. Len(Wire(stream)) :
        /\ pos' = last
        /\ parser' = Feed(parser, SubSeq(Wire(stream), pos + 1, last))
        /\ got' = got \o parser'.out
    /\ UNCHANGED stream

ParserNext == Read
ParserSpec == ParserInit /\ [][ParserNext]_wpVars

----------------------------------------------------------------------------
(* What was sent, said without a parser.                                   *)

\* The frames whose last byte has been fed.
Whole == {i \in DOMAIN stream : Len(Wire(SubSeq(stream, 1, i))) <= pos}

\* The message that ends with frame i: it begins with the last frame before that
\* names a kind of data.
Begins(i) ==
    CHOOSE j \in 1 .. i :
        /\ stream[j].op # Continuation /\ ~Control(stream[j].op)
        /\ \A k \in j + 1 .. i : stream[k].op = Continuation \/ Control(stream[k].op)

Message(i) ==
    IF Control(stream[i].op) THEN <<stream[i].op, stream[i].payload>>
    ELSE LET parts == SelectSeq(SubSeq(stream, Begins(i), i), LAMBDA f : ~Control(f.op))
         IN  <<stream[Begins(i)].op, FlattenSeq([k \in DOMAIN parts |-> parts[k].payload])>>

Ending == {i \in Whole : Control(stream[i].op) \/ stream[i].fin}
Sent == LET ends == SetToSortSeq(Ending, <) IN [k \in DOMAIN ends |-> Message(ends[k])]

\* However the bytes come in, the handler is given the messages that were sent,
\* each once its last byte is there, fragments joined, control frames in between
\* as they came (WsParser::feed on what ws_build_frame and ws_build_client_frame
\* write).
SentIsDelivered == got = Sent
=============================================================================

------------------------------ MODULE NetStream ------------------------------
(***************************************************************************)
(* Packets on their way from one connection to another: encoded into the   *)
(* sender's output stream (connection/basic.cc write, stream/codec.cc),    *)
(* pushed into the socket in pieces of any size, pulled into the           *)
(* receiver's input stream in other pieces (stream/basic.cc), and decoded  *)
(* and handled by process_command.  Both streams are dynamic rings.        *)
(***************************************************************************)
EXTENDS Ring, SequencesExt

CONSTANTS
  Packets,      \* what is sent: records [id, data, call]
  Base,         \* SIZE of a stream's ring
  MaxId, MaxLength, \* packet::limit_t
  OnceMax,      \* kOnceHandlePacketCount
  CantPeekMax,  \* kCantPeekMaxCount
  MaxSends, MaxWire, MaxLives \* bounds: packets, bytes in flight, connections (TLC only)

VARIABLES
  codec,        \* "head": encode/decode, "line": line_encode/line_decode
  o, i,         \* the sender's ostream and the receiver's istream
  wire,         \* bytes in the sockets' buffers
  sent, got,    \* packets written and packets handled, in order
  errorTimes,   \* the receiver's error_times
  closed,       \* process_command returned false: the manager removes the connection
  moved,        \* some ring grew while its indices had passed its old size
  lives         \* connections made so far

vars == <<codec, o, i, wire, sent, got, errorTimes, closed, moved, lives>>

RequestId == MaxId - 1
ResponseId == MaxId - 2
NotifyId == MaxId - 3
HeaderSize == 6

-----------------------------------------------------------------------------
(* A packet (net/packet/basic.cc, net/packet/basic.h) as operators on        *)
(* [id, data, offset, flag], and the integers in network byte order it holds *)
(* (basic/endian.h).  Every byte is a number in 0..255.                      *)

\* hton of an n-byte integer, as the bytes it leaves in memory, and ntoh.
Hton(v, n) == [k \in 1..n |-> (v \div 256^(n - k)) % 256]
Ntoh(s) == FoldLeft(LAMBDA v, b : 256 * v + b, 0, s)

Readable == "readable"
Writeable == "writeable"
CallFlags == {"request", "response", "notify"}

\* Basic(): an empty packet without flags.
NewPacket == [id |-> 0, data |-> <<>>, offset |-> 0, flag |-> {}]

\* Impl::set_flag: switching any flag off clears the readable bit.
SetFlag(p, f, on) == [p EXCEPT !.flag = IF on THEN @ \cup {f} ELSE @ \ {Readable}]

\* write(bytes, length): raw bytes, and only into a writeable packet.
WriteRaw(p, s) == IF Writeable \in p.flag THEN [p EXCEPT !.data = @ \o s] ELSE p

\* write(str) and operator<<: a four byte length, then the bytes; an empty
\* string writes nothing, an empty byte sequence its length.
WriteStr(p, s) == IF s = <<>> THEN p ELSE WriteRaw(p, Hton(Len(s), 4) \o s)
WriteBytes(p, s) == WriteRaw(p, Hton(Len(s), 4) \o s)

Left(p) == Len(p.data) - p.offset

\* read(value, length): all of it or nothing.
ReadRaw(p, n) ==
  IF Readable \notin p.flag \/ Left(p) < n THEN [p |-> p, data |-> <<>>]
  ELSE [p |-> [p EXCEPT !.offset = @ + n], data |-> SubSeq(p.data, p.offset + 1, p.offset + n)]

\* operator>> of an integer: unchanged (zero, as the callers start) on failure.
ReadInt(p, n) == LET r == ReadRaw(p, n) IN [p |-> r.p, v |-> Ntoh(r.data)]

\* read(str), read(bytes): the length is consumed even when the bytes are not there.
ReadStr(p) ==
  LET l == ReadInt(p, 4)
  IN  IF Readable \notin p.flag \/ l.v = 0 \/ Left(l.p) < l.v
      THEN [p |-> l.p, data |-> <<>>] ELSE ReadRaw(l.p, l.v)

\* remove(length): at most what is left.
RemoveFront(p, n) == [p EXCEPT !.offset = IF Left(p) < n THEN Len(p.data) ELSE @ + n]

-----------------------------------------------------------------------------
(* The codecs                                                              *)

Encode(p) == Hton(p.id, 2) \o Hton(Len(p.data), 4) \o p.data

Refused(code, r) == [code |-> code, ring |-> r, p |-> NewPacket]

CallOf(id) == CASE id = RequestId -> {"request"} [] id = ResponseId -> {"response"}
                [] id = NotifyId -> {"notify"} [] OTHER -> {}

\* The packet a decoder hands on: its bytes written, then readable.
Decoded(id, data, flags) ==
  LET w == WriteRaw(SetFlag([NewPacket EXCEPT !.id = id, !.flag = flags], Writeable, TRUE), data)
  IN  SetFlag(SetFlag(w, Writeable, FALSE), Readable, TRUE)

MutantEnoughFor(length, r) == length <= ReadAvail(r)

EnoughFor(length, r) == length + HeaderSize <= ReadAvail(r)

Decode(r) ==
  LET head == ReadOnly(r, HeaderSize)
      id == Ntoh(SubSeq(head, 1, 2))
      length == Ntoh(SubSeq(head, 3, 6))
      body == RemoveCount(r, HeaderSize)
  IN  IF Len(head) # HeaderSize THEN Refused("CantFill", r)
      ELSE IF id = 0 \/ id > MaxId \/ length > MaxLength THEN Refused("Invalid", r)
      ELSE IF ~ EnoughFor(length, r) THEN Refused("NeedRecv", r)
      ELSE [code |-> "None", ring |-> RemoveCount(body, length),
            p |-> Decoded(id, ReadOnly(body, length), CallOf(id))]

LF == 10
CR == 13
Begin == [request |-> <<99, 114>>, response |-> <<99, 111>>, notify |-> <<99, 110>>]
End == [request |-> <<114, 99>>, response |-> <<111, 99>>, notify |-> <<110, 99>>]
SizeMin == [request |-> 9, response |-> 13, notify |-> 5]

LineEncode(p) ==
  (IF p.call = "none" THEN p.data ELSE Begin[p.call] \o p.data \o End[p.call]) \o <<LF>>

\* The first call kind (in the order the code tries them) whose marks enclose the line.
MarkedAs(line) ==
  LET marked(c) == /\ Len(line) >= SizeMin[c] /\ SubSeq(line, 1, 2) = Begin[c]
                   /\ SubSeq(line, Len(line) - 1, Len(line)) = End[c]
  IN  IF marked("request") THEN {"request"}
      ELSE IF marked("response") THEN {"response"}
      ELSE IF marked("notify") THEN {"notify"} ELSE {}

LineDecode(r) ==
  LET seen == ReadOnly(r, MaxLength)
      at == {k \in 1..Len(seen) : seen[k] = LF}
      pos == CHOOSE k \in at : \A j \in at : k <= j
      whole == SubSeq(seen, 1, pos - 1)
      line == IF whole # <<>> /\ Last(whole) = CR THEN Front(whole) ELSE whole
      flags == MarkedAs(line)
  IN  IF at = {} THEN Refused(IF Len(seen) = MaxLength THEN "RunTime" ELSE "NeedRecv", r)
      ELSE [code |-> "None", ring |-> RemoveCount(r, pos),
            p |-> IF line = <<>> THEN SetFlag(NewPacket, Readable, TRUE)
                  ELSE Decoded(0, IF flags = {} THEN line ELSE SubSeq(line, 3, Len(line)), flags)]

Encoded(p) == IF codec = "head" THEN Encode(p) ELSE LineEncode(p)
DecodeNext(r) == IF codec = "head" THEN Decode(r) ELSE LineDecode(r)

-----------------------------------------------------------------------------
Init ==
  /\ codec \in {"head", "line"}
  /\ o = NewRing(Base) /\ i = NewRing(Base)
  /\ wire = <<>> /\ sent = <<>> /\ got = <<>>
  /\ errorTimes = 0 /\ closed = FALSE /\ moved = FALSE /\ lives = 1

\* Growing in place moves what the indices mean unless the head is still
\* within the old size.
Displaced(r, s) == s.size # r.size /\ ReadAvail(r) > 0 /\ r.head > r.size

\* Basic::send: the encoded packet is written to the output stream, all of it.
Send(p) ==
  LET w == Write(o, Encoded(p), TRUE, TRUE)
  IN  /\ ~ closed /\ Len(sent) < MaxSends
      /\ o' = w.ring
      /\ sent' = IF w.n = Len(Encoded(p)) THEN Append(sent, p) ELSE sent
      /\ moved' = (moved \/ Displaced(o, w.ring))
      /\ UNCHANGED <<codec, i, wire, got, errorTimes, closed, lives>>

\* stream::Basic::push: the socket takes the first n of the bytes peeked and
\* the ring drops as many.
Push(n) ==
  /\ ~ closed /\ n <= ReadAvail(o) /\ Len(wire) + n <= MaxWire
  /\ wire' = wire \o ReadOnly(o, n)
  /\ o' = RemoveCount(o, n)
  /\ UNCHANGED <<codec, i, sent, got, errorTimes, closed, moved, lives>>

\* stream::Basic::pull: recv returns the first n bytes and the ring takes them.
Pull(n) ==
  LET w == Write(i, SubSeq(wire, 1, n), FALSE, TRUE)
  IN  /\ ~ closed /\ n <= Len(wire)
      /\ wire' = SubSeq(wire, n + 1, Len(wire))
      /\ i' = w.ring
      /\ moved' = (moved \/ Displaced(i, w.ring))
      /\ UNCHANGED <<codec, o, sent, got, errorTimes, closed, lives>>

\* One turn of process_command's loop; a = [ring, got, end].
Handle(a) ==
  LET d == DecodeNext(a.ring)
  IN  IF a.end # "run" THEN a
      ELSE IF d.code # "None" THEN [a EXCEPT !.end = d.code]
      ELSE [ring |-> d.ring, got |-> Append(a.got, d.p),
            end |-> IF ReadAvail(d.ring) = 0 THEN "done" ELSE "run"]

\* process_command: at most OnceMax packets, each decoded and handled.
ProcessCommand ==
  LET turns == FoldLeft(LAMBDA a, k : Handle(a),
                        [ring |-> i, got |-> got, end |-> "run"], [k \in 1..OnceMax |-> k])
  IN  /\ ~ closed /\ ReadAvail(i) > 0
      /\ IF errorTimes >= CantPeekMax
         THEN closed' = TRUE /\ UNCHANGED <<i, got, errorTimes>>
         ELSE /\ i' = turns.ring /\ got' = turns.got
              /\ errorTimes' = CASE turns.end = "CantFill" -> errorTimes + 1
                                 [] turns.end \in {"run", "done"} -> 0
                                 [] OTHER -> errorTimes
              /\ closed' = (turns.end \in {"Invalid", "RunTime"})
      /\ UNCHANGED <<codec, o, wire, sent, moved, lives>>

\* on_disconnect of both ends, and init when the manager hands the connection
\* out again: the streams are cleared and keep their size; error_times stays.
Reconnect ==
  /\ lives < MaxLives /\ sent # <<>>
  /\ lives' = lives + 1
  /\ o' = ConsumerClear(o) /\ i' = ConsumerClear(i)
  /\ wire' = <<>> /\ sent' = <<>> /\ got' = <<>>
  /\ moved' = FALSE /\ closed' = FALSE
  /\ UNCHANGED <<codec, errorTimes>>

Next ==
  \/ \E p \in Packets : Send(p)
  \/ \E n \in 1..MaxWire : Push(n) \/ Pull(n)
  \/ ProcessCommand
  \/ Reconnect

Spec == Init /\ [][Next]_vars

-----------------------------------------------------------------------------
RingOK(r) == /\ r.size \in {Base * 2^k : k \in Doublings}
             /\ DOMAIN r.cell = 0..r.size-1
             /\ 0 <= r.tail /\ r.tail <= r.head /\ r.head <= r.tail + r.size

TypeOK == /\ RingOK(o) /\ RingOK(i)
          /\ Len(wire) <= MaxWire
          /\ errorTimes \in 0..CantPeekMax

\* What the receiver's handler sees of a packet p that was sent: its bytes and
\* its kind.  A call on the line codec keeps the end mark behind its bytes.
Shows(q, p) ==
  /\ q.data = p.data \/ (codec = "line" /\ p.call # "none" /\ q.data = p.data \o End[p.call])
  /\ q.flag \cap CallFlags = (IF p.call = "none" THEN {} ELSE {p.call})
  /\ Readable \in q.flag /\ (codec = "head" => q.id = p.id)

\* However the sockets cut the byte stream, the packets handled are the first
\* ones sent, unchanged and in order, and the bytes in the two streams and in
\* flight are exactly the encodings of the others; only a connection whose ring
\* grew after its indices had passed the ring's size is refused as invalid.
PacketsIntact ==
  moved \/ /\ Len(got) <= Len(sent)
           /\ \A k \in 1..Len(got) : Shows(got[k], sent[k])
           /\ Contents(i) \o wire \o Contents(o) =
                FlattenSeq([k \in 1..(Len(sent) - Len(got)) |-> Encoded(sent[Len(got) + k])])
           /\ closed => errorTimes >= CantPeekMax

\* The same without the exception for a ring that grew in place: does not hold
\* (DynamicRing::resize leaves the cells where they are).
PacketsIntactOnGrowth == moved => Contents(i) \o wire \o Contents(o) =
  FlattenSeq([k \in 1..(Len(sent) - Len(got)) |-> Encoded(sent[Len(got) + k])])
=============================================================================

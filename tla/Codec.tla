-------------------------------- MODULE Codec --------------------------------
(***************************************************************************)
(* Frames and payloads on the wire (protocol/frame.go, protocol/codec.go): *)
(* pure functions on sequences of bytes.                                   *)
(*                                                                         *)
(* A byte is a digit to the base Base, and the integers of 16, 32 and 64   *)
(* bits take Len16, Len32 and Len64 digits, little-endian: small numbers   *)
(* keep every check on lengths and still make all inputs enumerable.  The  *)
(* two bytes of the magic number are one.  What Go would answer with a     *)
(* panic is the error "panic".                                             *)
(***************************************************************************)
EXTENDS Integers, Sequences, SequencesExt

CONSTANTS
    Base,           \* number of values of a byte
    Len16, Len32, Len64,
    IntMax,         \* largest Go int: less than a u32 can hold on 32 bits
    MaxPayload,
    Magic, Version

\* Base to the power of n.
Power[n \in Nat] == IF n = 0 THEN 1 ELSE Base * Power[n - 1]

ASSUME CodecAssumption ==
    /\ Base \in Nat \ {0, 1}
    /\ Len16 \in Nat \ {0} /\ Len32 \in Nat \ {0} /\ Len64 \in Nat \ {0}
    /\ IntMax \in Nat /\ MaxPayload \in 0 .. IntMax
    /\ Len64 + Len32 <= MaxPayload /\ MaxPayload < Power[Len32]
    /\ {Magic, Version} \subseteq 0 .. Base - 1

Byte == 0 .. Base - 1
MetaLen == Len64 + Len32           \* offset and length of a pushed message
MaxMessage == MaxPayload - MetaLen

OpCreateTopic == 1
OpPublish == 2
OpSubscribe == 3
OpMessage == 4
OpError == 5
OpPublishBatch == 6
OpPublishNoAck == 7
OpListTopics == 8
HeaderLen == 3 + Len32

-----------------------------------------------------------------------------
\* Integers

\* binary.LittleEndian.PutUint16, -32, -64
Put(n, width) == [i \in 1 .. width |-> (n \div Power[i - 1]) % Base]
Number(bytes) == FoldRight(LAMBDA digit, rest : digit + Base * rest, bytes, 0)
At(p, pos, width) == Number(SubSeq(p, pos + 1, pos + width))

\* The conversion of a u32 to an int.
ToInt(n) == IF n > IntMax THEN n - Power[Len32] ELSE n

-----------------------------------------------------------------------------
\* Encoders

PutString(s) == Put(Len(s), Len32) \o s
PutStrings(ss) == Put(Len(ss), Len32) \o FlattenSeq([i \in DOMAIN ss |-> PutString(ss[i])])

EncodePublish(topic, payload) == PutString(topic) \o PutString(payload)
EncodePublishBatch(topic, payloads) == PutString(topic) \o PutStrings(payloads)
EncodeMessage(offset, payload) == Put(offset, Len64) \o PutString(payload)
EncodeTopics(names) == PutStrings(names)
EncodeError(code, msg) == Put(code, Len16) \o PutString(msg)
EncodePublishAck(first, count) == Put(first, Len64) \o Put(count, Len32)
MarshalOffset(offset) == Put(offset, Len64)

-----------------------------------------------------------------------------
\* Decoders: a scan has an error, a position, the fields found so far, and
\* the number of fields it has reserved room for

From(pos) == [err |-> "none", pos |-> pos, fields |-> <<>>, room |-> 0]
Fail(scan, why) == [scan EXCEPT !.err = why, !.fields = <<>>]

\* A field of n bytes is not there (and what a slip would make of the check).
CutOneLate(n, left) == n > left + 1
Cut(n, left) == n > left

\* p[pos : pos+int(n)]
Slice(p, scan, pos, n) ==
    LET end == pos + ToInt(n)
    IN  IF pos <= end /\ end <= Len(p)
        THEN [scan EXCEPT !.pos = end, !.fields = Append(@, SubSeq(p, pos + 1, end))]
        ELSE Fail(scan, "panic")

\* A length and as many bytes.
GetString(p, scan) ==
    LET pos == scan.pos + Len32
        n == At(p, scan.pos, Len32)
    IN  CASE scan.err # "none" -> scan
          [] scan.err = "none" /\ Len(p) < pos -> Fail(scan, "truncated")
          [] scan.err = "none" /\ Len(p) >= pos ->
                IF Cut(n, Len(p) - pos) THEN Fail(scan, "truncated")
                                        ELSE Slice(p, scan, pos, n)

\* A count of fields that the rest has no room for.
TooFew(count, left) == count > left \div Len32

\* A count and as many fields.
GetStrings(p, scan) ==
    LET pos == scan.pos + Len32
        count == At(p, scan.pos, Len32)
        fields == [i \in 1 .. count |-> i]
        reserved == [scan EXCEPT !.pos = pos, !.room = count]
    IN  CASE scan.err # "none" -> scan
          [] scan.err = "none" /\ Len(p) < pos -> Fail(scan, "truncated")
          [] scan.err = "none" /\ Len(p) >= pos ->
                IF TooFew(count, Len(p) - pos) THEN Fail(scan, "truncated")
                ELSE FoldLeft(LAMBDA s, i : GetString(p, s), reserved, fields)

\* Fixed-width fields of length n at the beginning.
Skip(p, n) == IF Len(p) < n THEN Fail(From(0), "truncated") ELSE From(n)

DecodePublish(p) == GetString(p, GetString(p, From(0)))
DecodePublishBatch(p) == GetStrings(p, GetString(p, From(0)))
DecodeMessage(p) == GetString(p, Skip(p, Len64))
DecodeTopics(p) == GetStrings(p, From(0))
DecodeError(p) == GetString(p, Skip(p, Len16))
DecodePublishAck(p) == Skip(p, MetaLen)
UnmarshalOffset(p) == Skip(p, Len64)

-----------------------------------------------------------------------------
\* Frames

Header(op, n) == <<Magic, Version, op>> \o Put(n, Len32)
EncodeFrame(op, payload) == Header(op, Len(payload)) \o payload

\* The length of a frame is refused.
TooLongAsInt(n) == ToInt(n) > MaxPayload
TooLong(n) == n > MaxPayload

\* ReadHeader: an error, or the opcode and the length of the payload.
ReadHeader(stream) ==
    LET n == At(stream, 3, Len32)
        Result(err) == [err |-> err, op |-> 0, n |-> 0]
    IN  CASE Len(stream) < HeaderLen -> Result("truncated")
          [] Len(stream) >= HeaderLen ->
                CASE stream[1] # Magic -> Result("magic")
                  [] stream[1] = Magic /\ stream[2] # Version -> Result("version")
                  [] stream[1] = Magic /\ stream[2] = Version ->
                        IF TooLong(n) THEN Result("toolarge")
                        ELSE [err |-> "none", op |-> stream[3], n |-> ToInt(n)]

\* ReadFrame on all that the stream will ever give: an error, or the opcode
\* and the payload of its first frame.
ReadFrame(stream) ==
    LET header == ReadHeader(stream)
        Result(err) == [err |-> err, op |-> 0, payload |-> <<>>]
    IN  IF header.err # "none" THEN Result(header.err)
        ELSE IF header.n < 0 THEN Result("panic")
        ELSE IF Len(stream) < HeaderLen + header.n THEN Result("truncated")
        ELSE [err |-> "none", op |-> header.op,
              payload |-> SubSeq(stream, HeaderLen + 1, HeaderLen + header.n)]

\* What is left of the stream behind its first frame.
AfterFrame(stream) ==
    SubSeq(stream, HeaderLen + Len(ReadFrame(stream).payload) + 1, Len(stream))

\* WriteFrame and the writers that spare a copy (WritePublish, WritePublishBatch):
\* all of them put one frame on the stream, or refuse its length and put nothing.
Fits(payload) == Len(payload) <= MaxPayload

=============================================================================

-------------------------------- MODULE Push --------------------------------
(***************************************************************************)
(* The path of messages to subscribers: Server.stream reads the log batch  *)
(* by batch, WriteMessageBatch writes a batch with one vectored write from *)
(* pooled headers, Subscription.Read takes the frames apart again.         *)
(* Together with the requests of Requests.tla this is all that is on the   *)
(* wire between the clients and the server.                                *)
(***************************************************************************)
EXTENDS Requests

CONSTANTS
    Headers,        \* the buffers of msgHeaderPool
    NoHeader,
    StreamBatch,    \* the constant batch of stream: 64
    MaxLog,         \* bound: messages of a topic before a further publish
    Cuts            \* bound: bytes of a buffer that go out before a write fails

ASSUME PushAssumption ==
    NoHeader \notin Headers /\ StreamBatch \in Nat \ {0} /\ MaxLog \in Nat /\ Cuts \subseteq Nat

VARIABLES
    step,       \* step[c]: where stream stands: read, fill, write
    cursor,     \* cursor[c]: offset of the subscription
    todo,       \* todo[c]: offsets of the batch that have no header yet
    bufs,       \* bufs[c]: net.Buffers, what is left to be written
    hdrs,       \* hdrs[c]: headers that the batch uses
    free,       \* headers in the pool, or not allocated yet
    head,       \* head[h]: the bytes in header h
    got,        \* got[c]: all that Subscription.Read has returned
    last        \* last[c]: the error it returned, or none

streamVars == <<step, cursor, todo, bufs, hdrs>>
poolVars == <<free, head>>
readerVars == <<got, last>>
pushVars == <<streamVars, poolVars, readerVars>>
vars == <<requestVars, pushVars>>

PushInit ==
    /\ Init
    /\ step = [c \in Conns |-> "read"]
    /\ cursor = [c \in Conns |-> 0]
    /\ todo = [c \in Conns |-> <<>>]
    /\ bufs = [c \in Conns |-> <<>>]
    /\ hdrs = [c \in Conns |-> {}]
    /\ free = Headers
    /\ head = [h \in Headers |-> <<>>]
    /\ got = [c \in Conns |-> <<>>]
    /\ last = [c \in Conns |-> "none"]

Log(c) == topics[subject[c]]

-----------------------------------------------------------------------------
\* Pieces, some after what a slip would make of them

\* The header of a pushed message of n bytes.
MessageHeader(offset, n) ==
    Header(OpMessage, MetaLen + n) \o Put(offset, Len64) \o Put(n, Len32)

\* A buffer is a header, which is not copied, or a payload.
HeaderBuf(h) == [head |-> h, data |-> <<>>]
PayloadBuf(p) == [head |-> NoHeader, data |-> p]
Bytes(buf) == IF buf.head = NoHeader THEN buf.data ELSE head[buf.head]

\* What happens to the headers while the batch is being written.
ReleaseEarly(c) ==
    free' = free \union hdrs[c] /\ hdrs' = [hdrs EXCEPT ![c] = {}]
KeepHeaders(c) == UNCHANGED <<free, hdrs>>

Release(c) ==
    /\ free' = free \union hdrs[c]
    /\ hdrs' = [hdrs EXCEPT ![c] = {}]

\* The largest message that is pushed.
CanPush(payload) == Len(payload) <= MaxMessage

\* How the stream goes on behind a batch that it could not write.
GivesUpBatch(c) == UNCHANGED phase
End(c) == phase' = [phase EXCEPT ![c] = "ended"]

-----------------------------------------------------------------------------
\* Server.stream and WriteMessageBatch

\* sub.Read
ReadBatch(c) ==
    /\ phase[c] = "push" /\ step[c] = "read"
    /\ open /\ cursor[c] < Len(Log(c))
    /\ \E end \in {Len(Log(c)), cursor[c] + StreamBatch} :
          /\ end <= Len(Log(c)) /\ end <= cursor[c] + StreamBatch
          /\ todo' = [todo EXCEPT ![c] = [i \in 1 .. end - cursor[c] |-> cursor[c] + i - 1]]
          /\ cursor' = [cursor EXCEPT ![c] = end]
    /\ step' = [step EXCEPT ![c] = "fill"]
    /\ UNCHANGED <<requestVars, bufs, hdrs, poolVars, readerVars>>

\* sub.Read returns ErrClosed: stream and handler return.
StreamEnds(c) ==
    /\ phase[c] = "push" /\ step[c] = "read"
    /\ ~open
    /\ End(c)
    /\ UNCHANGED <<scenario, brokerVars, clientVars, wireVars, subject, asked, verdict, pushVars>>

\* One message of the batch gets a header from the pool.
FillHeader(c, h) ==
    LET offset == Head(todo[c])
        payload == Log(c)[offset + 1].Payload
    IN  /\ phase[c] = "push" /\ step[c] = "fill"
        /\ CanPush(payload)
        /\ h \in free
        /\ free' = free \ {h}
        /\ hdrs' = [hdrs EXCEPT ![c] = @ \union {h}]
        /\ head' = [head EXCEPT ![h] = MessageHeader(offset, Len(payload))]
        /\ bufs' = [bufs EXCEPT ![c] = @ \o <<HeaderBuf(h), PayloadBuf(payload)>>]
        /\ todo' = [todo EXCEPT ![c] = Tail(@)]
        /\ step' = [step EXCEPT ![c] = IF todo'[c] = <<>> THEN "write" ELSE "fill"]
        /\ UNCHANGED <<requestVars, cursor, readerVars>>

\* One message is too large: the whole batch is refused, the peer gets a last
\* word, the stream ends.
RefuseBatch(c) ==
    /\ phase[c] = "push" /\ step[c] = "fill"
    /\ ~CanPush(Log(c)[Head(todo[c]) + 1].Payload)
    /\ Release(c)
    /\ todo' = [todo EXCEPT ![c] = <<>>]
    /\ bufs' = [bufs EXCEPT ![c] = <<>>]
    /\ step' = [step EXCEPT ![c] = "read"]
    /\ down' = [down EXCEPT ![c] = @ \o Response(OpError, "toolarge", <<>>)]
    /\ End(c)
    /\ UNCHANGED <<scenario, brokerVars, clientVars, up, subject, asked, verdict,
                   cursor, head, readerVars>>

\* net.Buffers.WriteTo: the next buffer goes out ...
WriteBuffer(c) ==
    /\ phase[c] = "push" /\ step[c] = "write" /\ bufs[c] # <<>>
    /\ down' = [down EXCEPT ![c] = @ \o Bytes(Head(bufs[c]))]
    /\ bufs' = [bufs EXCEPT ![c] = Tail(@)]
    /\ KeepHeaders(c)
    /\ UNCHANGED <<scenario, brokerVars, clientVars, up, serverVars,
                   step, cursor, todo, head, readerVars>>

\* ... or a part of it, and the connection is lost: whole frames and a torn
\* one are left behind.
WriteFails(c) ==
    /\ phase[c] = "push" /\ step[c] = "write" /\ bufs[c] # <<>>
    /\ \E n \in Cuts :
          /\ n < Len(Bytes(Head(bufs[c]))) \/ n = 0
          /\ down' = [down EXCEPT ![c] = @ \o SubSeq(Bytes(Head(bufs[c])), 1, n)]
    /\ bufs' = [bufs EXCEPT ![c] = <<>>]
    /\ Release(c)
    /\ step' = [step EXCEPT ![c] = "read"]
    /\ End(c)
    /\ UNCHANGED <<scenario, brokerVars, clientVars, up, subject, asked, verdict,
                   cursor, todo, head, readerVars>>

BatchWritten(c) ==
    /\ phase[c] = "push" /\ step[c] = "write" /\ bufs[c] = <<>>
    /\ Release(c)
    /\ step' = [step EXCEPT ![c] = "read"]
    /\ UNCHANGED <<requestVars, cursor, todo, bufs, head, readerVars>>

-----------------------------------------------------------------------------
\* Subscription.Read

\* What a frame says to the reader.
Pushed(frame) ==
    LET message == DecodeMessage(frame.payload)
    IN  IF message.err # "none" THEN [err |-> "malformed", msg |-> <<>>]
        ELSE [err |-> "none",
              msg |-> <<[Offset |-> At(frame.payload, 0, Len64), Payload |-> message.fields[1]]>>]
Received(frame) ==
    CASE frame.err # "none" -> [err |-> frame.err, msg |-> <<>>]
      [] frame.err = "none" /\ frame.op = OpMessage -> Pushed(frame)
      [] frame.err = "none" /\ frame.op = OpError -> [err |-> ErrorIn(frame.payload), msg |-> <<>>]
      [] frame.err = "none" /\ frame.op \notin {OpMessage, OpError} ->
            [err |-> "unexpected", msg |-> <<>>]

Pull(c) ==
    LET frame == ReadFrame(down[c])
        received == Received(frame)
    IN  /\ pc[c] = "streaming" /\ last[c] = "none"
        /\ frame.err = "truncated" => phase[c] = "ended"
        /\ got' = [got EXCEPT ![c] = @ \o received.msg]
        /\ last' = [last EXCEPT ![c] = received.err]
        /\ down' = [down EXCEPT ![c] = IF frame.err = "none" THEN AfterFrame(@) ELSE <<>>]
        /\ UNCHANGED <<scenario, brokerVars, clientVars, up, serverVars, streamVars, poolVars>>

-----------------------------------------------------------------------------
\* The server's own process

\* Broker.Publish by a caller in the process: no limit on the payload.
PublishLocally(t, payload) ==
    /\ <<t, payload>> \in Here.local
    /\ open /\ t \in DOMAIN topics /\ Len(topics[t]) < MaxLog
    /\ topics' = [topics EXCEPT ![t] = @ \o Messages(<<payload>>, FALSE)]
    /\ UNCHANGED <<scenario, open, clientVars, wireVars, serverVars, pushVars>>

CloseBroker ==
    /\ open
    /\ open' = FALSE
    /\ UNCHANGED <<scenario, topics, clientVars, wireVars, serverVars, pushVars>>

-----------------------------------------------------------------------------

HandlerStep(c) == (Serve(c) \/ Reject(c) \/ Ignore(c)) /\ UNCHANGED pushVars
StreamStep(c) ==
    \/ ReadBatch(c) \/ StreamEnds(c) \/ RefuseBatch(c) \/ WriteBuffer(c) \/ BatchWritten(c)
    \/ \E h \in Headers : FillHeader(c, h)
ClientStep(c) == (Return(c) /\ UNCHANGED pushVars) \/ Pull(c)

Next ==
    \/ \E c \in Conns :
          \/ HandlerStep(c) \/ StreamStep(c) \/ ClientStep(c) \/ WriteFails(c)
          \/ \E k \in Here.calls : Call(c, k) /\ UNCHANGED pushVars
          \/ \E header \in Here.forged : Forge(c, header) /\ UNCHANGED pushVars
          \/ \E b \in Noise : Scribble(c, b) /\ UNCHANGED pushVars
          \/ Leave(c) /\ UNCHANGED pushVars
    \/ \E m \in Here.local : PublishLocally(m[1], m[2])
    \/ CloseBroker

Spec == PushInit /\ [][Next]_vars

=============================================================================

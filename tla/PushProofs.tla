----------------------------- MODULE PushProofs -----------------------------
(***************************************************************************)
(* The safety of the wire for any number of connections, any widths of the *)
(* integers, any scenarios, pool and batches.                              *)
(***************************************************************************)
EXTENDS PushProps, CodecProofs

-----------------------------------------------------------------------------
\* The inductive invariant, and what it is made of

\* The wire carries numbers, the logs hold messages, and no stranger sends more
\* than an int can count.
Entry == [Payload : Seq(Nat), remote : BOOLEAN]
DataInv ==
    /\ scenario \in DOMAIN Scenarios
    /\ \A t \in DOMAIN topics : topics[t] \in Seq(Entry)
    /\ pc \in [Conns -> {"idle", "waiting", "streaming", "forging", "gone"}]
    /\ up \in [Conns -> Seq(Nat)]
    /\ \A c \in Conns : pc[c] \in {"forging", "gone"} =>
          up[c] \in Seq(Byte) /\ Len(up[c]) <= HeaderLen + IntMax

\* A stream reads the log of a topic there is, as far as it goes.
StreamInv ==
    /\ phase \in [Conns -> {"request", "push", "ended"}]
    /\ subject \in [Conns -> Seq(Nat)]
    /\ step \in [Conns -> {"read", "fill", "write"}]
    /\ cursor \in [Conns -> Nat]
    /\ todo \in [Conns -> Seq(Nat)]
    /\ \A c \in Conns :
          /\ phase[c] = "push" =>
                /\ subject[c] \in DOMAIN topics
                /\ \A i \in DOMAIN todo[c] : todo[c][i] < Len(Log(c))
          /\ phase[c] = "request" => todo[c] = <<>>
          /\ step[c] = "fill" => todo[c] # <<>>

\* The headers and the buffers of the batches.
Buffer == [head : Headers \union {NoHeader}, data : Seq(Nat)]
PoolInv ==
    /\ free \subseteq Headers
    /\ hdrs \in [Conns -> SUBSET Headers]
    /\ bufs \in [Conns -> Seq(Buffer)]

\* The frames of the messages of a log with offsets from i to below j, and the
\* bytes of a batch that are still to be written.
PushFrame(offset, payload) == EncodeFrame(OpMessage, EncodeMessage(offset, payload))
Frames(log, i, j) ==
    FlattenSeq([m \in 1 .. j - i |-> PushFrame(i + m - 1, log[i + m].Payload)])
Pending(c) == FlattenSeq([m \in DOMAIN bufs[c] |-> Bytes(bufs[c][m])])

\* The answer to a subscription, and the last word to a peer that is cut off.
SubscribeOk == EncodeFrame(OpSubscribe, <<>>)
LastWord == Response(OpError, "toolarge", <<>>)

\* Where the stream stands in the log, and the offsets it has still to fill in.
Stand(c) == cursor[c] - Len(todo[c])
Batch(c) ==
    /\ \A m \in DOMAIN todo[c] : todo[c][m] = Stand(c) + m - 1
    /\ step[c] # "fill" => todo[c] = <<>>
    /\ step[c] = "read" => bufs[c] = <<>>

\* Bytes x on the wire, and the rest of the batch behind them, are the messages
\* from offset i to where the stream stands at j; while a batch is being filled
\* they are whole frames.
Pushing(log, stage, x, rest, i, j) ==
    /\ i <= j /\ j <= Len(log)
    /\ \A m \in 1 .. j : CanPush(log[m].Payload)
    /\ x \o rest = Frames(log, i, j)
    /\ stage = "read" => rest = <<>>
    /\ stage = "fill" => \E m \in i .. j : x = Frames(log, i, m)

\* A stream that has ended leaves whole frames and a torn one, or a last word.
Ended(log, x, i) ==
    \E j \in i .. Len(log) :
        /\ \A m \in 1 .. j : CanPush(log[m].Payload)
        /\ IsPrefix(x, Frames(log, i, j)) \/ x = Frames(log, i, j) \o LastWord

\* Where a call of connection c is, with what is on the wire then: there is none;
\* its frame is under way; its answer is; it was ignored; it was too long;
\* it is a subscription that was granted.
Resting(c) == pc[c] = "idle" /\ phase[c] = "request" /\ up[c] = <<>> /\ down[c] = <<>>

Sent(c) ==
    /\ call[c] \in Here.calls
    /\ Refusal(call[c]) = "none"
    /\ pc[c] = IF call[c].op = OpPublishNoAck THEN "idle" ELSE "waiting"
    /\ phase[c] = "request"
    /\ up[c] = EncodeFrame(call[c].op, Body(call[c])) /\ down[c] = <<>>
    /\ asked[c] = NoCall /\ verdict[c] = NoAnswer

\* The parts of an answer that the operation has use for.
WellAnswered(k, v) ==
    \/ /\ v.err \in Sentinels \ {"none"}
       /\ v = Answer(v.err)
    \/ /\ k.op \in {OpCreateTopic, OpSubscribe}
       /\ v = Answer("none")
    \/ /\ k.op \in {OpPublish, OpPublishBatch}
       /\ v = [Answer("none") EXCEPT !.offset = v.offset]
       /\ v.offset \in Nat /\ v.offset < Power[Len64]
    \/ /\ k.op = OpListTopics
       /\ v = [Answer("none") EXCEPT !.names = v.names]
       /\ v.names \in Seq(Seq(Nat)) /\ Fits(EncodeTopics(v.names))

Answered(c) ==
    LET k == call[c]
        v == verdict[c]
    IN  /\ pc[c] = "waiting" /\ phase[c] = "request" /\ up[c] = <<>>
        /\ k \in Here.calls
        /\ k.op \in {OpCreateTopic, OpSubscribe, OpPublish, OpPublishBatch, OpListTopics}
        /\ k.op = OpPublishBatch => Len(k.payloads) <= MaxPayload
        /\ WellAnswered(k, v)
        /\ k.op = OpSubscribe => v.err # "none"
        /\ down[c] = Response(k.op, v.err, IF v.err = "none" THEN ResponseBody(k, v) ELSE <<>>)

Ignored(c) == pc[c] = "waiting" /\ phase[c] = "request" /\ up[c] = <<>> /\ down[c] = <<>>

Rejected(c) ==
    /\ phase[c] = "ended" /\ up[c] = <<>> /\ verdict[c] = Answer("toolarge")
    /\ pc[c] = "waiting" => down[c] = LastWord
    /\ pc[c] \in {"waiting", "idle"}

\* What is behind the answer to a subscription.
Behind(c) == IF pc[c] = "waiting" THEN AfterFrame(down[c]) ELSE down[c]

Granted(c) ==
    /\ pc[c] \in {"waiting", "streaming"}
    /\ phase[c] \in {"push", "ended"} /\ up[c] = <<>>
    /\ call[c].op = OpSubscribe /\ verdict[c] = Answer("none")
    /\ subject[c] = call[c].topic /\ subject[c] \in DOMAIN topics
    /\ Behind(c) \in Seq(Nat)
    /\ pc[c] = "waiting" => down[c] = SubscribeOk \o Behind(c)
    /\ phase[c] = "push" =>
          /\ Batch(c)
          /\ Pushing(Log(c), step[c], Behind(c), Pending(c), Len(got[c]), Stand(c))
    /\ last[c] = "none" /\ phase[c] = "ended" => Ended(Log(c), Behind(c), Len(got[c]))
    /\ last[c] # "none" => phase[c] = "ended"

Exchange(c) ==
    pc[c] \notin {"forging", "gone"} =>
        \/ Resting(c) \/ Sent(c) \/ Answered(c) \/ Ignored(c) \/ Rejected(c) \/ Granted(c)

\* What a connection has is a function; a broker has finitely many topics; a
\* connection that is no stream yet has not begun one.
Piece == [Offset : Nat, Payload : Seq(Nat)]
ConnsInv ==
    /\ call \in [Conns -> Here.calls \union {NoCall}]
    /\ asked = [c \in Conns |-> asked[c]]
    /\ verdict = [c \in Conns |-> verdict[c]]
    /\ result = [c \in Conns |-> result[c]]
    /\ down = [c \in Conns |-> down[c]]
    /\ got \in [Conns -> Seq(Piece)]
    /\ head \in [Headers -> Seq(Nat)]
    /\ last = [c \in Conns |-> last[c]]
    /\ IsFiniteSet(DOMAIN topics) /\ DOMAIN topics \subseteq Seq(Nat)
    /\ \A c \in Conns : phase[c] = "request" =>
          step[c] = "read" /\ cursor[c] = 0 /\ bufs[c] = <<>>

\* What a subscriber has been given.
Reader(c) ==
    /\ pc[c] # "streaming" => got[c] = <<>> /\ last[c] = "none"
    /\ Len(got[c]) <= IF pc[c] = "streaming" THEN Len(Log(c)) ELSE 0
    /\ \A i \in DOMAIN got[c] :
          got[c][i] = [Offset |-> i - 1, Payload |-> Log(c)[i].Payload]
    /\ last[c] \in {"none", "truncated", "toolarge"}

\* What the two histories and the result of a call say of each other and of the
\* topics.
Reported(v) == [v EXCEPT !.err = IF @ \in Sentinels THEN @ ELSE "text"]
History(c) ==
    LET k == call[c]
        v == verdict[c]
    IN  pc[c] \notin {"forging", "gone"} =>
            /\ asked[c] # NoCall => asked[c] = [k EXCEPT !.lib = TRUE]
            /\ v = [err |-> v.err, offset |-> v.offset, names |-> v.names]
            /\ v.err = "none" /\ k.op \notin {OpPublishNoAck, OpListTopics} =>
                  k.topic \in DOMAIN topics
            /\ v.err = "none" /\ k.op \in {OpPublish, OpPublishBatch} =>
                  /\ v.offset \in Nat /\ v.offset + Len(k.payloads) <= Len(topics[k.topic])
                  /\ SubSeq(topics[k.topic], v.offset + 1, v.offset + Len(k.payloads))
                        = Messages(k.payloads, TRUE)
            /\ pc[c] = "waiting" => result[c] = NoAnswer
            /\ pc[c] # "waiting" /\ v # NoAnswer /\ k.op # OpPublishNoAck =>
                  result[c] = Reported(v)
            /\ v = NoAnswer /\ k.op # OpPublishNoAck => result[c].err # "none"

\* The offsets of every log fit into the 64 bits that they have on the wire.
LogsFit == \A t \in DOMAIN topics : Len(topics[t]) < Power[Len64]

ExchangeInv == \A c \in Conns : Exchange(c) /\ Reader(c) /\ History(c)

-----------------------------------------------------------------------------

-----------------------------------------------------------------------------
\* What a step does to the logs

\* Nothing, or a new topic, or a batch at the end of one log: one that could be
\* pushed, if it came over the network.
LogStep ==
    \/ topics' = topics
    \/ \E t \in Seq(Nat) : t \notin DOMAIN topics
          /\ topics' = [u \in DOMAIN topics \union {t} |-> IF u = t THEN <<>> ELSE topics[u]]
    \/ \E t \in DOMAIN topics : \E payloads \in Seq(Seq(Nat)) : \E remote \in BOOLEAN :
          /\ remote => Pushable(payloads)
          /\ topics' = [topics EXCEPT ![t] = @ \o Messages(payloads, remote)]

\* A request that was understood is what its type says.
LEMMA UnderstoodProperties ==
    ASSUME NEW op \in {OpCreateTopic, OpPublish, OpSubscribe, OpPublishBatch,
                       OpPublishNoAck, OpListTopics},
           NEW payload \in Seq(Nat)
    PROVE  LET r == Understood(op, payload).request
           IN  r.op = op /\ r.topic \in Seq(Nat) /\ r.payloads \in Seq(Seq(Nat))
<1> DEFINE publish == DecodePublish(payload)
           batch == DecodePublishBatch(payload)
           Request(err, topic, payloads) ==
               [err |-> err,
                request |-> [lib |-> TRUE, op |-> op, topic |-> topic, payloads |-> payloads]]
           u == Understood(op, payload)
<1>1. /\ publish.err = "none" => Len(publish.fields) = 2
      /\ batch.err = "none" => Len(batch.fields) >= 1
      /\ publish.fields \in Seq(Seq(Nat)) /\ batch.fields \in Seq(Seq(Nat))
  BY DecodersScan DEF Scan
<1>2. /\ op \in {OpCreateTopic, OpSubscribe} => u = Request("none", payload, <<>>)
      /\ op \in {OpPublish, OpPublishNoAck} =>
            u = IF publish.err # "none" THEN Request(publish.err, <<>>, <<>>)
                ELSE Request("none", publish.fields[1], <<publish.fields[2]>>)
      /\ op = OpPublishBatch =>
            u = IF batch.err # "none" THEN Request(batch.err, <<>>, <<>>)
                ELSE Request("none", batch.fields[1], Tail(batch.fields))
      /\ op = OpListTopics => u = Request("none", <<>>, <<>>)
  BY DEF Understood, OpCreateTopic, OpPublish, OpSubscribe, OpPublishBatch,
         OpPublishNoAck, OpListTopics
<1> HIDE DEF u, publish, batch
<1>3. <<>> \in Seq(Nat) /\ <<>> \in Seq(Seq(Nat))
  OBVIOUS
<1>4. publish.err = "none" =>
          publish.fields[1] \in Seq(Nat) /\ <<publish.fields[2]>> \in Seq(Seq(Nat))
  <2>1. publish.err = "none" =>
            publish.fields[1] \in Seq(Nat) /\ publish.fields[2] \in Seq(Nat)
    BY <1>1, ElementOfSeq
  <2>2. QED
    BY <2>1
<1>5. batch.err = "none" =>
          batch.fields[1] \in Seq(Nat) /\ Tail(batch.fields) \in Seq(Seq(Nat))
  <2>1. batch.err = "none" => batch.fields # <<>> /\ 1 \in 1 .. Len(batch.fields)
    BY <1>1, LenProperties
  <2>2. QED
    BY <2>1, <1>1, ElementOfSeq, HeadTailProperties
<1> DEFINE Good(v) == v.request.op = op /\ v.request.topic \in Seq(Nat)
                      /\ v.request.payloads \in Seq(Seq(Nat))
<1>6. \A err : \A topic \in Seq(Nat) : \A payloads \in Seq(Seq(Nat)) :
          Good(Request(err, topic, payloads))
  OBVIOUS
<1> HIDE DEF Good, Request
<1>7. CASE op \in {OpCreateTopic, OpSubscribe}
  <2>1. Good(u)
    BY <1>2, <1>3, <1>6, <1>7
  <2>2. QED
    BY <2>1 DEF Good, u
<1>8. CASE op \in {OpPublish, OpPublishNoAck}
  <2>1. Good(u)
    BY <1>2, <1>3, <1>4, <1>6, <1>8
  <2>2. QED
    BY <2>1 DEF Good, u
<1>9. CASE op = OpPublishBatch
  <2>1. Good(u)
    BY <1>2, <1>3, <1>5, <1>6, <1>9
  <2>2. QED
    BY <2>1 DEF Good, u
<1>10. CASE op = OpListTopics
  <2>1. Good(u)
    BY <1>2, <1>3, <1>6, <1>10
  <2>2. QED
    BY <2>1 DEF Good, u
<1>11. QED
  BY <1>7, <1>8, <1>9, <1>10

\* What the server does with a request is a step of the logs.
LEMMA ServeLogs ==
    ASSUME DataInv, NEW c \in Conns, Serve(c)
    PROVE  LogStep
<1> DEFINE frame == ReadFrame(up[c])
           understood == Understood(frame.op, frame.payload)
           r == understood.request
           answer == Decision(understood.err, r)
<1>1. /\ frame.err = "none"
      /\ frame.op \in {OpCreateTopic, OpPublish, OpSubscribe, OpPublishBatch,
                       OpPublishNoAck, OpListTopics}
      /\ topics' = IF answer.err = "none" THEN Effect(r) ELSE topics
  BY DEF Serve
<1>2. up[c] \in Seq(Nat)
  BY DEF DataInv
<1>3. frame.payload \in Seq(Nat)
  BY <1>2, ReadFrameProperties
<1> HIDE DEF frame
<1>4. r.op = frame.op /\ r.topic \in Seq(Nat) /\ r.payloads \in Seq(Seq(Nat))
  BY <1>1, <1>3, UnderstoodProperties
<1> HIDE DEF understood
<1>5. CASE answer.err # "none"
  BY <1>1, <1>5 DEF LogStep
<1>6. CASE answer.err = "none"
  <2>1. topics' = Effect(r)
    BY <1>1, <1>6
  <2>2. \A err : Answer(err).err = err
    BY DEF Answer, NoAnswer
  <2>3. understood.err = "none" /\ Pushable(r.payloads) /\ Reason(r) = "none"
    <3>1. understood.err = "none"
      BY <1>6, <2>2 DEF Decision
    <3>2. Pushable(r.payloads)
      BY <1>6, <2>2, <3>1 DEF Decision
    <3>3. Reason(r) = "none"
      BY <1>6, <2>2, <3>1, <3>2 DEF Decision
    <3>4. QED
      BY <3>1, <3>2, <3>3
  <2>4. open
    BY <2>3 DEF Reason
  <2>5. CASE r.op = OpCreateTopic
    <3>1. r.topic \notin DOMAIN topics
      BY <2>3, <2>4, <2>5 DEF Reason, OpCreateTopic, OpPublish, OpSubscribe,
            OpPublishBatch, OpPublishNoAck, OpListTopics
    <3>2. topics' = [t \in DOMAIN topics \union {r.topic} |->
                        IF t = r.topic THEN <<>> ELSE topics[t]]
      BY <2>1, <2>5 DEF Effect, OpCreateTopic, OpPublish, OpSubscribe,
            OpPublishBatch, OpPublishNoAck, OpListTopics
    <3>3. QED
      BY <3>1, <3>2, <1>4 DEF LogStep
  <2>6. CASE r.op \in {OpPublish, OpPublishBatch, OpPublishNoAck}
    <3>1. r.topic \in DOMAIN topics
      BY <2>3, <2>4, <2>6 DEF Reason, OpCreateTopic, OpPublish, OpSubscribe,
            OpPublishBatch, OpPublishNoAck, OpListTopics
    <3>2. topics' = [topics EXCEPT ![r.topic] = @ \o Messages(r.payloads, TRUE)]
      BY <2>1, <2>6 DEF Effect, OpCreateTopic, OpPublish, OpSubscribe,
            OpPublishBatch, OpPublishNoAck, OpListTopics
    <3>3. QED
      BY <3>1, <3>2, <2>3, <1>4, Zenon DEF LogStep
  <2>7. CASE r.op \in {OpListTopics, OpSubscribe}
    <3>1. topics' = topics
      BY <2>1, <2>7 DEF Effect, OpCreateTopic, OpPublish, OpSubscribe,
            OpPublishBatch, OpPublishNoAck, OpListTopics
    <3>2. QED
      BY <3>1 DEF LogStep
  <2>8. QED
    BY <2>5, <2>6, <2>7, <1>1, <1>4
<1>7. QED
  BY <1>5, <1>6

\* Every step is a step of the logs.
LEMMA NextLogs ==
    ASSUME DataInv, [Next]_vars
    PROVE  LogStep /\ scenario' = scenario
<1> USE DEF pushVars, streamVars, poolVars, readerVars, requestVars, brokerVars, clientVars,
            wireVars, serverVars
<1>1. ASSUME NEW c \in Conns, HandlerStep(c) PROVE LogStep /\ scenario' = scenario
  <2>1. CASE Serve(c)
    BY <2>1, ServeLogs DEF Serve
  <2>2. CASE Reject(c) \/ Ignore(c)
    BY <2>2 DEF Reject, Ignore, LogStep
  <2>3. QED
    BY <1>1, <2>1, <2>2 DEF HandlerStep
<1>2. ASSUME NEW c \in Conns, StreamStep(c) \/ WriteFails(c)
      PROVE  LogStep /\ scenario' = scenario
  BY <1>2 DEF StreamStep, ReadBatch, StreamEnds, RefuseBatch, WriteBuffer, BatchWritten,
         FillHeader, WriteFails, LogStep
<1>3. ASSUME NEW c \in Conns,
             \/ ClientStep(c)
             \/ \E k \in Here.calls : Call(c, k) /\ UNCHANGED pushVars
             \/ \E header \in Here.forged : Forge(c, header) /\ UNCHANGED pushVars
             \/ \E b \in Noise : Scribble(c, b) /\ UNCHANGED pushVars
             \/ Leave(c) /\ UNCHANGED pushVars
      PROVE  LogStep /\ scenario' = scenario
  BY <1>3 DEF ClientStep, Return, Pull, Call, Forge, Scribble, Leave, LogStep
<1>4. ASSUME NEW m \in Here.local, PublishLocally(m[1], m[2])
      PROVE  LogStep /\ scenario' = scenario
  <2>1. /\ <<m[1], m[2]>> \in Here.local
        /\ m[1] \in DOMAIN topics
        /\ topics' = [topics EXCEPT ![m[1]] = @ \o Messages(<<m[2]>>, FALSE)]
        /\ scenario' = scenario
    BY <1>4 DEF PublishLocally
  <2>2. Here.local \subseteq Name \X Payload
    BY RequestsAssumption DEF Here, ScenarioType, DataInv
  <2>3. m[2] \in Seq(Byte) /\ Byte \subseteq Nat
    BY <2>1, <2>2, CodecAssumption DEF Payload, Byte
  <2>4. m[2] \in Seq(Nat)
    BY <2>3, WiderSeq
  <2>5. <<m[2]>> \in Seq(Seq(Nat))
    BY <2>4
  <2>6. QED
    BY <2>1, <2>5, Zenon DEF LogStep
<1>5. CASE CloseBroker \/ UNCHANGED vars
  BY <1>5 DEF CloseBroker, vars, LogStep
<1>6. QED
  BY <1>1, <1>2, <1>3, <1>4, <1>5 DEF Next

\* Messages are what a log holds.
LEMMA MessagesAreEntries ==
    ASSUME NEW payloads \in Seq(Seq(Nat)), NEW remote \in BOOLEAN
    PROVE  /\ Messages(payloads, remote) \in Seq(Entry)
           /\ Len(Messages(payloads, remote)) = Len(payloads)
           /\ \A i \in 1 .. Len(payloads) :
                 Messages(payloads, remote)[i] = [Payload |-> payloads[i], remote |-> remote]
<1>1. Len(payloads) \in Nat /\ DOMAIN payloads = 1 .. Len(payloads)
      /\ \A i \in 1 .. Len(payloads) : payloads[i] \in Seq(Nat)
  BY LenProperties, ElementOfSeq
<1>2. \A i \in 1 .. Len(payloads) :
          [Payload |-> payloads[i], remote |-> remote] \in Entry
  BY <1>1 DEF Entry
<1>3. QED
  BY <1>1, <1>2 DEF Messages

\* t is a log that goes on where s ends.
Grows(s, t) == Len(s) <= Len(t) /\ \A i \in 1 .. Len(s) : t[i] = s[i]

\* Logs are typed, they only grow, and no topic goes away.
LEMMA LogsGrow ==
    ASSUME DataInv, LogStep
    PROVE  /\ \A t \in DOMAIN topics' : topics'[t] \in Seq(Entry)
           /\ DOMAIN topics \subseteq DOMAIN topics'
           /\ \A t \in DOMAIN topics : Grows(topics[t], topics'[t])
<1>1. \A t \in DOMAIN topics : topics[t] \in Seq(Entry) /\ Len(topics[t]) \in Nat
  BY LenProperties DEF DataInv
<1>2. CASE topics' = topics
  BY <1>1, <1>2 DEF Grows
<1>3. ASSUME NEW t \in Seq(Nat), t \notin DOMAIN topics,
             topics' = [u \in DOMAIN topics \union {t} |-> IF u = t THEN <<>> ELSE topics[u]]
      PROVE  /\ \A u \in DOMAIN topics' : topics'[u] \in Seq(Entry)
             /\ DOMAIN topics \subseteq DOMAIN topics'
             /\ \A u \in DOMAIN topics : Grows(topics[u], topics'[u])
  <2>1. <<>> \in Seq(Entry)
    OBVIOUS
  <2>2. \A u \in DOMAIN topics : topics'[u] = topics[u]
    BY <1>3
  <2>3. QED
    BY <1>1, <1>3, <2>1, <2>2 DEF Grows
<1>4. ASSUME NEW t \in DOMAIN topics, NEW payloads \in Seq(Seq(Nat)), NEW remote \in BOOLEAN,
             topics' = [topics EXCEPT ![t] = @ \o Messages(payloads, remote)]
      PROVE  /\ \A u \in DOMAIN topics' : topics'[u] \in Seq(Entry)
             /\ DOMAIN topics \subseteq DOMAIN topics'
             /\ \A u \in DOMAIN topics : Grows(topics[u], topics'[u])
  <2> DEFINE more == Messages(payloads, remote)
  <2>1. more \in Seq(Entry)
    BY MessagesAreEntries
  <2> HIDE DEF more
  <2>2. topics' = [topics EXCEPT ![t] = @ \o more]
    BY <1>4 DEF more
  <2>3. topics[t] \o more \in Seq(Entry) /\ Grows(topics[t], topics[t] \o more)
    <3>1. /\ topics[t] \o more \in Seq(Entry)
          /\ Len(topics[t] \o more) = Len(topics[t]) + Len(more)
          /\ \A i \in 1 .. Len(topics[t]) : (topics[t] \o more)[i] = topics[t][i]
          /\ Len(more) \in Nat /\ Len(topics[t]) \in Nat
      BY <2>1, <1>1, ConcatBytes
    <3>2. QED
      BY <3>1 DEF Grows
  <2>4. DOMAIN topics' = DOMAIN topics /\ topics'[t] = topics[t] \o more
        /\ \A u \in DOMAIN topics : u # t => topics'[u] = topics[u]
    BY <2>2
  <2>5. \A u \in DOMAIN topics : Grows(topics[u], topics[u])
    BY <1>1 DEF Grows
  <2>6. QED
    BY <2>3, <2>4, <2>5, <1>1
<1>5. QED
  BY <1>2, <1>3, <1>4 DEF LogStep

-----------------------------------------------------------------------------
\* What was accepted can be pushed

\* A step of the logs stores no message of the network that is too long.
LEMMA LogStepFits ==
    ASSUME DataInv, StoredFitsPush, LogStep
    PROVE  StoredFitsPush'
<1>1. \A t \in DOMAIN topics : topics[t] \in Seq(Entry) /\ Len(topics[t]) \in Nat
                               /\ DOMAIN topics[t] = 1 .. Len(topics[t])
  BY LenProperties DEF DataInv
<1>2. ASSUME NEW t \in DOMAIN topics, NEW i \in 1 .. Len(topics[t]), topics[t][i].remote
      PROVE  Fits(EncodeMessage(i - 1, topics[t][i].Payload))
  BY <1>1, <1>2 DEF StoredFitsPush
<1>3. CASE topics' = topics
  BY <1>3 DEF StoredFitsPush
<1>4. ASSUME NEW t \in Seq(Nat), t \notin DOMAIN topics,
             topics' = [u \in DOMAIN topics \union {t} |-> IF u = t THEN <<>> ELSE topics[u]]
      PROVE  StoredFitsPush'
  <2>1. DOMAIN topics' = DOMAIN topics \union {t} /\ topics'[t] = <<>>
        /\ \A u \in DOMAIN topics : topics'[u] = topics[u]
    BY <1>4
  <2>2. DOMAIN topics'[t] = {}
    BY <2>1
  <2> SUFFICES ASSUME NEW u \in DOMAIN topics', NEW i \in DOMAIN topics'[u],
                      topics'[u][i].remote
               PROVE  Fits(EncodeMessage(i - 1, topics'[u][i].Payload))
    BY DEF StoredFitsPush
  <2>3. u \in DOMAIN topics /\ topics'[u] = topics[u]
    BY <2>1, <2>2
  <2>4. QED
    BY <2>3, <1>1, <1>2
<1>5. ASSUME NEW t \in DOMAIN topics, NEW payloads \in Seq(Seq(Nat)), NEW remote \in BOOLEAN,
             remote => Pushable(payloads),
             topics' = [topics EXCEPT ![t] = @ \o Messages(payloads, remote)]
      PROVE  StoredFitsPush'
  <2> DEFINE more == Messages(payloads, remote)
             n == Len(topics[t])
  <2>1. /\ more \in Seq(Entry) /\ Len(more) = Len(payloads) /\ Len(payloads) \in Nat
        /\ \A i \in 1 .. Len(payloads) :
              /\ more[i] = [Payload |-> payloads[i], remote |-> remote]
              /\ payloads[i] \in Seq(Nat)
    BY MessagesAreEntries, LenProperties, ElementOfSeq
  <2>2. topics' = [topics EXCEPT ![t] = @ \o more]
    BY <1>5
  <2> HIDE DEF more
  <2>3. DOMAIN topics' = DOMAIN topics /\ topics'[t] = topics[t] \o more
        /\ \A u \in DOMAIN topics : u # t => topics'[u] = topics[u]
    BY <2>2
  <2>4. /\ topics[t] \o more \in Seq(Entry)
        /\ Len(topics[t] \o more) = n + Len(more) /\ n \in Nat
        /\ \A i \in 1 .. n : (topics[t] \o more)[i] = topics[t][i]
        /\ \A i \in 1 .. Len(more) : (topics[t] \o more)[n + i] = more[i]
    <3>1. topics[t] \in Seq(Entry) /\ more \in Seq(Entry)
      BY <2>1, <1>1
    <3> DEFINE s == topics[t]
    <3> HIDE DEF s
    <3>2. s \in Seq(Entry)
      BY <3>1 DEF s
    <3>3. /\ s \o more \in Seq(Entry)
          /\ Len(s \o more) = Len(s) + Len(more) /\ Len(s) \in Nat
          /\ \A i \in 1 .. Len(s) : (s \o more)[i] = s[i]
          /\ \A i \in 1 .. Len(more) : (s \o more)[Len(s) + i] = more[i]
      BY <3>1, <3>2, ConcatBytes
    <3>4. QED
      BY <3>3 DEF s
  <2> SUFFICES ASSUME NEW u \in DOMAIN topics', NEW i \in DOMAIN topics'[u],
                      topics'[u][i].remote
               PROVE  Fits(EncodeMessage(i - 1, topics'[u][i].Payload))
    BY DEF StoredFitsPush
  <2>5. CASE u # t
    BY <2>3, <2>5, <1>1, <1>2
  <2>6. CASE u = t
    <3>1. i \in 1 .. n + Len(more)
      BY <2>3, <2>4, <2>6, LenProperties
    <3>2. CASE i <= n
      <4>1. i \in 1 .. n /\ topics'[u][i] = topics[t][i]
        BY <3>1, <3>2, <2>3, <2>4, <2>6
      <4>2. QED
        BY <4>1, <1>2
    <3>3. CASE i > n
      <4> DEFINE j == i - n
      <4>1. j \in 1 .. Len(more) /\ n + j = i /\ i - 1 \in Nat
        BY <3>1, <3>3, <2>1, <2>4
      <4> HIDE DEF j
      <4>2. topics'[u][i] = [Payload |-> payloads[j], remote |-> remote]
        BY <4>1, <2>1, <2>3, <2>4, <2>6
      <4>3. remote /\ Pushable(payloads)
        BY <4>2, <1>5
      <4>4. Len(payloads[j]) <= MaxMessage /\ payloads[j] \in Seq(Nat)
        BY <4>1, <4>3, <2>1, LenProperties DEF Pushable
      <4>5. QED
        BY <4>1, <4>2, <4>4, MessageBytes
    <3>4. QED
      BY <3>1, <3>2, <3>3, <2>4
  <2>7. QED
    BY <2>5, <2>6
<1>6. QED
  BY <1>3, <1>4, <1>5 DEF LogStep

-----------------------------------------------------------------------------
\* Types

\* The calls of a scenario, and what strangers send in it.
LEMMA ScenarioData ==
    ASSUME scenario \in DOMAIN Scenarios
    PROVE  /\ \A k \in Here.calls :
                 /\ k.op \in Nat /\ k.topic \in Seq(Nat) /\ k.payloads \in Seq(Seq(Nat))
                 /\ Body(k) \in Seq(Nat)
           /\ \A header \in Here.forged : header \in Seq(Byte) /\ Len(header) <= IntMax
           /\ Noise \subseteq Byte /\ Byte \subseteq Nat
           /\ Here.topics \subseteq Seq(Nat)
<1>1. /\ Here \in ScenarioType
      /\ Noise \subseteq Byte
      /\ \A k \in Here.calls : k.op \in {OpPublish, OpPublishNoAck} => Len(k.payloads) = 1
      /\ \A header \in Here.forged : Len(header) <= IntMax
  BY RequestsAssumption DEF Here
<1>2. Byte \subseteq Nat
  BY CodecAssumption DEF Byte
<1>3. Name \subseteq Seq(Nat) /\ Payload \subseteq Seq(Nat)
  BY <1>2, WiderSeq DEF Name, Payload
<1>4. ASSUME NEW k \in Here.calls
      PROVE  /\ k.op \in Nat /\ k.topic \in Seq(Nat) /\ k.payloads \in Seq(Seq(Nat))
             /\ Body(k) \in Seq(Nat)
  <2>1. k.op \in Nat /\ k.topic \in Name /\ k.payloads \in Seq(Payload)
    BY <1>1 DEF ScenarioType, CallType
  <2>2. k.topic \in Seq(Nat) /\ k.payloads \in Seq(Seq(Nat))
    BY <2>1, <1>3, WiderSeq
  <2>3. /\ EncodePublishBatch(k.topic, k.payloads) \in Seq(Nat)
        /\ k.op \in {OpPublish, OpPublishNoAck} =>
              EncodePublish(k.topic, k.payloads[1]) \in Seq(Nat)
    <3>1. k.op \in {OpPublish, OpPublishNoAck} => 1 \in 1 .. Len(k.payloads)
      BY <1>1
    <3>2. QED
      BY <2>2, <3>1, RequestBytes
  <2>4. QED
    BY <2>1, <2>2, <2>3 DEF Body, OpPublish, OpPublishNoAck, OpPublishBatch
<1>5. ASSUME NEW header \in Here.forged PROVE header \in Seq(Byte) /\ Len(header) <= IntMax
  <2>1. header \in Seq(Byte)
    BY <1>1 DEF ScenarioType
  <2>2. Len(header) <= IntMax
    BY <1>1, Zenon
  <2>3. QED
    BY <2>1, <2>2
<1>6. Here.topics \subseteq Seq(Nat)
  BY <1>1, <1>3 DEF ScenarioType
<1>7. \A k \in Here.calls : /\ k.op \in Nat /\ k.topic \in Seq(Nat) /\ k.payloads \in Seq(Seq(Nat))
                            /\ Body(k) \in Seq(Nat)
  BY <1>4, Zenon
<1>8. \A header \in Here.forged : header \in Seq(Byte) /\ Len(header) <= IntMax
  BY <1>5, Zenon
<1>9. QED
  BY <1>1, <1>2, <1>6, <1>7, <1>8, Zenon

\* The initial states are typed.
LEMMA DataInit == PushInit => DataInv /\ StreamInv /\ PoolInv
<1> SUFFICES ASSUME PushInit PROVE DataInv /\ StreamInv /\ PoolInv
  OBVIOUS
<1>1. \A S : <<>> \in Seq(S)
  OBVIOUS
<1>2. DataInv
  BY <1>1 DEF PushInit, Init, DataInv
<1>3. StreamInv
  BY <1>1 DEF PushInit, Init, StreamInv
<1>4. PoolInv
  BY <1>1 DEF PushInit, Init, PoolInv
<1>5. QED
  BY <1>2, <1>3, <1>4

\* What a step of connection c does to pc and up: it leaves the others alone.
LEMMA DataNext ==
    ASSUME DataInv, [Next]_vars
    PROVE  DataInv'
<1> USE DEF pushVars, streamVars, poolVars, readerVars, requestVars, brokerVars, clientVars,
            wireVars, serverVars
<1>1. scenario' \in DOMAIN Scenarios /\ \A t \in DOMAIN topics' : topics'[t] \in Seq(Entry)
  BY NextLogs, LogsGrow DEF DataInv
<1> DEFINE Peers == {"idle", "waiting", "streaming", "forging", "gone"}
           Strangers(q, u) == \A c \in Conns : q[c] \in {"forging", "gone"} =>
                                  u[c] \in Seq(Byte) /\ Len(u[c]) <= HeaderLen + IntMax
           Goal == pc' \in [Conns -> Peers] /\ up' \in [Conns -> Seq(Nat)] /\ Strangers(pc', up')
<1>2. pc \in [Conns -> Peers] /\ up \in [Conns -> Seq(Nat)] /\ Strangers(pc, up)
  BY DEF DataInv
<1>3. /\ Byte \subseteq Nat /\ Noise \subseteq Byte
      /\ HeaderLen \in Nat /\ IntMax \in Nat /\ MaxPayload \in Nat /\ MaxPayload <= IntMax
      /\ <<>> \in Seq(Byte) /\ <<>> \in Seq(Nat) /\ Len(<<>>) = 0
  BY ScenarioData, CodecAssumption DEF DataInv, HeaderLen
<1>4. ASSUME NEW c \in Conns, NEW s \in Seq(Nat), up' = [up EXCEPT ![c] = s], pc' = pc,
             pc[c] \in {"forging", "gone"} => s \in Seq(Byte) /\ Len(s) <= HeaderLen + IntMax
      PROVE  Goal
  BY <1>2, <1>4
<1>5. ASSUME NEW c \in Conns, Serve(c) \/ Ignore(c) PROVE Goal
  <2>1. up' = [up EXCEPT ![c] = AfterFrame(up[c])] /\ pc' = pc /\ ReadFrame(up[c]).err = "none"
    BY <1>5 DEF Serve, Ignore
  <2>2. up[c] \in Seq(Nat)
    BY <1>2
  <2>3. AfterFrame(up[c]) \in Seq(Nat)
    BY <2>1, <2>2, ReadFrameProperties
  <2>4. ASSUME pc[c] \in {"forging", "gone"}
        PROVE  AfterFrame(up[c]) \in Seq(Byte) /\ Len(AfterFrame(up[c])) <= HeaderLen + IntMax
    <3>1. up[c] \in Seq(Byte) /\ Len(up[c]) <= HeaderLen + IntMax
      BY <2>4, <1>2
    <3>2. LET r == ReadFrame(up[c])
          IN  /\ r.payload \in Seq(Byte)
              /\ AfterFrame(up[c]) \in Seq(Byte)
              /\ Len(AfterFrame(up[c])) = Len(up[c]) - (HeaderLen + Len(r.payload))
      BY <2>1, <3>1, <1>3, ReadFrameProperties
    <3>3. Len(up[c]) \in Nat /\ Len(ReadFrame(up[c]).payload) \in Nat
      BY <3>1, <3>2, LenProperties
    <3>4. \A l, m \in Nat : l <= HeaderLen + IntMax => l - (HeaderLen + m) <= HeaderLen + IntMax
      BY <1>3
    <3>5. QED
      BY <3>1, <3>2, <3>3, <3>4
  <2>5. QED
    BY <2>1, <2>3, <2>4, <1>4
<1>6. ASSUME NEW c \in Conns, Reject(c) PROVE Goal
  <2>1. up' = [up EXCEPT ![c] = <<>>] /\ pc' = pc
    BY <1>6 DEF Reject
  <2>2. Len(<<>>) <= HeaderLen + IntMax
    BY <1>3
  <2>3. QED
    BY <2>1, <2>2, <1>3, <1>4
<1>7. ASSUME NEW c \in Conns, NEW k \in Here.calls, Call(c, k) PROVE Goal
  <2>1. EncodeFrame(k.op, Body(k)) \in Seq(Nat)
    BY ScenarioData, FrameBytes DEF DataInv
  <2>2. /\ pc[c] = "idle"
        /\ pc' = pc \/ pc' = [pc EXCEPT ![c] = "waiting"]
        /\ up' = up \/ up' = [up EXCEPT ![c] = EncodeFrame(k.op, Body(k))]
    BY <1>7 DEF Call
  <2>3. QED
    BY <2>1, <2>2, <1>2
<1>8. ASSUME NEW c \in Conns, NEW header \in Here.forged, Forge(c, header) PROVE Goal
  <2>1. header \in Seq(Byte) /\ Len(header) <= IntMax
    BY ScenarioData DEF DataInv
  <2>2. header \in Seq(Nat) /\ Len(header) <= HeaderLen + IntMax
    <3>1. header \in Seq(Nat)
      BY <2>1, <1>3, WiderSeq
    <3>2. Len(header) \in Nat
      BY <2>1, LenProperties
    <3>3. QED
      BY <3>1, <3>2, <2>1, <1>3
  <2>3. pc' = [pc EXCEPT ![c] = "forging"] /\ up' = [up EXCEPT ![c] = header]
    BY <1>8 DEF Forge
  <2>4. QED
    BY <2>1, <2>2, <2>3, <1>2
<1>9. ASSUME NEW c \in Conns, NEW b \in Noise, Scribble(c, b) PROVE Goal
  <2>1. /\ pc[c] = "forging" /\ pc' = pc /\ up' = [up EXCEPT ![c] = Append(up[c], b)]
        /\ ReadHeader(up[c]).err = "none" /\ ReadFrame(up[c]).err = "truncated"
    BY <1>9 DEF Scribble
  <2>2. up[c] \in Seq(Byte) /\ up[c] \in Seq(Nat) /\ b \in Byte /\ b \in Nat
    BY <2>1, <1>2, <1>3
  <2>3. Append(up[c], b) \in Seq(Byte) /\ Append(up[c], b) \in Seq(Nat)
        /\ Len(Append(up[c], b)) = Len(up[c]) + 1 /\ Len(up[c]) \in Nat
    BY <2>2, AppendProperties, LenProperties
  <2>4. Len(up[c]) < HeaderLen + MaxPayload
    BY <2>1, <2>2, TruncatedFrame
  <2>5. Len(Append(up[c], b)) <= HeaderLen + IntMax
    BY <2>3, <2>4, <1>3
  <2>6. QED
    BY <2>1, <2>3, <2>5, <1>4
<1>10. ASSUME NEW c \in Conns, Leave(c) PROVE Goal
  <2>1. pc[c] = "forging" /\ pc' = [pc EXCEPT ![c] = "gone"] /\ up' = up
    BY <1>10 DEF Leave
  <2>2. QED
    BY <2>1, <1>2
<1>11. ASSUME NEW c \in Conns, Return(c) PROVE Goal
  <2>1. \E next \in {"streaming", "idle"} : pc' = [pc EXCEPT ![c] = next]
    BY <1>11 DEF Return
  <2>2. up' = up
    BY <1>11 DEF Return
  <2>3. QED
    BY <2>1, <2>2, <1>2
<1>12. ASSUME up' = up, pc' = pc PROVE Goal
  BY <1>2, <1>12
<1>13. ASSUME NEW c \in Conns, StreamStep(c) \/ WriteFails(c) \/ Pull(c) PROVE Goal
  <2>1. up' = up /\ pc' = pc
    BY <1>13 DEF StreamStep, ReadBatch, StreamEnds, RefuseBatch, WriteBuffer, BatchWritten,
           FillHeader, WriteFails, Pull
  <2>2. QED
    BY <2>1, <1>12
<1>14. ASSUME NEW m \in Here.local, PublishLocally(m[1], m[2]) PROVE Goal
  BY <1>14, <1>12 DEF PublishLocally
<1>15. CASE CloseBroker \/ UNCHANGED vars
  <2>1. up' = up /\ pc' = pc
    BY <1>15 DEF CloseBroker, vars
  <2>2. Goal
    BY <2>1, <1>12
  <2>3. QED
    BY <2>2, <1>1 DEF DataInv
<1> HIDE DEF Goal
<1>16. CASE Next
  <2>1. ASSUME NEW c \in Conns,
               \/ HandlerStep(c) \/ StreamStep(c) \/ ClientStep(c) \/ WriteFails(c)
               \/ \E k \in Here.calls : Call(c, k) /\ UNCHANGED pushVars
               \/ \E header \in Here.forged : Forge(c, header) /\ UNCHANGED pushVars
               \/ \E b \in Noise : Scribble(c, b) /\ UNCHANGED pushVars
               \/ Leave(c) /\ UNCHANGED pushVars
        PROVE  Goal
    BY <2>1, <1>5, <1>6, <1>7, <1>8, <1>9, <1>10, <1>11, <1>13, Zenon
    DEF HandlerStep, ClientStep
  <2>2. CASE CloseBroker
    BY <2>2, <1>15
  <2>3. CASE \E m \in Here.local : PublishLocally(m[1], m[2])
    <3>1. Goal
      BY <2>3, <1>14, Zenon
    <3>2. QED
      BY <3>1, <1>1 DEF DataInv, Goal
  <2>4. CASE ~CloseBroker /\ ~(\E m \in Here.local : PublishLocally(m[1], m[2]))
    <3>1. Goal
      BY <1>16, <2>1, <2>4, Zenon DEF Next
    <3>2. QED
      BY <3>1, <1>1 DEF DataInv, Goal
  <2>5. QED
    BY <2>2, <2>3, <2>4
<1>17. QED
  BY <1>15, <1>16


\* The streams stay where their logs are.
LEMMA StreamNext ==
    ASSUME DataInv, StreamInv, [Next]_vars
    PROVE  StreamInv'
<1> USE DEF pushVars, streamVars, poolVars, readerVars, requestVars, brokerVars, clientVars,
            wireVars, serverVars
<1> DEFINE Part(ph, su, st, to, tp) ==
               /\ ph = "push" => su \in DOMAIN tp /\ \A i \in DOMAIN to : to[i] < Len(tp[su])
               /\ ph = "request" => to = <<>>
               /\ st = "fill" => to # <<>>
<1>1. /\ DOMAIN topics \subseteq DOMAIN topics'
      /\ \A t \in DOMAIN topics : Len(topics[t]) <= Len(topics'[t])
      /\ \A t \in DOMAIN topics : Len(topics[t]) \in Nat
      /\ \A t \in DOMAIN topics' : Len(topics'[t]) \in Nat
  BY NextLogs, LogsGrow, LenProperties DEF Grows, DataInv
<1>2. /\ phase \in [Conns -> {"request", "push", "ended"}]
      /\ subject \in [Conns -> Seq(Nat)]
      /\ step \in [Conns -> {"read", "fill", "write"}]
      /\ cursor \in [Conns -> Nat]
      /\ todo \in [Conns -> Seq(Nat)]
      /\ \A c \in Conns : Part(phase[c], subject[c], step[c], todo[c], topics)
  BY DEF StreamInv, Log
<1>3. \A c \in Conns : todo[c] \in Seq(Nat) /\ DOMAIN todo[c] = 1 .. Len(todo[c])
                       /\ \A i \in DOMAIN todo[c] : todo[c][i] \in Nat
  BY <1>2, LenProperties, ElementOfSeq
<1>4. \A c \in Conns : Part(phase[c], subject[c], step[c], todo[c], topics')
  <2> SUFFICES ASSUME NEW c \in Conns
               PROVE  Part(phase[c], subject[c], step[c], todo[c], topics')
    OBVIOUS
  <2>1. ASSUME phase[c] = "push", NEW i \in DOMAIN todo[c]
        PROVE  todo[c][i] < Len(topics'[subject[c]])
    <3>1. todo[c][i] < Len(topics[subject[c]]) /\ subject[c] \in DOMAIN topics
      BY <2>1, <1>2
    <3>2. QED
      BY <3>1, <1>1, <1>3
  <2>2. QED
    BY <2>1, <1>1, <1>2
<1>5. ASSUME NEW c \in Conns, NEW ph \in {"request", "push", "ended"}, NEW su \in Seq(Nat),
             NEW st \in {"read", "fill", "write"}, NEW cu \in Nat, NEW to \in Seq(Nat),
             phase' = [phase EXCEPT ![c] = ph], subject' = [subject EXCEPT ![c] = su],
             step' = [step EXCEPT ![c] = st], cursor' = [cursor EXCEPT ![c] = cu],
             todo' = [todo EXCEPT ![c] = to], Part(ph, su, st, to, topics')
      PROVE  StreamInv'
  <2>1. /\ phase' \in [Conns -> {"request", "push", "ended"}]
        /\ subject' \in [Conns -> Seq(Nat)]
        /\ step' \in [Conns -> {"read", "fill", "write"}]
        /\ cursor' \in [Conns -> Nat]
        /\ todo' \in [Conns -> Seq(Nat)]
    BY <1>2, <1>5
  <2>2. \A d \in Conns : Part(phase'[d], subject'[d], step'[d], todo'[d], topics')
    BY <1>2, <1>4, <1>5
  <2>3. QED
    BY <2>1, <2>2 DEF StreamInv, Log
<1> DEFINE Moves(c, ph, su, st, cu, to) ==
               /\ ph \in {"request", "push", "ended"} /\ su \in Seq(Nat)
               /\ st \in {"read", "fill", "write"} /\ cu \in Nat /\ to \in Seq(Nat)
               /\ phase' = [phase EXCEPT ![c] = ph] /\ subject' = [subject EXCEPT ![c] = su]
               /\ step' = [step EXCEPT ![c] = st] /\ cursor' = [cursor EXCEPT ![c] = cu]
               /\ todo' = [todo EXCEPT ![c] = to]
<1>5a. ASSUME NEW c \in Conns, NEW ph, NEW su, NEW st, NEW cu, NEW to,
              Moves(c, ph, su, st, cu, to), Part(ph, su, st, to, topics')
       PROVE  StreamInv'
  BY <1>5, <1>5a
<1>6. ASSUME phase' = phase, subject' = subject, step' = step, cursor' = cursor, todo' = todo
      PROVE  StreamInv'
  BY <1>2, <1>4, <1>6 DEF StreamInv, Log
<1> HIDE DEF Part, Moves
<1>7. ASSUME NEW c \in Conns, Serve(c), UNCHANGED pushVars PROVE StreamInv'
  <2> DEFINE frame == ReadFrame(up[c])
             u == Understood(frame.op, frame.payload)
             r == u.request
             answer == Decision(u.err, r)
  <2>1. /\ phase[c] = "request" /\ frame.err = "none"
        /\ frame.op \in {OpCreateTopic, OpPublish, OpSubscribe, OpPublishBatch,
                         OpPublishNoAck, OpListTopics}
        /\ topics' = IF answer.err = "none" THEN Effect(r) ELSE topics
        /\ IF r.op = OpSubscribe /\ answer.err = "none"
           THEN /\ phase' = [phase EXCEPT ![c] = "push"]
                /\ subject' = [subject EXCEPT ![c] = r.topic]
           ELSE UNCHANGED <<phase, subject>>
    BY <1>7 DEF Serve
  <2>2. up[c] \in Seq(Nat)
    BY DEF DataInv
  <2>3. frame.payload \in Seq(Nat)
    BY <2>2, ReadFrameProperties
  <2>4. r.topic \in Seq(Nat)
    BY <2>1, <2>3, UnderstoodProperties
  <2> HIDE DEF frame, u, r
  <2>5. CASE r.op = OpSubscribe /\ answer.err = "none"
    <3>1. Reason(r) = "none"
      BY <2>5 DEF Decision, Answer, NoAnswer
    <3>2. r.topic \in DOMAIN topics
      BY <2>5, <3>1 DEF Reason, OpCreateTopic, OpPublish, OpSubscribe, OpPublishBatch,
         OpPublishNoAck, OpListTopics
    <3>3. r.topic \in DOMAIN topics' /\ todo[c] = <<>> /\ step[c] # "fill"
      BY <3>2, <1>1, <1>2, <2>1 DEF Part
    <3>4. Part("push", r.topic, step[c], todo[c], topics')
      BY <3>3 DEF Part
    <3>5. /\ step' = [step EXCEPT ![c] = step[c]] /\ cursor' = [cursor EXCEPT ![c] = cursor[c]]
          /\ todo' = [todo EXCEPT ![c] = todo[c]]
          /\ step[c] \in {"read", "fill", "write"} /\ cursor[c] \in Nat /\ todo[c] \in Seq(Nat)
      BY <1>2, <1>7
    <3>6. phase' = [phase EXCEPT ![c] = "push"] /\ subject' = [subject EXCEPT ![c] = r.topic]
      BY <2>1, <2>5
    <3>7. Moves(c, "push", r.topic, step[c], cursor[c], todo[c])
      BY <3>5, <3>6, <2>4 DEF Moves
    <3>8. QED
      BY <3>4, <3>7, <1>5a, Zenon
  <2>6. CASE ~(r.op = OpSubscribe /\ answer.err = "none")
    BY <2>1, <2>6, <1>6, <1>7
  <2>7. QED
    BY <2>5, <2>6
<1>8. ASSUME NEW c \in Conns, Reject(c), UNCHANGED pushVars PROVE StreamInv'
  <2>1. phase[c] = "request" /\ phase' = [phase EXCEPT ![c] = "ended"] /\ subject' = subject
    BY <1>8 DEF Reject
  <2>2. Part("ended", subject[c], step[c], todo[c], topics')
    BY <2>1, <1>4 DEF Part
  <2>3. Moves(c, "ended", subject[c], step[c], cursor[c], todo[c])
    BY <2>1, <1>2, <1>8 DEF Moves
  <2>4. QED
    BY <2>2, <2>3, <1>5a, Zenon
<1>9. ASSUME NEW c \in Conns, ReadBatch(c) PROVE StreamInv'
  <2>1. /\ phase[c] = "push" /\ cursor[c] < Len(Log(c))
        /\ step' = [step EXCEPT ![c] = "fill"] /\ phase' = phase /\ subject' = subject
        /\ topics' = topics
    BY <1>9 DEF ReadBatch
  <2>2. PICK end \in {Len(Log(c)), cursor[c] + StreamBatch} :
          /\ end <= Len(Log(c))
          /\ todo' = [todo EXCEPT ![c] = [i \in 1 .. end - cursor[c] |-> cursor[c] + i - 1]]
          /\ cursor' = [cursor EXCEPT ![c] = end]
    BY <1>9 DEF ReadBatch
  <2>3. /\ subject[c] \in DOMAIN topics /\ Len(Log(c)) \in Nat
        /\ cursor[c] \in Nat /\ StreamBatch \in Nat \ {0}
    BY <1>1, <1>2, <2>1, PushAssumption DEF Part, Log
  <2>4. end \in Nat /\ cursor[c] < end
    BY <2>1, <2>2, <2>3
  <2> DEFINE to == [i \in 1 .. end - cursor[c] |-> cursor[c] + i - 1]
  <2>5. /\ to \in Seq(Nat) /\ to # <<>>
        /\ \A i \in DOMAIN to : to[i] < Len(Log(c))
    <3>1. end - cursor[c] \in Nat /\ \A i \in 1 .. end - cursor[c] : cursor[c] + i - 1 \in Nat
      BY <2>3, <2>4
    <3>2. to \in [1 .. end - cursor[c] -> Nat]
      BY <3>1
    <3>3. to \in Seq(Nat)
      BY <3>1, <3>2
    <3>4. 1 \in DOMAIN to
      BY <2>3, <2>4
    <3>5. \A i \in DOMAIN to : to[i] < Len(Log(c))
      BY <2>2, <2>3, <2>4
    <3> HIDE DEF to
    <3>6. to # <<>>
      BY <3>4
    <3>7. QED
      BY <3>3, <3>5, <3>6
  <2> HIDE DEF to
  <2>6. Part("push", subject[c], "fill", to, topics')
    BY <2>1, <2>3, <2>5 DEF Part, Log
  <2>7. phase' = [phase EXCEPT ![c] = "push"] /\ subject' = [subject EXCEPT ![c] = subject[c]]
        /\ subject[c] \in Seq(Nat)
    BY <2>1, <1>2
  <2>8. QED
    BY <2>1, <2>2, <2>4, <2>5, <2>6, <2>7, <1>5 DEF to
<1>10. ASSUME NEW c \in Conns, StreamEnds(c) PROVE StreamInv'
  <2>1. /\ phase' = [phase EXCEPT ![c] = "ended"] /\ subject' = subject
        /\ step' = step /\ cursor' = cursor /\ todo' = todo
    BY <1>10 DEF StreamEnds, End
  <2>2. Part("ended", subject[c], step[c], todo[c], topics')
    BY <1>4 DEF Part
  <2>3. Moves(c, "ended", subject[c], step[c], cursor[c], todo[c])
    BY <2>1, <1>2 DEF Moves
  <2>4. QED
    BY <2>2, <2>3, <1>5a, Zenon
<1>11. ASSUME NEW c \in Conns, NEW h \in Headers, FillHeader(c, h) PROVE StreamInv'
  <2>1. /\ phase[c] = "push" /\ step[c] = "fill" /\ phase' = phase /\ subject' = subject
        /\ cursor' = cursor /\ todo' = [todo EXCEPT ![c] = Tail(todo[c])]
        /\ step' = [step EXCEPT ![c] = IF todo'[c] = <<>> THEN "write" ELSE "fill"]
    BY <1>11 DEF FillHeader
  <2>2. todo[c] # <<>> /\ todo[c] \in Seq(Nat)
    BY <2>1, <1>2 DEF Part
  <2>3. /\ Tail(todo[c]) \in Seq(Nat)
        /\ DOMAIN Tail(todo[c]) = 1 .. Len(todo[c]) - 1
        /\ DOMAIN todo[c] = 1 .. Len(todo[c]) /\ Len(todo[c]) \in Nat
        /\ \A i \in DOMAIN Tail(todo[c]) : Tail(todo[c])[i] = todo[c][i + 1]
    BY <2>2, HeadTailProperties, LenProperties
  <2>4. todo'[c] = Tail(todo[c])
    BY <2>1, <1>2
  <2>5. \E st \in {"write", "fill"} :
            step' = [step EXCEPT ![c] = st] /\ (st = "fill" => Tail(todo[c]) # <<>>)
    BY <2>1, <2>4
  <2>6. PICK st \in {"write", "fill"} :
            step' = [step EXCEPT ![c] = st] /\ (st = "fill" => Tail(todo[c]) # <<>>)
    BY <2>5
  <2>7. Part("push", subject[c], st, Tail(todo[c]), topics')
    BY <2>1, <2>3, <2>6, <1>4, SMTT(30) DEF Part
  <2>8. phase' = [phase EXCEPT ![c] = "push"] /\ subject' = [subject EXCEPT ![c] = subject[c]]
        /\ cursor' = [cursor EXCEPT ![c] = cursor[c]]
        /\ subject[c] \in Seq(Nat) /\ cursor[c] \in Nat
    BY <2>1, <1>2
  <2>9. Moves(c, "push", subject[c], st, cursor[c], Tail(todo[c]))
    BY <2>1, <2>3, <2>6, <2>8 DEF Moves
  <2>10. QED
    BY <2>7, <2>9, <1>5a, Zenon
<1>12. ASSUME NEW c \in Conns, RefuseBatch(c) PROVE StreamInv'
  <2>1. /\ phase' = [phase EXCEPT ![c] = "ended"] /\ subject' = subject /\ cursor' = cursor
        /\ step' = [step EXCEPT ![c] = "read"] /\ todo' = [todo EXCEPT ![c] = <<>>]
    BY <1>12 DEF RefuseBatch, End
  <2>2. Part("ended", subject[c], "read", <<>>, topics') /\ <<>> \in Seq(Nat)
    BY DEF Part
  <2>3. Moves(c, "ended", subject[c], "read", cursor[c], <<>>)
    BY <2>1, <2>2, <1>2 DEF Moves
  <2>4. QED
    BY <2>2, <2>3, <1>5a, Zenon
<1>13. ASSUME NEW c \in Conns, WriteFails(c) PROVE StreamInv'
  <2>1. /\ phase' = [phase EXCEPT ![c] = "ended"] /\ subject' = subject /\ cursor' = cursor
        /\ step' = [step EXCEPT ![c] = "read"] /\ todo' = todo
    BY <1>13 DEF WriteFails, End
  <2>2. Part("ended", subject[c], "read", todo[c], topics')
    BY DEF Part
  <2>3. Moves(c, "ended", subject[c], "read", cursor[c], todo[c])
    BY <2>1, <1>2 DEF Moves
  <2>4. QED
    BY <2>2, <2>3, <1>5a, Zenon
<1>14. ASSUME NEW c \in Conns, BatchWritten(c) PROVE StreamInv'
  <2>1. /\ phase' = phase /\ subject' = subject /\ cursor' = cursor /\ todo' = todo
        /\ step' = [step EXCEPT ![c] = "read"]
    BY <1>14 DEF BatchWritten
  <2>2. Part(phase[c], subject[c], "read", todo[c], topics')
    BY <1>4 DEF Part
  <2>3. Moves(c, phase[c], subject[c], "read", cursor[c], todo[c])
    BY <2>1, <1>2 DEF Moves
  <2>4. QED
    BY <2>2, <2>3, <1>5a, Zenon
<1>15. ASSUME NEW c \in Conns,
              \/ (Ignore(c) \/ Return(c) \/ Leave(c)) /\ UNCHANGED pushVars
              \/ WriteBuffer(c) \/ Pull(c)
              \/ \E k \in Here.calls : Call(c, k) /\ UNCHANGED pushVars
              \/ \E header \in Here.forged : Forge(c, header) /\ UNCHANGED pushVars
              \/ \E b \in Noise : Scribble(c, b) /\ UNCHANGED pushVars
       PROVE  StreamInv'
  <2>1. phase' = phase /\ subject' = subject /\ step' = step /\ cursor' = cursor /\ todo' = todo
    BY <1>15 DEF Ignore, Return, Leave, WriteBuffer, Pull, Call, Forge, Scribble
  <2>2. QED
    BY <2>1, <1>6
<1>16. CASE CloseBroker \/ UNCHANGED vars \/ \E m \in Here.local : PublishLocally(m[1], m[2])
  <2>1. phase' = phase /\ subject' = subject /\ step' = step /\ cursor' = cursor /\ todo' = todo
    BY <1>16 DEF CloseBroker, PublishLocally, vars
  <2>2. QED
    BY <2>1, <1>6
<1>17. QED
  BY <1>7, <1>8, <1>9, <1>10, <1>11, <1>12, <1>13, <1>14, <1>15, <1>16, Zenon
  DEF Next, HandlerStep, StreamStep, ClientStep

\* A header and a payload behind the buffers of a batch.
LEMMA BuffersGrow ==
    ASSUME NEW old \in Seq(Buffer), NEW new \in Seq(Buffer), Len(new) = 2
    PROVE  /\ old \o new \in Seq(Buffer) /\ Len(old \o new) = Len(old) + 2 /\ Len(old) \in Nat
           /\ \A i \in 1 .. Len(old) : (old \o new)[i] = old[i]
           /\ \A i \in 1 .. 2 : (old \o new)[Len(old) + i] = new[i]
<1> DEFINE S == Buffer
<1>1. old \in Seq(S) /\ new \in Seq(S)
  OBVIOUS
<1> HIDE DEF S
<1>2. /\ old \o new \in Seq(S)
      /\ Len(old \o new) = Len(old) + Len(new)
      /\ \A i \in 1 .. Len(old) : (old \o new)[i] = old[i]
      /\ \A i \in 1 .. Len(new) : (old \o new)[Len(old) + i] = new[i]
      /\ Len(old) \in Nat /\ Len(new) \in Nat
  BY <1>1, ConcatBytes
<1>3. QED
  BY <1>2 DEF S

\* A header has one owner, whatever steps the streams take.
LEMMA PoolNext ==
    ASSUME DataInv, StreamInv, PoolInv, HeadersExclusive, [Next]_vars
    PROVE  PoolInv' /\ HeadersExclusive'
<1> USE DEF pushVars, streamVars, poolVars, readerVars, requestVars, brokerVars, clientVars,
            wireVars, serverVars
<1> DEFINE Owned(buffers, used) ==
               /\ buffers \in Seq(Buffer)
               /\ \A i \in 1 .. Len(buffers) : buffers[i].head \in used \union {NoHeader}
           Goal == PoolInv' /\ HeadersExclusive'
<1>1. /\ free \subseteq Headers
      /\ hdrs \in [Conns -> SUBSET Headers]
      /\ bufs \in [Conns -> Seq(Buffer)]
      /\ \A c, d \in Conns : c # d => hdrs[c] \intersect hdrs[d] = {}
      /\ \A c \in Conns : hdrs[c] \intersect free = {} /\ Owned(bufs[c], hdrs[c])
  <2>1. \A c \in Conns : DOMAIN bufs[c] = 1 .. Len(bufs[c])
    BY LenProperties DEF PoolInv
  <2>2. QED
    BY <2>1 DEF PoolInv, HeadersExclusive
<1>2. ASSUME free' \subseteq Headers, hdrs' \in [Conns -> SUBSET Headers],
             bufs' \in [Conns -> Seq(Buffer)],
             \A c, d \in Conns : c # d => hdrs'[c] \intersect hdrs'[d] = {},
             \A c \in Conns : hdrs'[c] \intersect free' = {} /\ Owned(bufs'[c], hdrs'[c])
      PROVE  Goal
  <2>1. \A c \in Conns : DOMAIN bufs'[c] = 1 .. Len(bufs'[c])
    BY <1>2, LenProperties
  <2>2. QED
    BY <1>2, <2>1 DEF PoolInv, HeadersExclusive
<1>3. ASSUME free' = free, hdrs' = hdrs, bufs' = bufs PROVE Goal
  BY <1>1, <1>2, <1>3
<1>4. Owned(<<>>, {})
  OBVIOUS
<1> HIDE DEF Goal, Owned
<1>5. ASSUME NEW c \in Conns, free' = free \union hdrs[c], hdrs' = [hdrs EXCEPT ![c] = {}],
             bufs' = [bufs EXCEPT ![c] = <<>>]
      PROVE  Goal
  <2>1. /\ free' \subseteq Headers
        /\ hdrs' \in [Conns -> SUBSET Headers]
        /\ bufs' \in [Conns -> Seq(Buffer)]
    BY <1>1, <1>5
  <2>2. hdrs'[c] = {} /\ bufs'[c] = <<>>
        /\ \A d \in Conns : d # c => hdrs'[d] = hdrs[d] /\ bufs'[d] = bufs[d]
    BY <1>1, <1>5
  <2>3. \A d, e \in Conns : d # e => hdrs'[d] \intersect hdrs'[e] = {}
    BY <2>2, <1>1
  <2>4. \A d \in Conns : hdrs'[d] \intersect free' = {}
    BY <2>2, <1>1, <1>5
  <2>5. \A d \in Conns : Owned(bufs'[d], hdrs'[d])
    BY <2>2, <1>1, <1>4
  <2>6. QED
    BY <2>1, <2>3, <2>4, <2>5, <1>2
<1>6. ASSUME NEW c \in Conns, RefuseBatch(c) \/ WriteFails(c) \/ BatchWritten(c) PROVE Goal
  <2>1. free' = free \union hdrs[c] /\ hdrs' = [hdrs EXCEPT ![c] = {}]
    BY <1>6 DEF RefuseBatch, WriteFails, BatchWritten, Release
  <2>2. bufs' = [bufs EXCEPT ![c] = <<>>]
    BY <1>1, <1>6 DEF RefuseBatch, WriteFails, BatchWritten
  <2>3. QED
    BY <2>1, <2>2, <1>5
<1>7. ASSUME NEW c \in Conns, NEW h \in Headers, FillHeader(c, h) PROVE Goal
  <2> DEFINE payload == Log(c)[Head(todo[c]) + 1].Payload
             new == <<HeaderBuf(h), PayloadBuf(payload)>>
             buffers == bufs[c] \o new
  <2>1. /\ phase[c] = "push" /\ step[c] = "fill" /\ h \in free
        /\ free' = free \ {h} /\ hdrs' = [hdrs EXCEPT ![c] = hdrs[c] \union {h}]
        /\ bufs' = [bufs EXCEPT ![c] = buffers]
    BY <1>7 DEF FillHeader
  <2>2. payload \in Seq(Nat)
    <3>1. /\ todo[c] # <<>> /\ todo[c] \in Seq(Nat) /\ subject[c] \in DOMAIN topics
          /\ \A i \in DOMAIN todo[c] : todo[c][i] < Len(Log(c))
      BY <2>1 DEF StreamInv
    <3>2. 1 \in DOMAIN todo[c] /\ Head(todo[c]) = todo[c][1] /\ todo[c][1] \in Nat
      BY <3>1, EmptySeq, LenProperties, ElementOfSeq
    <3>3. Log(c) \in Seq(Entry)
      BY <3>1 DEF DataInv, Log
    <3>4. Head(todo[c]) + 1 \in 1 .. Len(Log(c))
      BY <3>1, <3>2, <3>3, LenProperties
    <3>5. Log(c)[Head(todo[c]) + 1] \in Entry
      BY <3>3, <3>4, ElementOfSeq
    <3>6. QED
      BY <3>5 DEF Entry
  <2> HIDE DEF payload
  <2>3. new \in Seq(Buffer) /\ Len(new) = 2
        /\ new[1].head = h /\ new[2].head = NoHeader
    <3>1. HeaderBuf(h) \in Buffer /\ PayloadBuf(payload) \in Buffer
          /\ HeaderBuf(h).head = h /\ PayloadBuf(payload).head = NoHeader
      BY <2>2 DEF HeaderBuf, PayloadBuf, Buffer
    <3>2. QED
      BY <3>1
  <2> HIDE DEF new
  <2>4. bufs[c] \in Seq(Buffer) /\ Owned(bufs[c], hdrs[c])
    BY <1>1
  <2>5. /\ buffers \in Seq(Buffer) /\ Len(buffers) = Len(bufs[c]) + 2 /\ Len(bufs[c]) \in Nat
        /\ \A i \in 1 .. Len(bufs[c]) : buffers[i] = bufs[c][i]
        /\ \A i \in 1 .. 2 : buffers[Len(bufs[c]) + i] = new[i]
    BY <2>3, <2>4, BuffersGrow
  <2> HIDE DEF buffers
  <2>6. Owned(buffers, hdrs[c] \union {h})
    <3> SUFFICES ASSUME NEW i \in 1 .. Len(buffers)
                 PROVE  buffers[i].head \in hdrs[c] \union {h} \union {NoHeader}
      BY <2>5 DEF Owned
    <3>1. CASE i \in 1 .. Len(bufs[c])
      BY <3>1, <2>4, <2>5 DEF Owned
    <3>2. CASE i = Len(bufs[c]) + 1
      BY <3>2, <2>3, <2>5
    <3>3. CASE i = Len(bufs[c]) + 2
      BY <3>3, <2>3, <2>5
    <3>4. QED
      BY <3>1, <3>2, <3>3, <2>5
  <2>7. /\ free' \subseteq Headers
        /\ hdrs' \in [Conns -> SUBSET Headers]
        /\ bufs' \in [Conns -> Seq(Buffer)]
    BY <2>1, <2>5, <1>1
  <2>8. hdrs'[c] = hdrs[c] \union {h} /\ bufs'[c] = buffers
        /\ \A d \in Conns : d # c => hdrs'[d] = hdrs[d] /\ bufs'[d] = bufs[d]
    BY <2>1, <1>1
  <2>9. \A d, e \in Conns : d # e => hdrs'[d] \intersect hdrs'[e] = {}
    BY <2>1, <2>8, <1>1
  <2>10. \A d \in Conns : hdrs'[d] \intersect free' = {}
    BY <2>1, <2>8, <1>1
  <2>11. \A d \in Conns : Owned(bufs'[d], hdrs'[d])
    BY <2>6, <2>8, <1>1
  <2>12. QED
    BY <2>7, <2>9, <2>10, <2>11, <1>2
<1>8. ASSUME NEW c \in Conns, WriteBuffer(c) PROVE Goal
  <2>1. bufs[c] # <<>> /\ bufs' = [bufs EXCEPT ![c] = Tail(bufs[c])]
        /\ free' = free /\ hdrs' = hdrs
    BY <1>8 DEF WriteBuffer, KeepHeaders
  <2>2. bufs[c] \in Seq(Buffer) /\ Owned(bufs[c], hdrs[c])
    BY <1>1
  <2>3. /\ Tail(bufs[c]) \in Seq(Buffer)
        /\ Len(Tail(bufs[c])) = Len(bufs[c]) - 1 /\ Len(bufs[c]) \in Nat
        /\ \A i \in 1 .. Len(Tail(bufs[c])) : Tail(bufs[c])[i] = bufs[c][i + 1]
    BY <2>1, <2>2, HeadTailProperties, LenProperties
  <2>4. Owned(Tail(bufs[c]), hdrs[c])
    BY <2>2, <2>3 DEF Owned
  <2>5. bufs' \in [Conns -> Seq(Buffer)] /\ bufs'[c] = Tail(bufs[c])
        /\ \A d \in Conns : d # c => bufs'[d] = bufs[d]
    BY <2>1, <2>3, <1>1
  <2>6. \A d \in Conns : Owned(bufs'[d], hdrs'[d])
    BY <2>1, <2>4, <2>5, <1>1
  <2>7. QED
    BY <2>1, <2>5, <2>6, <1>1, <1>2
<1>9. ASSUME NEW c \in Conns,
             \/ HandlerStep(c) \/ ReadBatch(c) \/ StreamEnds(c) \/ ClientStep(c)
             \/ \E k \in Here.calls : Call(c, k) /\ UNCHANGED pushVars
             \/ \E header \in Here.forged : Forge(c, header) /\ UNCHANGED pushVars
             \/ \E b \in Noise : Scribble(c, b) /\ UNCHANGED pushVars
             \/ Leave(c) /\ UNCHANGED pushVars
      PROVE  Goal
  <2>1. free' = free /\ hdrs' = hdrs /\ bufs' = bufs
    BY <1>9 DEF HandlerStep, ReadBatch, StreamEnds, ClientStep, Pull
  <2>2. QED
    BY <2>1, <1>3
<1>10. CASE CloseBroker \/ UNCHANGED vars \/ \E m \in Here.local : PublishLocally(m[1], m[2])
  <2>1. free' = free /\ hdrs' = hdrs /\ bufs' = bufs
    BY <1>10 DEF CloseBroker, PublishLocally, vars
  <2>2. Goal
    BY <2>1, <1>3
  <2>3. QED
    BY <2>2 DEF Goal
<1>11. CASE \E c \in Conns :
               \/ HandlerStep(c) \/ StreamStep(c) \/ ClientStep(c) \/ WriteFails(c)
               \/ \E k \in Here.calls : Call(c, k) /\ UNCHANGED pushVars
               \/ \E header \in Here.forged : Forge(c, header) /\ UNCHANGED pushVars
               \/ \E b \in Noise : Scribble(c, b) /\ UNCHANGED pushVars
               \/ Leave(c) /\ UNCHANGED pushVars
  <2>1. Goal
    BY <1>11, <1>6, <1>7, <1>8, <1>9, Zenon DEF StreamStep
  <2>2. QED
    BY <2>1 DEF Goal
<1>12. QED
  BY <1>10, <1>11, Zenon DEF Next

-----------------------------------------------------------------------------
\* What is typed, stored and never misread: the theorems

\* In every reachable state the data is what the wire and the logs can hold,
\* and every stream reads what is there.
THEOREM Typed == Spec => [](DataInv /\ StreamInv)
<1>1. PushInit => DataInv /\ StreamInv
  BY DataInit
<1>2. DataInv /\ StreamInv /\ [Next]_vars => (DataInv /\ StreamInv)'
  BY DataNext, StreamNext
<1>3. QED
  BY <1>1, <1>2, PTL DEF Spec

\* A message that was accepted over the network can be pushed: its frame is
\* within the limit, for any peer and any length of topic (frame.go:24).
THEOREM StoredFits == Spec => []StoredFitsPush
<1>1. PushInit => DataInv /\ StoredFitsPush
  <2>1. PushInit => \A t \in DOMAIN topics : topics[t] = <<>>
    BY DEF PushInit, Init
  <2>2. QED
    BY <2>1, DataInit DEF StoredFitsPush
<1>2. DataInv /\ StoredFitsPush /\ [Next]_vars => (DataInv /\ StoredFitsPush)'
  BY DataNext, NextLogs, LogStepFits
<1>3. QED
  BY <1>1, <1>2, PTL DEF Spec

\* A header is in the pool or in one batch, and one that is still to be written
\* is in the batch that writes it: no other stream can fill it (msgHeaderPool).
THEOREM HeadersStay == Spec => [](PoolInv /\ HeadersExclusive)
<1>1. PushInit => PoolInv /\ HeadersExclusive
  <2>1. PushInit => \A c \in Conns : hdrs[c] = {} /\ bufs[c] = <<>>
    BY DEF PushInit
  <2>2. QED
    BY <2>1, DataInit DEF HeadersExclusive
<1>2. DataInv /\ StreamInv /\ PoolInv /\ HeadersExclusive /\ [Next]_vars
          => (PoolInv /\ HeadersExclusive)'
  BY PoolNext
<1>3. QED
  BY <1>1, <1>2, Typed, PTL DEF Spec


\* Bytes of a stranger that are no longer than an int can count are decoded
\* for what they are.
LEMMA BytesNotMisread == ASSUME DataInv PROVE NothingMisread
<1> SUFFICES ASSUME NEW c \in Conns, pc[c] \in {"forging", "gone"}
             PROVE  LET p == Draft(c)
                        publish == DecodePublish(p)
                        batch == DecodePublishBatch(p)
                        names == DecodeTopics(p)
                        message == DecodeMessage(p)
                        error == DecodeError(p)
                    IN  /\ ReadFrame(up[c]).err # "panic"
                        /\ \A scan \in {publish, batch, names, message, error} :
                              scan.err # "panic" /\ scan.pos <= Len(p) /\ scan.room <= Len(p)
                        /\ Exact(p, publish, EncodePublish(publish.fields[1], publish.fields[2]))
                        /\ Exact(p, batch, EncodePublishBatch(batch.fields[1], Tail(batch.fields)))
                        /\ Exact(p, names, EncodeTopics(names.fields))
                        /\ Exact(p, message,
                                 EncodeMessage(At(p, 0, Len64), message.fields[1]))
                        /\ Exact(p, error, EncodeError(At(p, 0, Len16), error.fields[1]))
  BY DEF NothingMisread
<1> DEFINE p == Draft(c)
<1>1. up[c] \in Seq(Byte) /\ Len(up[c]) <= HeaderLen + IntMax /\ Len(up[c]) \in Nat
  BY LenProperties DEF DataInv
<1>2. Byte \subseteq Nat /\ HeaderLen \in Nat /\ IntMax \in Nat
  BY CodecAssumption DEF Byte, HeaderLen
<1>3. p \in Seq(Byte) /\ Len(p) <= IntMax
  <2>1. CASE HeaderLen <= Len(up[c])
    <3>1. Len(up[c]) <= Len(up[c])
      BY <1>1
    <3>2. p \in Seq(Byte) /\ Len(p) = Len(up[c]) - HeaderLen
      BY <2>1, <3>1, <1>1, <1>2, PartOfSeq DEF Draft
    <3> HIDE DEF p
    <3>3. QED
      BY <3>2, <1>1, <1>2
  <2>2. CASE Len(up[c]) < HeaderLen
    <3>1. Len(up[c]) < HeaderLen + 1 /\ HeaderLen + 1 \in Int /\ Len(up[c]) \in Int
      BY <2>2, <1>1, <1>2
    <3>2. p = <<>>
      BY <3>1, SubSeqEmpty DEF Draft
    <3>3. <<>> \in Seq(Byte) /\ Len(<<>>) = 0
      OBVIOUS
    <3> HIDE DEF p
    <3>4. QED
      BY <3>2, <3>3, <1>2
  <2>3. QED
    BY <2>1, <2>2, <1>1, <1>2
<1>4. p \in Seq(Nat)
  BY <1>2, <1>3, WiderSeq
<1> HIDE DEF p
<1>5. \A scan \in {DecodePublish(p), DecodePublishBatch(p), DecodeMessage(p),
                   DecodeTopics(p), DecodeError(p)} :
          scan.err # "panic" /\ scan.pos <= Len(p) /\ scan.room <= Len(p)
  BY <1>3, <1>4, DecodersScan DEF Tame
<1>6. /\ Exact(p, DecodePublish(p),
               EncodePublish(DecodePublish(p).fields[1], DecodePublish(p).fields[2]))
      /\ Exact(p, DecodePublishBatch(p),
               EncodePublishBatch(DecodePublishBatch(p).fields[1],
                                  Tail(DecodePublishBatch(p).fields)))
      /\ Exact(p, DecodeTopics(p), EncodeTopics(DecodeTopics(p).fields))
      /\ Exact(p, DecodeMessage(p),
               EncodeMessage(At(p, 0, Len64), DecodeMessage(p).fields[1]))
      /\ Exact(p, DecodeError(p), EncodeError(At(p, 0, Len16), DecodeError(p).fields[1]))
  BY <1>3, DecodersAreExact, Zenon DEF Exact
<1>7. ReadFrame(up[c]).err # "panic"
  <2>1. ReadFrame(up[c]).err \in {"none", "truncated", "magic", "version", "toolarge"}
    BY <1>1, <1>2, ReadFrameProperties
  <2>2. QED
    BY <2>1
<1>8. QED
  BY <1>5, <1>6, <1>7, Zenon DEF p

\* Whatever bytes come, no decoder leaves its input, takes a negative length,
\* reserves room for more entries than the input could hold, or finds a field
\* that is not there (fuzz_test.go, frame.go:92).
THEOREM Unmistaken == Spec => []NothingMisread
<1>1. DataInv => NothingMisread
  BY BytesNotMisread
<1>2. QED
  BY <1>1, Typed, PTL

-----------------------------------------------------------------------------
\* Sequences and frames

\* Four sequences in a row, however they are put together.
InARow(a, b, c, d) == ((a \o b) \o c) \o d = a \o (b \o (c \o d))

\* Putting sequences together is associative.
LEMMA ConcatFour ==
    ASSUME NEW a \in Seq(Nat), NEW b \in Seq(Nat), NEW c \in Seq(Nat), NEW d \in Seq(Nat)
    PROVE  InARow(a, b, c, d)
<1> DEFINE e == a \o b
           f == c \o d
<1>1. e \in Seq(Nat) /\ f \in Seq(Nat)
  BY ConcatBytes
<1> HIDE DEF e, f
<1>2. (e \o c) \o d = e \o (c \o d)
  BY <1>1, ConcatAssociative, SMTT(60)
<1>3. (a \o b) \o f = a \o (b \o f)
  BY <1>1, ConcatAssociative, SMTT(60)
<1>4. QED
  BY <1>2, <1>3, Zenon DEF e, f, InARow

\* Two lists of sequences in a row.
Joined(s, t) ==
    /\ s \o t \in Seq(Seq(Nat)) /\ Len(s \o t) = Len(s) + Len(t)
    /\ \A k \in 1 .. Len(s) : (s \o t)[k] = s[k]
    /\ \A k \in 1 .. Len(t) : (s \o t)[Len(s) + k] = t[k]

\* Two lists of byte sequences make one.
LEMMA ConcatLists ==
    ASSUME NEW s \in Seq(Seq(Nat)), NEW t \in Seq(Seq(Nat))
    PROVE  Joined(s, t)
<1>1. ASSUME NEW S, NEW x \in Seq(S), NEW y \in Seq(S)
      PROVE  /\ x \o y \in Seq(S) /\ Len(x \o y) = Len(x) + Len(y)
             /\ \A k \in 1 .. Len(x) : (x \o y)[k] = x[k]
             /\ \A k \in 1 .. Len(y) : (x \o y)[Len(x) + k] = y[k]
  BY ConcatBytes
<1>2. QED
  BY <1>1 DEF Joined

\* The header and the payload of a pushed message are a frame.
LEMMA PushFrameBytes ==
    ASSUME NEW offset \in Nat, NEW payload \in Seq(Nat)
    PROVE  /\ PushFrame(offset, payload) \in Seq(Nat)
           /\ Len(PushFrame(offset, payload)) \in Nat \ {0}
           /\ MessageHeader(offset, Len(payload)) \in Seq(Nat)
           /\ MessageHeader(offset, Len(payload)) \o payload = PushFrame(offset, payload)
           /\ OpMessage \in Nat /\ EncodeMessage(offset, payload) \in Seq(Nat)
<1> DEFINE n == Len(payload)
           message == EncodeMessage(offset, payload)
           intro == Header(OpMessage, MetaLen + n)
           number == Put(offset, Len64)
           digits == Put(n, Len32)
<1>1. /\ n \in Nat /\ Len64 \in Nat /\ Len32 \in Nat \ {0} /\ OpMessage \in Nat
      /\ MetaLen = Len64 + Len32
  BY LenProperties, CodecAssumption DEF OpMessage, MetaLen
<1>2. number \in Seq(Nat) /\ digits \in Seq(Nat) /\ Len(number) = Len64 /\ Len(digits) = Len32
  BY <1>1, PutBytes
<1>3. message \in Seq(Nat) /\ Len(message) = MetaLen + n
  BY MessageBytes
<1>4. message = number \o (digits \o payload)
  BY DEF EncodeMessage, PutString
<1>5. /\ PushFrame(offset, payload) \in Seq(Nat)
      /\ Len(PushFrame(offset, payload)) = HeaderLen + Len(message)
      /\ intro \in Seq(Nat) /\ HeaderLen \in Nat \ {0}
  <2>1. /\ EncodeFrame(OpMessage, message) \in Seq(Nat)
        /\ Len(EncodeFrame(OpMessage, message)) = HeaderLen + Len(message)
        /\ Header(OpMessage, Len(message)) \in Seq(Nat)
    BY <1>1, <1>3, FrameBytes
  <2>2. HeaderLen \in Nat \ {0}
    BY <1>1 DEF HeaderLen
  <2>3. QED
    BY <2>1, <2>2, <1>3 DEF PushFrame
<1>6. PushFrame(offset, payload) = intro \o message
  BY <1>3 DEF PushFrame, EncodeFrame
<1>7. MessageHeader(offset, n) = (intro \o number) \o digits
  BY DEF MessageHeader
<1> HIDE DEF n, message, intro, number, digits
<1>8. MessageHeader(offset, n) \in Seq(Nat)
  <2>1. intro \o number \in Seq(Nat)
    BY <1>2, <1>5, ConcatBytes
  <2> DEFINE t == intro \o number
  <2> HIDE DEF t
  <2>2. t \o digits \in Seq(Nat)
    BY <2>1, <1>2, ConcatBytes DEF t
  <2>3. QED
    BY <2>2, <1>7, Zenon DEF t
<1>9. ((intro \o number) \o digits) \o payload = intro \o (number \o (digits \o payload))
  <2>1. intro \in Seq(Nat) /\ number \in Seq(Nat) /\ digits \in Seq(Nat) /\ payload \in Seq(Nat)
    BY <1>2, <1>5
  <2>2. InARow(intro, number, digits, payload)
    BY <2>1, ConcatFour
  <2>3. QED
    BY <2>2, Zenon DEF InARow
<1>10. MessageHeader(offset, n) \o payload = PushFrame(offset, payload)
  BY <1>4, <1>6, <1>7, <1>9, Zenon
<1>11. Len(PushFrame(offset, payload)) \in Nat \ {0}
  BY <1>1, <1>3, <1>5
<1>12. QED
  BY <1>1, <1>3, <1>5, <1>8, <1>10, <1>11 DEF n, message

\* The frames of the messages from offset i to below j.
FrameList(log, i, j) == [m \in 1 .. j - i |-> PushFrame(i + m - 1, log[i + m].Payload)]

\* They are sequences of bytes, one for each message.
LEMMA FrameListBytes ==
    ASSUME NEW log \in Seq(Entry), NEW i \in Nat, NEW j \in Nat, i <= j, j <= Len(log)
    PROVE  /\ FrameList(log, i, j) \in Seq(Seq(Nat))
           /\ Len(FrameList(log, i, j)) = j - i
           /\ \A m \in 1 .. j - i :
                 FrameList(log, i, j)[m] = PushFrame(i + m - 1, log[i + m].Payload)
           /\ Frames(log, i, j) = FlattenSeq(FrameList(log, i, j))
           /\ Frames(log, i, j) \in Seq(Nat)
<1>1. Len(log) \in Nat
  BY LenProperties
<1>2. ASSUME NEW m \in 1 .. j - i PROVE PushFrame(i + m - 1, log[i + m].Payload) \in Seq(Nat)
  <2>1. i + m \in 1 .. Len(log) /\ i + m - 1 \in Nat
    BY <1>1
  <2>2. log[i + m] \in Entry
    BY <2>1, ElementOfSeq
  <2>3. log[i + m].Payload \in Seq(Nat)
    BY <2>2 DEF Entry
  <2>4. QED
    BY <2>1, <2>3, PushFrameBytes
<1>3. /\ FrameList(log, i, j) \in Seq(Seq(Nat))
      /\ Len(FrameList(log, i, j)) = j - i
      /\ \A m \in 1 .. j - i : FrameList(log, i, j)[m] = PushFrame(i + m - 1, log[i + m].Payload)
  BY <1>2 DEF FrameList
<1>4. Frames(log, i, j) = FlattenSeq(FrameList(log, i, j))
  BY DEF Frames, FrameList
<1>5. QED
  BY <1>3, <1>4, FlattenBytes

\* The frames up to m and from there on.
LEMMA FramesJoin ==
    ASSUME NEW log \in Seq(Entry), NEW i \in Nat, NEW m \in Nat, NEW j \in Nat,
           i <= m, m <= j, j <= Len(log)
    PROVE  Frames(log, i, j) = Frames(log, i, m) \o Frames(log, m, j)
<1> DEFINE a == FrameList(log, i, m)
           b == FrameList(log, m, j)
           c == FrameList(log, i, j)
<1>1. Len(log) \in Nat /\ i <= j /\ m <= Len(log)
  BY LenProperties
<1>2. /\ a \in Seq(Seq(Nat)) /\ Len(a) = m - i /\ b \in Seq(Seq(Nat)) /\ Len(b) = j - m
      /\ c \in Seq(Seq(Nat)) /\ Len(c) = j - i
      /\ Frames(log, i, m) = FlattenSeq(a) /\ Frames(log, m, j) = FlattenSeq(b)
      /\ Frames(log, i, j) = FlattenSeq(c)
  BY <1>1, FrameListBytes
<1>3. /\ \A k \in 1 .. m - i : a[k] = PushFrame(i + k - 1, log[i + k].Payload)
      /\ \A k \in 1 .. j - m : b[k] = PushFrame(m + k - 1, log[m + k].Payload)
      /\ \A k \in 1 .. j - i : c[k] = PushFrame(i + k - 1, log[i + k].Payload)
  BY <1>1, FrameListBytes
<1> HIDE DEF a, b, c
<1>4. /\ a \o b \in Seq(Seq(Nat)) /\ Len(a \o b) = (m - i) + (j - m)
      /\ \A k \in 1 .. m - i : (a \o b)[k] = a[k]
      /\ \A k \in 1 .. j - m : (a \o b)[(m - i) + k] = b[k]
  <2>1. Joined(a, b)
    BY <1>2, ConcatLists
  <2>2. Len(a) = m - i /\ Len(b) = j - m
    BY <1>2
  <2>3. QED
    BY <2>1, <2>2, Zenon DEF Joined
<1>5. c = a \o b
  <2> DEFINE d == a \o b
  <2> HIDE DEF d
  <2>1. d \in Seq(Seq(Nat)) /\ Len(d) = j - i
    BY <1>4 DEF d
  <2>2. ASSUME NEW k \in 1 .. j - i PROVE c[k] = d[k]
    <3>1. CASE k <= m - i
      <4>1. k \in 1 .. m - i
        BY <3>1
      <4>2. QED
        BY <4>1, <1>3, <1>4 DEF d
    <3>2. CASE k > m - i
      <4> DEFINE l == k - (m - i)
      <4>1. l \in 1 .. j - m /\ (m - i) + l = k /\ m + l = i + k /\ m + l - 1 = i + k - 1
        BY <3>2
      <4> HIDE DEF l
      <4>2. d[(m - i) + l] = b[l] /\ b[l] = PushFrame(m + l - 1, log[m + l].Payload)
        BY <4>1, <1>3, <1>4 DEF d
      <4>3. d[k] = PushFrame(i + k - 1, log[i + k].Payload)
        BY <4>1, <4>2, Zenon
      <4>4. QED
        BY <4>3, <1>3
    <3>3. QED
      BY <3>1, <3>2
  <2>3. \A k \in 1 .. Len(c) : c[k] = d[k]
    BY <2>2, <1>2
  <2>4. QED
    BY <2>1, <2>3, <1>2, SeqEqual DEF d
<1>6. QED
  BY <1>2, <1>5, FlattenConcat

\* No frames, one frame, and that frames take room.
LEMMA FramesSmall ==
    ASSUME NEW log \in Seq(Entry), NEW i \in Nat
    PROVE  /\ Frames(log, i, i) = <<>>
           /\ i < Len(log) => /\ log[i + 1].Payload \in Seq(Nat)
                              /\ Frames(log, i, i + 1) = PushFrame(i, log[i + 1].Payload)
<1>1. Frames(log, i, i) = <<>>
  <2>1. [m \in 1 .. i - i |-> PushFrame(i + m - 1, log[i + m].Payload)] = <<>>
    OBVIOUS
  <2>2. QED
    BY <2>1, FlattenSmall DEF Frames
<1>2. ASSUME i < Len(log)
      PROVE  /\ log[i + 1].Payload \in Seq(Nat)
             /\ Frames(log, i, i + 1) = PushFrame(i, log[i + 1].Payload)
  <2>1. i + 1 \in 1 .. Len(log) /\ (i + 1) - i = 1 /\ i + 1 - 1 = i /\ i + 1 \in Nat /\ i <= i + 1
        /\ i + 1 <= Len(log)
    BY <1>2, LenProperties
  <2>2. log[i + 1].Payload \in Seq(Nat)
    <3>1. log[i + 1] \in Entry
      BY <2>1, ElementOfSeq
    <3>2. QED
      BY <3>1 DEF Entry
  <2> DEFINE s == PushFrame(i, log[i + 1].Payload)
             t == FrameList(log, i, i + 1)
  <2>3. s \in Seq(Nat)
    BY <2>2, PushFrameBytes
  <2>4. /\ t \in Seq(Seq(Nat)) /\ Len(t) = (i + 1) - i
        /\ \A m \in 1 .. (i + 1) - i : t[m] = PushFrame(i + m - 1, log[i + m].Payload)
        /\ Frames(log, i, i + 1) = FlattenSeq(t)
    BY <2>1, FrameListBytes
  <2>5. t \in Seq(Seq(Nat)) /\ Len(t) = 1 /\ t[1] = s
    <3>1. 1 \in 1 .. (i + 1) - i
      BY <2>1
    <3>2. t[1] = PushFrame(i + 1 - 1, log[i + 1].Payload)
      BY <2>4, <3>1
    <3>3. QED
      BY <3>2, <2>1, <2>4
  <2> HIDE DEF s, t
  <2>6. t = <<s>>
    BY <2>5
  <2>7. QED
    BY <2>2, <2>3, <2>4, <2>6, FlattenSmall DEF s
<1>3. QED
  BY <1>1, <1>2

\* The first frame, and the next one behind the last.
LEMMA FramesUnfold ==
    ASSUME NEW log \in Seq(Entry), NEW i \in Nat, NEW j \in Nat, i <= j, j <= Len(log)
    PROVE  /\ i < j => /\ log[i + 1].Payload \in Seq(Nat)
                       /\ Frames(log, i, j)
                             = PushFrame(i, log[i + 1].Payload) \o Frames(log, i + 1, j)
                       /\ Frames(log, i, j) # <<>>
           /\ j < Len(log) => /\ log[j + 1].Payload \in Seq(Nat)
                              /\ Frames(log, i, j + 1)
                                    = Frames(log, i, j) \o PushFrame(j, log[j + 1].Payload)
<1>1. Len(log) \in Nat
  BY LenProperties
<1>2. ASSUME i < j
      PROVE  /\ log[i + 1].Payload \in Seq(Nat)
             /\ Frames(log, i, j) = PushFrame(i, log[i + 1].Payload) \o Frames(log, i + 1, j)
             /\ Frames(log, i, j) # <<>>
  <2>1. i < Len(log) /\ i + 1 \in Nat /\ i <= i + 1 /\ i + 1 <= j
    BY <1>1, <1>2
  <2>2. /\ log[i + 1].Payload \in Seq(Nat)
        /\ Frames(log, i, i + 1) = PushFrame(i, log[i + 1].Payload)
    BY <2>1, FramesSmall
  <2>3. Frames(log, i, j) = Frames(log, i, i + 1) \o Frames(log, i + 1, j)
    BY <2>1, FramesJoin
  <2> DEFINE s == PushFrame(i, log[i + 1].Payload)
             t == Frames(log, i + 1, j)
  <2>4. s \in Seq(Nat) /\ Len(s) \in Nat \ {0} /\ t \in Seq(Nat)
    BY <2>1, <2>2, PushFrameBytes, FrameListBytes
  <2>5. Frames(log, i, j) = s \o t
    BY <2>2, <2>3, Zenon
  <2> HIDE DEF s, t
  <2>6. s \o t # <<>>
    <3>1. Len(s \o t) = Len(s) + Len(t) /\ Len(t) \in Nat
      BY <2>4, ConcatBytes
    <3>2. QED
      BY <3>1, <2>4
  <2>7. QED
    BY <2>2, <2>5, <2>6 DEF s, t
<1>3. ASSUME j < Len(log)
      PROVE  /\ log[j + 1].Payload \in Seq(Nat)
             /\ Frames(log, i, j + 1)
                                    = Frames(log, i, j) \o PushFrame(j, log[j + 1].Payload)
  <2>1. j + 1 \in Nat /\ j <= j + 1 /\ j + 1 <= Len(log)
    BY <1>1, <1>3
  <2>2. /\ log[j + 1].Payload \in Seq(Nat)
        /\ Frames(log, j, j + 1) = PushFrame(j, log[j + 1].Payload)
    BY <1>3, FramesSmall
  <2>3. Frames(log, i, j + 1) = Frames(log, i, j) \o Frames(log, j, j + 1)
    BY <2>1, FramesJoin
  <2>4. QED
    BY <2>2, <2>3, Zenon
<1>4. QED
  BY <1>2, <1>3

\* What is appended to a log changes no frame before it.
LEMMA FramesStay ==
    ASSUME NEW log \in Seq(Entry), NEW more \in Seq(Entry), Grows(log, more),
           NEW i \in Nat, NEW j \in Nat, i <= j, j <= Len(log)
    PROVE  Frames(more, i, j) = Frames(log, i, j)
<1>1. Len(log) \in Nat
  BY LenProperties
<1>2. \A m \in 1 .. j - i : more[i + m] = log[i + m]
  <2>1. \A m \in 1 .. j - i : i + m \in 1 .. Len(log)
    BY <1>1
  <2>2. QED
    BY <2>1 DEF Grows
<1>3. [m \in 1 .. j - i |-> PushFrame(i + m - 1, more[i + m].Payload)]
         = [m \in 1 .. j - i |-> PushFrame(i + m - 1, log[i + m].Payload)]
  BY <1>2
<1>4. QED
  BY <1>3 DEF Frames

\* The bytes of the buffers bs, when the headers are hd.
BytesOf(hd, buf) == IF buf.head = NoHeader THEN buf.data ELSE hd[buf.head]
BytesList(hd, bs) == [m \in DOMAIN bs |-> BytesOf(hd, bs[m])]

\* They are bytes if the headers are.
LEMMA BytesListBytes ==
    ASSUME NEW hd \in [Headers -> Seq(Nat)], NEW bs \in Seq(Buffer)
    PROVE  /\ BytesList(hd, bs) \in Seq(Seq(Nat))
           /\ Len(BytesList(hd, bs)) = Len(bs)
           /\ \A m \in 1 .. Len(bs) : /\ BytesList(hd, bs)[m] = BytesOf(hd, bs[m])
                                      /\ BytesOf(hd, bs[m]) \in Seq(Nat)
<1>1. Len(bs) \in Nat /\ DOMAIN bs = 1 .. Len(bs) /\ \A m \in 1 .. Len(bs) : bs[m] \in Buffer
  BY LenProperties, ElementOfSeq
<1>2. \A buf \in Buffer : BytesOf(hd, buf) \in Seq(Nat)
  BY DEF BytesOf, Buffer
<1>3. \A m \in 1 .. Len(bs) : BytesOf(hd, bs[m]) \in Seq(Nat)
  BY <1>1, <1>2
<1>4. QED
  BY <1>1, <1>3 DEF BytesList

\* The first buffer, and those behind it.
LEMMA BytesListHead ==
    ASSUME NEW hd \in [Headers -> Seq(Nat)], NEW bs \in Seq(Buffer), bs # <<>>
    PROVE  /\ BytesOf(hd, Head(bs)) \in Seq(Nat)
           /\ Tail(bs) \in Seq(Buffer)
           /\ FlattenSeq(BytesList(hd, Tail(bs))) \in Seq(Nat)
           /\ FlattenSeq(BytesList(hd, bs))
                 = BytesOf(hd, Head(bs)) \o FlattenSeq(BytesList(hd, Tail(bs)))
<1> DEFINE x == BytesOf(hd, Head(bs))
           rest == Tail(bs)
           a == <<x>>
           b == BytesList(hd, rest)
           c == BytesList(hd, bs)
<1>1. /\ Len(bs) \in Nat \ {0} /\ rest \in Seq(Buffer) /\ Len(rest) = Len(bs) - 1
      /\ Head(bs) = bs[1] /\ \A m \in 1 .. Len(rest) : rest[m] = bs[m + 1]
  BY LenProperties, EmptySeq, HeadTailProperties
<1>2. x \in Seq(Nat) /\ 1 \in 1 .. Len(bs)
  BY <1>1, BytesListBytes, SMTT(30)
<1> HIDE DEF rest
<1>3. /\ b \in Seq(Seq(Nat)) /\ Len(b) = Len(bs) - 1 /\ c \in Seq(Seq(Nat)) /\ Len(c) = Len(bs)
      /\ \A m \in 1 .. Len(bs) - 1 : b[m] = BytesOf(hd, rest[m])
      /\ \A m \in 1 .. Len(bs) : c[m] = BytesOf(hd, bs[m])
  BY <1>1, BytesListBytes
<1>4. a \in Seq(Seq(Nat)) /\ Len(a) = 1 /\ a[1] = x
  BY <1>2
<1>5. c[1] = x /\ \A m \in 1 .. Len(bs) - 1 : c[m + 1] = b[m]
  <2>1. \A m \in 1 .. Len(bs) - 1 : m + 1 \in 1 .. Len(bs) /\ rest[m] = bs[m + 1]
    BY <1>1
  <2>2. QED
    BY <2>1, <1>1, <1>2, <1>3
<1> HIDE DEF a, b, c, x
<1>6. Joined(a, b)
  BY <1>3, <1>4, ConcatLists
<1>7. c = a \o b
  <2> DEFINE d == a \o b
  <2>1. d \in Seq(Seq(Nat)) /\ Len(d) = 1 + (Len(bs) - 1) /\ d[1] = x
        /\ \A m \in 1 .. Len(bs) - 1 : d[1 + m] = b[m]
    <3>1. /\ a \o b \in Seq(Seq(Nat)) /\ Len(a \o b) = Len(a) + Len(b)
          /\ \A k \in 1 .. Len(a) : (a \o b)[k] = a[k]
          /\ \A k \in 1 .. Len(b) : (a \o b)[Len(a) + k] = b[k]
      BY <1>6 DEF Joined
    <3> HIDE DEF d
    <3>2. /\ d \in Seq(Seq(Nat)) /\ Len(d) = Len(a) + Len(b)
          /\ \A k \in 1 .. Len(a) : d[k] = a[k]
          /\ \A k \in 1 .. Len(b) : d[Len(a) + k] = b[k]
      BY <3>1 DEF d
    <3>3. 1 \in 1 .. Len(a) /\ Len(b) = Len(bs) - 1 /\ Len(a) = 1
      BY <1>3, <1>4
    <3>4. QED
      BY <3>2, <3>3, <1>4
  <2> HIDE DEF d
  <2>2. ASSUME NEW m \in 1 .. Len(bs) PROVE c[m] = d[m]
    <3>1. CASE m = 1
      BY <3>1, <2>1, <1>5
    <3>2. CASE m # 1
      <4>1. m - 1 \in 1 .. Len(bs) - 1 /\ (m - 1) + 1 = m /\ 1 + (m - 1) = m
        BY <3>2, <1>1
      <4>2. QED
        BY <4>1, <2>1, <1>5, Zenon
    <3>3. QED
      BY <3>1, <3>2
  <2>3. Len(d) = Len(bs)
    BY <2>1, <1>1
  <2>4. QED
    BY <2>1, <2>2, <2>3, <1>3, SeqEqual DEF d
<1>8. FlattenSeq(c) = FlattenSeq(a) \o FlattenSeq(b)
  BY <1>3, <1>4, <1>7, FlattenConcat
<1>9. FlattenSeq(a) = x /\ FlattenSeq(b) \in Seq(Nat)
  BY <1>2, <1>3, FlattenSmall, FlattenBytes DEF a
<1>10. QED
  BY <1>1, <1>2, <1>8, <1>9 DEF x, rest, b, c

\* A header that no buffer uses may be filled.
LEMMA BytesListStays ==
    ASSUME NEW hd \in [Headers -> Seq(Nat)], NEW bs \in Seq(Buffer), NEW h \in Headers,
           \A m \in 1 .. Len(bs) : bs[m].head # h, NEW x \in Seq(Nat)
    PROVE  BytesList([hd EXCEPT ![h] = x], bs) = BytesList(hd, bs)
<1>1. DOMAIN bs = 1 .. Len(bs) /\ \A m \in 1 .. Len(bs) : bs[m] \in Buffer
  BY LenProperties, ElementOfSeq
<1>2. \A m \in 1 .. Len(bs) : BytesOf([hd EXCEPT ![h] = x], bs[m]) = BytesOf(hd, bs[m])
  BY <1>1 DEF BytesOf, Buffer
<1>3. QED
  BY <1>1, <1>2 DEF BytesList

\* A header and a payload behind the others.
LEMMA BytesListAppend ==
    ASSUME NEW hd \in [Headers -> Seq(Nat)], NEW bs \in Seq(Buffer), NEW h \in Headers,
           NEW p \in Seq(Nat)
    PROVE  FlattenSeq(BytesList(hd, bs \o <<HeaderBuf(h), PayloadBuf(p)>>))
              = FlattenSeq(BytesList(hd, bs)) \o (hd[h] \o p)
<1> DEFINE x == hd[h]
           two == <<HeaderBuf(h), PayloadBuf(p)>>
           a == BytesList(hd, bs)
           b == <<x>>
           c == <<p>>
           all == bs \o two
           d == BytesList(hd, all)
<1>1. x \in Seq(Nat) /\ <<>> \in Seq(Nat) /\ NoHeader \notin Headers
  BY PushAssumption
<1>2. HeaderBuf(h) \in Buffer /\ PayloadBuf(p) \in Buffer
      /\ BytesOf(hd, HeaderBuf(h)) = x /\ BytesOf(hd, PayloadBuf(p)) = p
  BY <1>1 DEF HeaderBuf, PayloadBuf, Buffer, BytesOf
<1>3. two \in Seq(Buffer) /\ Len(two) = 2 /\ two[1] = HeaderBuf(h) /\ two[2] = PayloadBuf(p)
  BY <1>2
<1> HIDE DEF two, x
<1>4. /\ all \in Seq(Buffer) /\ Len(all) = Len(bs) + 2 /\ Len(bs) \in Nat
      /\ \A m \in 1 .. Len(bs) : all[m] = bs[m]
      /\ all[Len(bs) + 1] = HeaderBuf(h) /\ all[Len(bs) + 2] = PayloadBuf(p)
  <2>1. /\ bs \o two \in Seq(Buffer) /\ Len(bs \o two) = Len(bs) + Len(two)
        /\ \A m \in 1 .. Len(bs) : (bs \o two)[m] = bs[m]
        /\ \A m \in 1 .. Len(two) : (bs \o two)[Len(bs) + m] = two[m]
        /\ Len(bs) \in Nat
    <3>1. two \in Seq(Buffer)
      BY <1>3
    <3> DEFINE S == Buffer
    <3>2. bs \in Seq(S) /\ two \in Seq(S)
      BY <3>1
    <3> HIDE DEF S
    <3>3. QED
      BY <3>2, ConcatBytes DEF S
  <2>2. 1 \in 1 .. Len(two) /\ 2 \in 1 .. Len(two)
    BY <1>3
  <2>3. QED
    BY <2>1, <2>2, <1>3
<1> HIDE DEF all
<1>5. /\ a \in Seq(Seq(Nat)) /\ Len(a) = Len(bs) /\ d \in Seq(Seq(Nat)) /\ Len(d) = Len(bs) + 2
      /\ \A m \in 1 .. Len(bs) : a[m] = BytesOf(hd, bs[m])
      /\ \A m \in 1 .. Len(bs) + 2 : d[m] = BytesOf(hd, all[m])
  BY <1>4, BytesListBytes
<1>6. b \in Seq(Seq(Nat)) /\ Len(b) = 1 /\ b[1] = x /\ c \in Seq(Seq(Nat)) /\ Len(c) = 1 /\ c[1] = p
  BY <1>1
<1> DEFINE e == b \o c
           f == a \o e
<1> HIDE DEF a, b, c, d
<1>7. Joined(b, c)
  BY <1>6, ConcatLists
<1>8. e \in Seq(Seq(Nat)) /\ Len(e) = 2 /\ e[1] = x /\ e[2] = p
  <2>1. /\ e \in Seq(Seq(Nat)) /\ Len(e) = Len(b) + Len(c)
        /\ \A k \in 1 .. Len(b) : e[k] = b[k]
        /\ \A k \in 1 .. Len(c) : e[Len(b) + k] = c[k]
    BY <1>7 DEF Joined
  <2> HIDE DEF e
  <2>2. QED
    BY <2>1, <1>6
<1> HIDE DEF e
<1>9. Joined(a, e)
  BY <1>5, <1>8, ConcatLists
<1>10. /\ f \in Seq(Seq(Nat)) /\ Len(f) = Len(bs) + 2
       /\ \A k \in 1 .. Len(bs) : f[k] = a[k]
       /\ f[Len(bs) + 1] = x /\ f[Len(bs) + 2] = p
  <2>1. /\ f \in Seq(Seq(Nat)) /\ Len(f) = Len(a) + Len(e)
        /\ \A k \in 1 .. Len(a) : f[k] = a[k]
        /\ \A k \in 1 .. Len(e) : f[Len(a) + k] = e[k]
    BY <1>9 DEF Joined
  <2> HIDE DEF f
  <2>2. 1 \in 1 .. Len(e) /\ 2 \in 1 .. Len(e)
    BY <1>8
  <2>3. QED
    BY <2>1, <2>2, <1>5, <1>8
<1> HIDE DEF f
<1>11. d = f
  <2>1. ASSUME NEW m \in 1 .. Len(bs) + 2 PROVE d[m] = f[m]
    <3>1. CASE m <= Len(bs)
      <4>1. m \in 1 .. Len(bs)
        BY <3>1, <1>4
      <4>2. QED
        BY <4>1, <1>4, <1>5, <1>10
    <3>2. CASE m = Len(bs) + 1
      BY <3>2, <1>2, <1>4, <1>5, <1>10
    <3>3. CASE m = Len(bs) + 2
      BY <3>3, <1>2, <1>4, <1>5, <1>10
    <3>4. QED
      BY <3>1, <3>2, <3>3, <1>4, SMTT(30)
  <2>2. \A m \in 1 .. Len(d) : d[m] = f[m]
    BY <2>1, <1>5
  <2>3. QED
    BY <2>2, <1>5, <1>10, SeqEqual
<1>12. FlattenSeq(f) = FlattenSeq(a) \o FlattenSeq(e)
  BY <1>5, <1>8, FlattenConcat DEF f
<1>13. FlattenSeq(e) = FlattenSeq(b) \o FlattenSeq(c)
  BY <1>6, FlattenConcat DEF e
<1>14. FlattenSeq(b) = x /\ FlattenSeq(c) = p
  BY <1>1, FlattenSmall DEF b, c
<1>15. FlattenSeq(d) = FlattenSeq(a) \o (x \o p)
  BY <1>11, <1>12, <1>13, <1>14, Zenon
<1>16. QED
  BY <1>15 DEF d, a, x, all, two

-----------------------------------------------------------------------------
\* The names in order

\* t comes behind s: they part at i, or s ends there.
Parts(s, t, i) ==
    /\ i \in 1 .. Len(t) /\ i <= Len(s) + 1
    /\ \A k \in 1 .. i - 1 : s[k] = t[k]
    /\ i <= Len(s) => s[i] < t[i]

\* A name that parts from another so is sorted before it.
LEMMA BeforeParts ==
    ASSUME NEW s \in Seq(Nat), NEW t \in Seq(Nat), NEW i \in Nat, Parts(s, t, i)
    PROVE  Before(s, t)
<1>1. /\ Len(s) \in Nat /\ DOMAIN s = 1 .. Len(s) /\ Len(t) \in Nat /\ DOMAIN t = 1 .. Len(t)
      /\ i \in 1 .. Len(t) /\ i <= Len(s) + 1
      /\ \A k \in 1 .. i - 1 : s[k] = t[k]
      /\ i <= Len(s) => s[i] < t[i]
  BY LenProperties DEF Parts
<1>2. CASE i <= Len(s)
  <2>1. i \in DOMAIN s \intersect DOMAIN t /\ s[i] < t[i]
    BY <1>1, <1>2
  <2>2. SubSeq(s, 1, i - 1) = SubSeq(t, 1, i - 1)
    <3>1. /\ SubSeq(s, 0 + 1, i - 1) \in Seq(Nat) /\ Len(SubSeq(s, 0 + 1, i - 1)) = (i - 1) - 0
          /\ \A k \in 1 .. (i - 1) - 0 : SubSeq(s, 0 + 1, i - 1)[k] = s[0 + k]
          /\ SubSeq(t, 0 + 1, i - 1) \in Seq(Nat) /\ Len(SubSeq(t, 0 + 1, i - 1)) = (i - 1) - 0
          /\ \A k \in 1 .. (i - 1) - 0 : SubSeq(t, 0 + 1, i - 1)[k] = t[0 + k]
      <4>1. 0 \in Nat /\ i - 1 \in Nat /\ 0 <= i - 1 /\ i - 1 <= Len(s) /\ i - 1 <= Len(t)
        BY <1>1, <1>2
      <4>2. /\ SubSeq(s, 0 + 1, i - 1) \in Seq(Nat) /\ Len(SubSeq(s, 0 + 1, i - 1)) = (i - 1) - 0
            /\ \A k \in 1 .. (i - 1) - 0 : SubSeq(s, 0 + 1, i - 1)[k] = s[0 + k]
        BY <4>1, PartOfSeq
      <4>3. /\ SubSeq(t, 0 + 1, i - 1) \in Seq(Nat) /\ Len(SubSeq(t, 0 + 1, i - 1)) = (i - 1) - 0
            /\ \A k \in 1 .. (i - 1) - 0 : SubSeq(t, 0 + 1, i - 1)[k] = t[0 + k]
        BY <4>1, PartOfSeq
      <4>4. QED
        BY <4>2, <4>3
    <3> DEFINE a == SubSeq(s, 1, i - 1)
               b == SubSeq(t, 1, i - 1)
    <3>2. /\ a \in Seq(Nat) /\ Len(a) = i - 1 /\ b \in Seq(Nat) /\ Len(b) = i - 1
          /\ \A k \in 1 .. i - 1 : a[k] = s[k] /\ b[k] = t[k]
      <4>1. 0 + 1 = 1 /\ (i - 1) - 0 = i - 1 /\ \A k \in 1 .. i - 1 : 0 + k = k
        OBVIOUS
      <4>2. QED
        BY <3>1, <4>1
    <3> HIDE DEF a, b
    <3>3. \A k \in 1 .. Len(a) : a[k] = b[k]
      BY <3>2, <1>1
    <3>4. a = b
      BY <3>2, <3>3, SeqEqual
    <3>5. QED
      BY <3>4 DEF a, b
  <2>3. QED
    BY <2>1, <2>2 DEF Before
<1>3. CASE i = Len(s) + 1
  <2>1. /\ Len(s) < Len(t) /\ \A k \in 1 .. Len(s) : s[k] = t[k]
    BY <1>1, <1>3
  <2>2. Holds(t, 0, s)
    BY <2>1, <1>1 DEF Holds
  <2>3. IsPrefix(s, t)
    BY <2>2, HoldsIsPrefix
  <2>4. s # t
    BY <2>1, <1>1
  <2>5. QED
    BY <2>3, <2>4 DEF Before, IsStrictPrefix
<1>4. QED
  BY <1>1, <1>2, <1>3

\* Where of two different sequences one comes first.
LEMMA OnePartsFirst ==
    ASSUME NEW s \in Seq(Nat), NEW t \in Seq(Nat), s # t
    PROVE  \E i \in Nat : Parts(s, t, i) \/ Parts(t, s, i)
<1> DEFINE D == {i \in Nat : /\ i >= 1 /\ i <= Len(s) + 1 /\ i <= Len(t) + 1
                             /\ (i <= Len(s) /\ i <= Len(t)) => s[i] # t[i]
                             /\ ~(i = Len(s) + 1 /\ i = Len(t) + 1)}
<1>1. /\ Len(s) \in Nat /\ Len(t) \in Nat
      /\ \A i \in 1 .. Len(s) : s[i] \in Nat
      /\ \A i \in 1 .. Len(t) : t[i] \in Nat
  BY LenProperties, ElementOfSeq
<1>2. D # {}
  <2>1. CASE Len(s) < Len(t)
    <3>1. Len(s) + 1 \in D
      BY <2>1, <1>1
    <3>2. QED
      BY <3>1
  <2>2. CASE Len(t) < Len(s)
    <3>1. Len(t) + 1 \in D
      BY <2>2, <1>1
    <3>2. QED
      BY <3>1
  <2>3. CASE Len(s) = Len(t)
    <3>1. PICK i \in 1 .. Len(s) : s[i] # t[i]
      BY <2>3, SeqEqual
    <3>2. i \in D
      BY <3>1, <2>3, <1>1
    <3>3. QED
      BY <3>2
  <2>4. QED
    BY <2>1, <2>2, <2>3, <1>1
<1>3. PICK i \in D : \A j \in D : i <= j
  <2>1. D \subseteq Nat
    OBVIOUS
  <2> HIDE DEF D
  <2>2. QED
    BY <1>2, <2>1, Least
<1>4. i \in Nat /\ i >= 1 /\ i <= Len(s) + 1 /\ i <= Len(t) + 1
      /\ ((i <= Len(s) /\ i <= Len(t)) => s[i] # t[i]) /\ ~(i = Len(s) + 1 /\ i = Len(t) + 1)
  OBVIOUS
<1>5. \A k \in 1 .. i - 1 : s[k] = t[k]
  <2> SUFFICES ASSUME NEW k \in 1 .. i - 1, s[k] # t[k] PROVE FALSE
    OBVIOUS
  <2>1. k \in D
    <3>1. k \in Nat /\ k >= 1 /\ k + 1 <= i /\ i \in Nat
      BY <1>4
    <3>2. k <= Len(s) /\ k <= Len(t)
      <4>1. /\ i <= Len(s) + 1 /\ i <= Len(t) + 1
            /\ Len(s) \in Nat /\ Len(t) \in Nat
        BY <1>1, <1>4
      <4> HIDE DEF D
      <4>2. QED
        BY <3>1, <4>1
    <3>3. k <= Len(s) + 1 /\ k <= Len(t) + 1 /\ ~(k = Len(s) + 1 /\ k = Len(t) + 1)
      BY <1>1, <3>1, <3>2
    <3>4. QED
      BY <3>1, <3>2, <3>3
  <2>2. QED
    BY <2>1, <1>3, <1>4
<1> HIDE DEF D
<1>6. CASE i <= Len(s) /\ i <= Len(t)
  <2>1. s[i] < t[i] \/ t[i] < s[i]
    <3>1. s[i] \in Nat /\ t[i] \in Nat /\ s[i] # t[i]
      BY <1>1, <1>4, <1>6
    <3>2. QED
      BY <3>1
  <2>2. Parts(s, t, i) \/ Parts(t, s, i)
    BY <2>1, <1>1, <1>4, <1>5, <1>6 DEF Parts
  <2>3. QED
    BY <2>2, <1>4
<1>7. CASE i = Len(s) + 1 /\ i <= Len(t)
  <2>1. Parts(s, t, i)
    BY <1>1, <1>4, <1>5, <1>7 DEF Parts
  <2>2. QED
    BY <2>1, <1>4
<1>8. CASE i = Len(t) + 1 /\ i <= Len(s)
  <2>1. Parts(t, s, i)
    BY <1>1, <1>4, <1>5, <1>8 DEF Parts
  <2>2. QED
    BY <2>1, <1>4
<1>9. QED
  BY <1>1, <1>4, <1>6, <1>7, <1>8

\* What comes behind what comes behind.
LEMMA PartsChain ==
    ASSUME NEW a \in Seq(Nat), NEW b \in Seq(Nat), NEW c \in Seq(Nat), NEW i \in Nat, NEW j \in Nat,
           Parts(a, b, i), Parts(b, c, j)
    PROVE  \E k \in Nat : Parts(a, c, k)
<1>1. /\ Len(a) \in Nat /\ Len(b) \in Nat /\ Len(c) \in Nat
      /\ \A k \in 1 .. Len(a) : a[k] \in Nat
      /\ \A k \in 1 .. Len(b) : b[k] \in Nat
      /\ \A k \in 1 .. Len(c) : c[k] \in Nat
  BY LenProperties, ElementOfSeq
<1>p. /\ i \in 1 .. Len(b) /\ i <= Len(a) + 1
      /\ \A k \in 1 .. i - 1 : a[k] = b[k]
      /\ i <= Len(a) => a[i] < b[i]
  BY DEF Parts
<1>q. /\ j \in 1 .. Len(c) /\ j <= Len(b) + 1
      /\ \A k \in 1 .. j - 1 : b[k] = c[k]
      /\ j <= Len(b) => b[j] < c[j]
  BY DEF Parts
<1>2. CASE i <= j
  <2>1. i \in 1 .. Len(c) /\ i <= Len(a) + 1 /\ i \in 1 .. Len(b)
    BY <1>1, <1>2, <1>p, <1>q
  <2>2. \A k \in 1 .. i - 1 : a[k] = c[k]
    BY <1>1, <1>2, <1>p, <1>q
  <2>3. i <= Len(a) => a[i] < c[i]
    <3> SUFFICES ASSUME i <= Len(a) PROVE a[i] < c[i]
      OBVIOUS
    <3>1. a[i] < b[i] /\ a[i] \in Nat /\ b[i] \in Nat /\ c[i] \in Nat
      BY <1>1, <1>p, <2>1
    <3>2. b[i] = c[i] \/ b[i] < c[i]
      <4>1. CASE i = j
        BY <4>1, <1>q, <2>1
      <4>2. CASE i < j
        BY <4>2, <1>1, <1>q, <2>1
      <4>3. QED
        BY <1>2, <4>1, <4>2
    <3>3. QED
      BY <3>1, <3>2, SMTT(30)
  <2>4. QED
    BY <2>1, <2>2, <2>3 DEF Parts
<1>3. CASE j < i
  <2>1. j \in 1 .. Len(c) /\ j <= Len(a) /\ j \in 1 .. Len(b)
    <3>1. j >= 1 /\ j + 1 <= i /\ i <= Len(b) /\ i <= Len(a) + 1
      BY <1>3, <1>p, <1>q
    <3>2. j <= Len(a) /\ j <= Len(b)
      BY <1>1, <3>1
    <3>3. QED
      BY <1>q, <3>1, <3>2
  <2>2. \A k \in 1 .. j - 1 : a[k] = c[k]
    BY <1>1, <1>3, <1>p, <1>q
  <2>3. a[j] = b[j] /\ b[j] < c[j]
    BY <1>1, <1>3, <1>p, <1>q, <2>1
  <2>4. a[j] < c[j] /\ j <= Len(a) + 1
    BY <2>1, <2>3, <1>1
  <2>5. Parts(a, c, j)
    BY <2>1, <2>2, <2>4 DEF Parts
  <2>6. QED
    BY <2>5
<1>4. QED
  BY <1>2, <1>3

\* The order of two names, in a form that chains.
Precedes(s, t) == \E i \in Nat : Parts(s, t, i)

\* Of finitely many names one is the last.
LEMMA LastName ==
    ASSUME NEW S, S \subseteq Seq(Nat), IsFiniteSet(S), S # {}
    PROVE  \E m \in S : \A x \in S \ {m} : Precedes(x, m)
<1> DEFINE Z == {n \in Nat : \A T \in SUBSET S : Cardinality(T) = n + 1 =>
                                \E m \in T : \A x \in T \ {m} : Precedes(x, m)}
<1>1. 0 \in Z
  <2> SUFFICES ASSUME NEW T \in SUBSET S, Cardinality(T) = 0 + 1
               PROVE  \E m \in T : \A x \in T \ {m} : Precedes(x, m)
    OBVIOUS
  <2>1. IsFiniteSet(T) /\ Cardinality(T) = 1
    BY FS_Subset
  <2>2. PICK m : T = {m}
    BY <2>1, FS_Singleton
  <2>3. QED
    BY <2>2
<1>2. ASSUME NEW n \in Nat, n \in Z PROVE n + 1 \in Z
  <2> SUFFICES ASSUME NEW T \in SUBSET S, Cardinality(T) = (n + 1) + 1
               PROVE  \E m \in T : \A x \in T \ {m} : Precedes(x, m)
    OBVIOUS
  <2>1. IsFiniteSet(T)
    BY FS_Subset
  <2>2. PICK y \in T : TRUE
    <3>1. T # {}
      BY <2>1, FS_EmptySet
    <3>2. QED
      BY <3>1
  <2> DEFINE U == T \ {y}
  <2>3. U \in SUBSET S /\ Cardinality(U) = n + 1
    <3>1. Cardinality(U) = Cardinality(T) - 1
      BY <2>1, <2>2, FS_RemoveElement
    <3>2. QED
      BY <3>1
  <2>4. PICK m \in U : \A x \in U \ {m} : Precedes(x, m)
    <3> HIDE DEF U
    <3>1. QED
      BY <1>2, <2>3
  <2>5. m \in Seq(Nat) /\ y \in Seq(Nat) /\ m # y
    BY <2>3, <2>4
  <2>6. CASE Precedes(y, m)
    <3>1. \A x \in T \ {m} : Precedes(x, m)
      BY <2>4, <2>6
    <3>2. QED
      BY <3>1, <2>4
  <2>7. CASE Precedes(m, y)
    <3>1. ASSUME NEW x \in T \ {y} PROVE Precedes(x, y)
      <4>1. CASE x = m
        BY <4>1, <2>7
      <4>2. CASE x # m
        <5>1. Precedes(x, m) /\ x \in Seq(Nat)
          BY <4>2, <2>4, <3>1
        <5>2. QED
          BY <5>1, <2>5, <2>7, PartsChain DEF Precedes
      <4>3. QED
        BY <4>1, <4>2
    <3>2. QED
      BY <3>1, <2>2
  <2>8. QED
    BY <2>5, <2>6, <2>7, OnePartsFirst DEF Precedes
<1>3. Nat \subseteq Z
  <2> HIDE DEF Z
  <2>1. QED
    BY <1>1, <1>2, Induction
<1>4. Cardinality(S) \in Nat /\ Cardinality(S) # 0
  BY FS_CardinalityType, FS_EmptySet
<1>5. Cardinality(S) - 1 \in Nat /\ (Cardinality(S) - 1) + 1 = Cardinality(S)
  BY <1>4
<1>6. S \in SUBSET S
  OBVIOUS
<1>7. Cardinality(S) - 1 \in Z
  BY <1>3, <1>5
<1>8. QED
  BY <1>5, <1>6, <1>7

\* A list in the order of sort.Strings.
InOrder(list) == \A i, j \in DOMAIN list : i < j => Before(list[i], list[j])

\* Finitely many names can be put in order.
LEMMA NamesInOrder ==
    ASSUME NEW S, S \subseteq Seq(Nat), IsFiniteSet(S)
    PROVE  \E list \in [1 .. Cardinality(S) -> S] : InOrder(list)
<1> DEFINE Ordered(T, list) == \A i, j \in 1 .. Cardinality(T) : i < j => Precedes(list[i], list[j])
           Z == {n \in Nat : \A T \in SUBSET S : Cardinality(T) = n =>
                                \E list \in [1 .. n -> T] :
                                    \A i, j \in 1 .. n : i < j => Precedes(list[i], list[j])}
<1>1. 0 \in Z
  <2>1. \A T : [i \in 1 .. 0 |-> i] \in [1 .. 0 -> T]
    OBVIOUS
  <2>2. \A list : \A i, j \in 1 .. 0 : i < j => Precedes(list[i], list[j])
    OBVIOUS
  <2>3. \A T : \E list \in [1 .. 0 -> T] :
            \A i, j \in 1 .. 0 : i < j => Precedes(list[i], list[j])
    BY <2>1, <2>2, Zenon
  <2>4. QED
    BY <2>3
<1>2. ASSUME NEW n \in Nat, n \in Z PROVE n + 1 \in Z
  <2> SUFFICES ASSUME NEW T \in SUBSET S, Cardinality(T) = n + 1
               PROVE  \E list \in [1 .. n + 1 -> T] :
                          \A i, j \in 1 .. n + 1 : i < j => Precedes(list[i], list[j])
    OBVIOUS
  <2>1. IsFiniteSet(T) /\ T # {} /\ T \subseteq Seq(Nat)
    <3>1. IsFiniteSet(T)
      BY FS_Subset
    <3>2. T # {}
      BY <3>1, FS_EmptySet
    <3>3. QED
      BY <3>1, <3>2
  <2>2. PICK m \in T : \A x \in T \ {m} : Precedes(x, m)
    BY <2>1, LastName
  <2> DEFINE U == T \ {m}
  <2>3. U \in SUBSET S /\ Cardinality(U) = n
    <3>1. Cardinality(U) = Cardinality(T) - 1
      BY <2>1, <2>2, FS_RemoveElement
    <3>2. QED
      BY <3>1
  <2>4. PICK f \in [1 .. n -> U] : \A i, j \in 1 .. n : i < j => Precedes(f[i], f[j])
    <3> HIDE DEF U
    <3>1. QED
      BY <1>2, <2>3
  <2> DEFINE list == [i \in 1 .. n + 1 |-> IF i = n + 1 THEN m ELSE f[i]]
  <2>5. /\ list[n + 1] = m /\ \A i \in 1 .. n : list[i] = f[i] /\ f[i] \in T \ {m}
        /\ list \in [1 .. n + 1 -> T]
    BY <2>4, <2>2
  <2> HIDE DEF list, U
  <2>6. ASSUME NEW i \in 1 .. n + 1, NEW j \in 1 .. n + 1, i < j
        PROVE  Precedes(list[i], list[j])
    <3>1. i \in 1 .. n
      BY <2>6
    <3>2. CASE j = n + 1
      BY <3>1, <3>2, <2>2, <2>5
    <3>3. CASE j # n + 1
      <4>1. j \in 1 .. n
        BY <3>3
      <4>2. QED
        BY <3>1, <4>1, <2>4, <2>5, <2>6
    <3>4. QED
      BY <3>2, <3>3
  <2>7. QED
    BY <2>5, <2>6
<1>3. Nat \subseteq Z
  <2> HIDE DEF Z
  <2>1. QED
    BY <1>1, <1>2, Induction
<1>4. Cardinality(S) \in Nat /\ S \in SUBSET S
  BY FS_CardinalityType
<1>5. PICK list \in [1 .. Cardinality(S) -> S] :
         \A i, j \in 1 .. Cardinality(S) : i < j => Precedes(list[i], list[j])
  BY <1>3, <1>4
<1>6. ASSUME NEW i \in DOMAIN list, NEW j \in DOMAIN list, i < j
      PROVE  Before(list[i], list[j])
  <2>1. i \in 1 .. Cardinality(S) /\ j \in 1 .. Cardinality(S)
    BY <1>5
  <2>2. Precedes(list[i], list[j]) /\ list[i] \in Seq(Nat) /\ list[j] \in Seq(Nat)
    BY <2>1, <1>5, <1>6
  <2>3. QED
    BY <2>2, BeforeParts DEF Precedes
<1>7. InOrder(list)
  BY <1>6 DEF InOrder
<1>8. QED
  BY <1>5, <1>7

\* What ListTopics returns are the names.
LEMMA SortedNames ==
    ASSUME NEW S, S \subseteq Seq(Nat), IsFiniteSet(S)
    PROVE  Sorted(S) \in Seq(Seq(Nat)) /\ Len(Sorted(S)) = Cardinality(S) /\ InOrder(Sorted(S))
<1>1. \E list \in [1 .. Cardinality(S) -> S] : InOrder(list)
  BY NamesInOrder
<1>2. Sorted(S) = CHOOSE list \in [1 .. Cardinality(S) -> S] : InOrder(list)
  BY DEF Sorted, InOrder
<1>3. Sorted(S) \in [1 .. Cardinality(S) -> S] /\ InOrder(Sorted(S))
  BY <1>1, <1>2
<1>4. Cardinality(S) \in Nat
  BY FS_CardinalityType
<1> DEFINE list == Sorted(S)
<1> HIDE DEF list
<1>5. list \in [1 .. Cardinality(S) -> S] /\ InOrder(list)
  BY <1>3 DEF list
<1>6. list \in Seq(Seq(Nat)) /\ Len(list) = Cardinality(S)
  <2>1. list \in [1 .. Cardinality(S) -> Seq(Nat)]
    BY <1>5
  <2>2. QED
    BY <2>1, <1>4
<1>7. QED
  BY <1>5, <1>6 DEF list

-----------------------------------------------------------------------------
\* Frames and answers alone on the wire

\* A frame that is alone on the stream.
Alone(f, op, payload) ==
    /\ ReadFrame(f) = [err |-> "none", op |-> op, payload |-> payload]
    /\ AfterFrame(f) = <<>>

\* What EncodeFrame makes is such a frame.
LEMMA OneFrame ==
    ASSUME NEW op \in Nat, NEW payload \in Seq(Nat), Fits(payload)
    PROVE  Alone(EncodeFrame(op, payload), op, payload)
<1> DEFINE f == EncodeFrame(op, payload)
<1>1. f \in Seq(Nat)
  BY FrameBytes
<1>2. <<>> \in Seq(Nat)
  OBVIOUS
<1>3. /\ ReadFrame(f \o <<>>) = [err |-> "none", op |-> op, payload |-> payload]
      /\ AfterFrame(f \o <<>>) = <<>>
  BY <1>2, FrameRoundTrip
<1> HIDE DEF f
<1>4. f \o <<>> = f
  BY <1>1, ConcatEmptySeq
<1>5. Alone(f, op, payload)
  BY <1>3, <1>4, Zenon DEF Alone
<1>6. QED
  BY <1>5 DEF f

\* Of nothing nothing is read.
LEMMA EmptyStream == ReadFrame(<<>>).err = "truncated"
<1>1. HeaderLen \in Nat \ {0}
  BY CodecAssumption DEF HeaderLen
<1>2. Len(<<>>) < HeaderLen
  BY <1>1
<1>3. ReadHeader(<<>>).err = "truncated"
  BY <1>2, <1>1 DEF ReadHeader
<1>4. QED
  BY <1>3 DEF ReadFrame

\* An answer that is an error: its code comes back as the error it stands for.
LEMMA ErrorAnswer ==
    ASSUME NEW err \in Sentinels \ {"none"}
    PROVE  LET p == EncodeError(ErrorCode(err), Text)
           IN  /\ \A op, body : Response(op, err, body) = EncodeFrame(OpError, p)
               /\ p \in Seq(Nat) /\ Fits(p) /\ ErrorIn(p) = err
<1> DEFINE code == ErrorCode(err)
           p == EncodeError(code, Text)
<1>1. \A op, body : Response(op, err, body) = EncodeFrame(OpError, p)
  BY DEF Response
<1>2. code \in 1 .. 9 /\ RemoteError(code) = err
  BY DEF ErrorCode, RemoteError, Sentinels
<1> HIDE DEF code
<1>3. code \in Nat /\ code < Power[Len16] /\ Text \in Seq(Nat) /\ Len(Text) \in Nat
      /\ Len16 \in Nat /\ Len32 \in Nat /\ Len16 + Len32 + Len(Text) <= MaxPayload
  <2>1. 9 < Power[Len16] /\ Len16 + Len32 + Len(Text) <= MaxPayload
    BY ErrorsAssumption
  <2>2. Len16 \in Nat /\ Len32 \in Nat /\ Power[Len16] \in Nat
    BY CodecAssumption, Powers
  <2>3. Text \in Seq(Nat) /\ Len(Text) \in Nat
    BY DEF Text
  <2>4. QED
    BY <2>1, <2>2, <2>3, <1>2
<1>4. p \in Seq(Nat) /\ Len(p) = Len16 + (Len32 + Len(Text))
  <2>1. Put(code, Len16) \in Seq(Nat) /\ Len(Put(code, Len16)) = Len16
    BY <1>3, PutBytes
  <2>2. PutString(Text) \in Seq(Nat) /\ Len(PutString(Text)) = Len32 + Len(Text)
    BY <1>3, PutStringBytes
  <2>3. p = Put(code, Len16) \o PutString(Text)
    BY DEF EncodeError
  <2> DEFINE a == Put(code, Len16)
             b == PutString(Text)
  <2> HIDE DEF a, b, p
  <2>4. a \o b \in Seq(Nat) /\ Len(a \o b) = Len(a) + Len(b)
    BY <2>1, <2>2, ConcatBytes DEF a, b
  <2>5. QED
    BY <2>1, <2>2, <2>3, <2>4 DEF a, b
<1>5. Fits(p)
  BY <1>3, <1>4 DEF Fits
<1>6. DecodeError(p).err = "none" /\ At(p, 0, Len16) = code
  BY <1>3, <1>5, ErrorRoundTrip
<1> HIDE DEF p
<1>7. ErrorIn(p) = err
  BY <1>2, <1>6 DEF ErrorIn
<1>8. QED
  BY <1>1, <1>4, <1>5, <1>7 DEF p, code

\* The last word to a peer.
LEMMA LastWordIsRead ==
    /\ LastWord \in Seq(Nat) /\ LastWord # <<>>
    /\ \A op, body : Response(op, "toolarge", body) = LastWord
    /\ \E p \in Seq(Nat) : /\ Fits(p) /\ ErrorIn(p) = "toolarge"
                           /\ LastWord = EncodeFrame(OpError, p)
                           /\ Alone(LastWord, OpError, p)
<1> DEFINE p == EncodeError(ErrorCode("toolarge"), Text)
<1>1. "toolarge" \in Sentinels \ {"none"}
  BY DEF Sentinels
<1>2. /\ \A op, body : Response(op, "toolarge", body) = EncodeFrame(OpError, p)
      /\ p \in Seq(Nat) /\ Fits(p) /\ ErrorIn(p) = "toolarge"
  BY <1>1, ErrorAnswer
<1> HIDE DEF p
<1>3. LastWord = EncodeFrame(OpError, p)
  BY <1>2 DEF LastWord
<1>4. OpError \in Nat
  BY DEF OpError
<1>5. Alone(EncodeFrame(OpError, p), OpError, p)
  BY <1>2, <1>4, OneFrame
<1>6. /\ EncodeFrame(OpError, p) \in Seq(Nat)
      /\ Len(EncodeFrame(OpError, p)) = HeaderLen + Len(p)
  BY <1>2, <1>4, FrameBytes
<1>7. HeaderLen \in Nat \ {0} /\ Len(p) \in Nat
  BY <1>2, CodecAssumption, LenProperties DEF HeaderLen
<1>8. LastWord # <<>>
  BY <1>3, <1>6, <1>7
<1>9. QED
  BY <1>2, <1>3, <1>5, <1>6, <1>8

\* The answer to a request that was granted, in full.
LEMMA BodyIsRead ==
    ASSUME NEW k, NEW v,
           k.op \in {OpCreateTopic, OpSubscribe, OpPublish, OpPublishBatch, OpListTopics},
           k.op = OpPublishBatch => Len(k.payloads) \in Nat /\ Len(k.payloads) <= MaxPayload,
           WellAnswered(k, v), v.err = "none"
    PROVE  LET p == ResponseBody(k, v)
           IN  /\ p \in Seq(Nat) /\ Fits(p)
               /\ Meaning(k, [err |-> "none", op |-> k.op, payload |-> p]) = v
<1> DEFINE p == ResponseBody(k, v)
           frame == [err |-> "none", op |-> k.op, payload |-> p]
<1> USE DEF OpCreateTopic, OpSubscribe, OpPublish, OpPublishBatch, OpListTopics, OpError
<1>1. frame.err = "none" /\ frame.op = k.op /\ k.op # OpError /\ frame.payload = p
  OBVIOUS
<1>2. /\ Len64 \in Nat /\ Len32 \in Nat /\ MaxPayload \in Nat /\ Len64 + Len32 <= MaxPayload
      /\ MetaLen = Len64 + Len32 /\ IntMax \in Nat /\ MaxPayload <= IntMax
      /\ MaxPayload < Power[Len32] /\ Power[Len32] \in Nat
  BY CodecAssumption, Powers DEF MetaLen
<1> HIDE DEF frame
<1>3. CASE k.op \in {OpCreateTopic, OpSubscribe}
  <2>1. v = Answer("none")
    BY <1>3 DEF WellAnswered
  <2>2. p = <<>>
    BY <1>3 DEF ResponseBody
  <2>3. Meaning(k, frame) = Answer("none")
    BY <1>1, <1>3 DEF Meaning
  <2>4. <<>> \in Seq(Nat) /\ Fits(<<>>)
    BY <1>2 DEF Fits
  <2>5. QED
    BY <2>1, <2>2, <2>3, <2>4 DEF frame
<1>4. CASE k.op = OpPublish
  <2>1. v = [Answer("none") EXCEPT !.offset = v.offset] /\ v.offset \in Nat /\ v.offset < Power[Len64]
    BY <1>4 DEF WellAnswered
  <2>2. p = Put(v.offset, Len64)
    BY <1>4 DEF ResponseBody, MarshalOffset
  <2>3. p \in Seq(Nat) /\ Len(p) = Len64
    BY <1>2, <2>1, <2>2, PutBytes
  <2>4. Number(p) = v.offset
    BY <1>2, <2>1, <2>2, NumberOfPut
  <2> HIDE DEF p
  <2>5. At(p, 0, Len64) = v.offset
    <3>1. SubSeq(p, 1, Len(p)) = p
      BY <2>3, SubSeqProperties
    <3>2. 0 + 1 = 1 /\ 0 + Len64 = Len64
      BY <1>2
    <3>3. QED
      BY <2>3, <2>4, <3>1, <3>2 DEF At
  <2>6. UnmarshalOffset(p).err = "none"
    BY <1>2, <2>3 DEF UnmarshalOffset, Skip, From
  <2>7. Meaning(k, frame) = [Answer("none") EXCEPT !.offset = v.offset]
    <3>1. Meaning(k, frame) = [Answer(UnmarshalOffset(p).err) EXCEPT !.offset = At(p, 0, Len64)]
      BY <1>1, <1>4 DEF Meaning
    <3>2. QED
      BY <2>5, <2>6, <3>1
  <2>8. Fits(p)
    BY <1>2, <2>3 DEF Fits
  <2>9. QED
    BY <2>1, <2>3, <2>7, <2>8 DEF frame, p
<1>5. CASE k.op = OpPublishBatch
  <2> DEFINE n == Len(k.payloads)
             a == Put(v.offset, Len64)
             b == Put(n, Len32)
  <2>1. v = [Answer("none") EXCEPT !.offset = v.offset] /\ v.offset \in Nat /\ v.offset < Power[Len64]
    BY <1>5 DEF WellAnswered
  <2>2. p = a \o b
    BY <1>5 DEF ResponseBody, EncodePublishAck
  <2>3. n \in Nat /\ n <= MaxPayload /\ n < Power[Len32] /\ n <= IntMax
    BY <1>2, <1>5
  <2>4. a \in Seq(Nat) /\ Len(a) = Len64 /\ b \in Seq(Nat) /\ Len(b) = Len32
    BY <1>2, <2>1, <2>3, PutBytes
  <2>5. Number(a) = v.offset /\ Number(b) = n
    BY <1>2, <2>1, <2>3, NumberOfPut
  <2> HIDE DEF n, a, b, p
  <2>6. Holds(p, 0, a) /\ Holds(p, Len(a), b) /\ p \in Seq(Nat) /\ Len(p) = Len(a) + Len(b)
    BY <2>2, <2>4, HoldsItself
  <2>7. SubSeq(p, 0 + 1, 0 + Len(a)) = a /\ SubSeq(p, Len(a) + 1, Len(a) + Len(b)) = b
    BY <1>2, <2>4, <2>6, PartHeld
  <2>8. At(p, 0, Len64) = v.offset /\ At(p, Len64, Len32) = n
    BY <2>4, <2>5, <2>7 DEF At
  <2>9. DecodePublishAck(p).err = "none"
    BY <1>2, <2>4, <2>6 DEF DecodePublishAck, Skip, From
  <2>10. ToInt(n) = n
    BY <2>3, ToIntProperties
  <2>11. Meaning(k, frame) = [Answer("none") EXCEPT !.offset = v.offset]
    <3>1. Meaning(k, frame)
             = IF /\ DecodePublishAck(p).err = "none"
                  /\ ToInt(At(p, Len64, Len32)) = n
               THEN [Answer("none") EXCEPT !.offset = At(p, 0, Len64)]
               ELSE Answer("malformed")
      BY <1>1, <1>5 DEF Meaning, n
    <3>2. QED
      BY <2>8, <2>9, <2>10, <3>1
  <2>12. Fits(p)
    BY <1>2, <2>4, <2>6 DEF Fits
  <2>13. QED
    BY <2>1, <2>6, <2>11, <2>12 DEF frame, p
<1>6. CASE k.op = OpListTopics
  <2>1. /\ v = [Answer("none") EXCEPT !.names = v.names]
        /\ v.names \in Seq(Seq(Nat)) /\ Fits(EncodeTopics(v.names))
    BY <1>6 DEF WellAnswered
  <2>2. p = EncodeTopics(v.names)
    BY <1>6 DEF ResponseBody
  <2>3. p \in Seq(Nat)
    BY <2>1, <2>2, PutStringsBytes DEF EncodeTopics
  <2>4. DecodeTopics(p).err = "none" /\ DecodeTopics(p).fields = v.names
    BY <2>1, <2>2, TopicsRoundTrip
  <2> HIDE DEF p
  <2>5. Meaning(k, frame) = [Answer(DecodeTopics(p).err) EXCEPT !.names = DecodeTopics(p).fields]
    BY <1>1, <1>6 DEF Meaning
  <2>6. Meaning(k, frame) = v
    BY <2>1, <2>4, <2>5
  <2>7. QED
    BY <2>1, <2>2, <2>3, <2>6 DEF frame, p
<1>7. QED
  BY <1>3, <1>4, <1>5, <1>6

\* An answer is read as it was given.
LEMMA AnswerIsRead ==
    ASSUME NEW k, NEW v,
           k.op \in {OpCreateTopic, OpSubscribe, OpPublish, OpPublishBatch, OpListTopics},
           k.op = OpPublishBatch => Len(k.payloads) \in Nat /\ Len(k.payloads) <= MaxPayload,
           WellAnswered(k, v)
    PROVE  LET f == Response(k.op, v.err, IF v.err = "none" THEN ResponseBody(k, v) ELSE <<>>)
           IN  /\ Meaning(k, ReadFrame(f)) = v
               /\ ReadFrame(f).err = "none"
               /\ AfterFrame(f) = <<>>
<1> DEFINE f == Response(k.op, v.err, IF v.err = "none" THEN ResponseBody(k, v) ELSE <<>>)
<1>1. CASE v.err = "none"
  <2> DEFINE p == ResponseBody(k, v)
  <2>1. p \in Seq(Nat) /\ Fits(p) /\ Meaning(k, [err |-> "none", op |-> k.op, payload |-> p]) = v
    BY <1>1, BodyIsRead
  <2>2. f = EncodeFrame(k.op, p)
    BY <1>1 DEF Response
  <2>3. k.op \in Nat
    BY DEF OpCreateTopic, OpSubscribe, OpPublish, OpPublishBatch, OpListTopics
  <2> HIDE DEF p, f
  <2>4. Alone(f, k.op, p)
    BY <2>1, <2>2, <2>3, OneFrame
  <2>5. QED
    BY <2>1, <2>4 DEF Alone, f
<1>2. CASE v.err # "none"
  <2>1. v.err \in Sentinels \ {"none"} /\ v = Answer(v.err)
    BY <1>2 DEF WellAnswered, Answer, NoAnswer
  <2> DEFINE p == EncodeError(ErrorCode(v.err), Text)
  <2>2. /\ \A op, body : Response(op, v.err, body) = EncodeFrame(OpError, p)
        /\ p \in Seq(Nat) /\ Fits(p) /\ ErrorIn(p) = v.err
    BY <2>1, ErrorAnswer
  <2>3. f = EncodeFrame(OpError, p)
    BY <2>2
  <2> HIDE DEF p, f
  <2>4. Alone(f, OpError, p)
    BY <2>2, <2>3, OneFrame DEF OpError
  <2>5. Meaning(k, ReadFrame(f)) = Answer(ErrorIn(p))
    BY <2>4 DEF Alone, Meaning
  <2>6. QED
    BY <2>1, <2>2, <2>4, <2>5 DEF Alone, f
<1>3. QED
  BY <1>1, <1>2

\* A beginning has a rest.
LEMMA PrefixRest ==
    ASSUME NEW x \in Seq(Nat), NEW p \in Seq(Nat)
    PROVE  /\ IsPrefix(x, p) => \E t \in Seq(Nat) : x \o t = p
           /\ \A t \in Seq(Nat) : x \o t = p => IsPrefix(x, p)
<1>1. Len(x) \in Nat /\ Len(p) \in Nat
  BY LenProperties
<1>2. ASSUME IsPrefix(x, p) PROVE \E t \in Seq(Nat) : x \o t = p
  <2> DEFINE n == Len(x)
             t == SubSeq(p, n + 1, Len(p))
             q == x \o t
  <2>1. n <= Len(p) /\ SubSeq(x, 1, n) = SubSeq(p, 1, n)
    BY <1>2 DEF IsPrefix
  <2>2. SubSeq(x, 1, n) = x
    BY SubSeqProperties
  <2>3. \A k \in 1 .. n : x[k] = p[k]
    <3>1. 0 \in Nat /\ n \in Nat /\ 0 <= n /\ n <= Len(p)
      BY <1>1, <2>1
    <3>2. \A k \in 1 .. n - 0 : SubSeq(p, 0 + 1, n)[k] = p[0 + k]
      BY <3>1, PartOfSeq
    <3>3. 0 + 1 = 1 /\ \A k \in 1 .. n : k \in 1 .. n - 0 /\ 0 + k = k
      BY <1>1
    <3>4. QED
      BY <2>1, <2>2, <3>2, <3>3
  <2>4. /\ t \in Seq(Nat) /\ Len(t) = Len(p) - n
        /\ \A k \in 1 .. Len(p) - n : t[k] = p[n + k]
    BY <1>1, <2>1, PartOfSeq
  <2> HIDE DEF t
  <2>5. /\ q \in Seq(Nat) /\ Len(q) = n + Len(t)
        /\ \A k \in 1 .. n : q[k] = x[k]
        /\ \A k \in 1 .. Len(t) : q[n + k] = t[k]
    BY <2>4, ConcatBytes
  <2> HIDE DEF q
  <2>6. ASSUME NEW k \in 1 .. Len(p) PROVE q[k] = p[k]
    <3>1. CASE k <= n
      BY <3>1, <2>3, <2>5, <1>1
    <3>2. CASE k > n
      <4>1. k - n \in 1 .. Len(p) - n /\ n + (k - n) = k
        BY <3>2, <1>1
      <4>2. QED
        BY <4>1, <2>4, <2>5
    <3>3. QED
      BY <3>1, <3>2, <1>1
  <2>7. Len(q) = Len(p)
    BY <1>1, <2>4, <2>5
  <2>8. \A k \in 1 .. Len(q) : q[k] = p[k]
    BY <2>6, <2>7
  <2>9. q = p
    BY <2>5, <2>7, <2>8, SeqEqual
  <2>10. QED
    BY <2>4, <2>9 DEF q
<1>3. ASSUME NEW t \in Seq(Nat), x \o t = p PROVE IsPrefix(x, p)
  <2>1. Holds(x \o t, 0, x)
    BY HoldsItself
  <2>2. Holds(p, 0, x)
    BY <2>1, <1>3, Zenon
  <2>3. QED
    BY <2>2, HoldsIsPrefix
<1>4. QED
  BY <1>2, <1>3

\* What is appended to a log does not disturb its stream.
LEMMA PushingStays ==
    ASSUME NEW log \in Seq(Entry), NEW more \in Seq(Entry), Grows(log, more),
           NEW stage, NEW x, NEW rest, NEW i \in Nat, NEW j \in Int,
           Pushing(log, stage, x, rest, i, j)
    PROVE  Pushing(more, stage, x, rest, i, j)
<1>1. /\ i <= j /\ j <= Len(log)
      /\ \A m \in 1 .. j : CanPush(log[m].Payload)
      /\ x \o rest = Frames(log, i, j)
      /\ stage = "read" => rest = <<>>
      /\ stage = "fill" => \E m \in i .. j : x = Frames(log, i, m)
  BY DEF Pushing
<1>2. Len(log) \in Nat /\ Len(more) \in Nat /\ j \in Nat /\ j <= Len(more)
      /\ \A m \in 1 .. j : m \in 1 .. Len(log) /\ more[m] = log[m]
  BY <1>1, LenProperties DEF Grows
<1>3. ASSUME NEW m \in i .. j PROVE Frames(more, i, m) = Frames(log, i, m)
  <2>1. m \in Nat /\ i <= m /\ m <= Len(log)
    BY <1>1, <1>2
  <2>2. QED
    BY <2>1, FramesStay
<1>4. j \in i .. j
  BY <1>1, <1>2
<1>5. \A m \in 1 .. j : CanPush(more[m].Payload)
  BY <1>1, <1>2
<1>6. x \o rest = Frames(more, i, j)
  BY <1>1, <1>3, <1>4
<1>7. stage = "fill" => \E m \in i .. j : x = Frames(more, i, m)
  BY <1>1, <1>3
<1>8. QED
  BY <1>1, <1>2, <1>5, <1>6, <1>7 DEF Pushing

\* What an ended stream has left stays what it is when the log grows.
LEMMA EndedStays ==
    ASSUME NEW log \in Seq(Entry), NEW more \in Seq(Entry), Grows(log, more),
           NEW x, NEW i \in Nat, Ended(log, x, i)
    PROVE  Ended(more, x, i)
<1>1. PICK j \in i .. Len(log) :
         /\ \A m \in 1 .. j : CanPush(log[m].Payload)
         /\ IsPrefix(x, Frames(log, i, j)) \/ x = Frames(log, i, j) \o LastWord
  BY DEF Ended
<1>2. Len(log) \in Nat /\ Len(more) \in Nat /\ j \in Nat /\ i <= j /\ j <= Len(log)
      /\ j \in i .. Len(more)
      /\ \A m \in 1 .. j : m \in 1 .. Len(log) /\ more[m] = log[m]
  BY LenProperties DEF Grows
<1>3. Frames(more, i, j) = Frames(log, i, j)
  BY <1>2, FramesStay
<1>4. \A m \in 1 .. j : CanPush(more[m].Payload)
  BY <1>1, <1>2
<1>5. QED
  BY <1>1, <1>2, <1>3, <1>4, Zenon DEF Ended

-----------------------------------------------------------------------------
\* A connection that a step leaves alone

Same(c) ==
    /\ pc'[c] = pc[c] /\ phase'[c] = phase[c] /\ up'[c] = up[c] /\ down'[c] = down[c]
    /\ call'[c] = call[c] /\ asked'[c] = asked[c] /\ verdict'[c] = verdict[c]
    /\ result'[c] = result[c] /\ subject'[c] = subject[c]
    /\ step'[c] = step[c] /\ cursor'[c] = cursor[c] /\ todo'[c] = todo[c] /\ bufs'[c] = bufs[c]
    /\ got'[c] = got[c] /\ last'[c] = last[c] /\ Pending(c)' = Pending(c)

\* What the logs of a connection and of its call become.
LEMMA LogsStay ==
    ASSUME DataInv, LogStep, NEW t \in DOMAIN topics
    PROVE  /\ topics[t] \in Seq(Entry) /\ topics'[t] \in Seq(Entry)
           /\ t \in DOMAIN topics' /\ Grows(topics[t], topics'[t])
BY LogsGrow DEF DataInv

\* A stream that a step leaves alone stands where it stood.
LEMMA GrantedStays ==
    ASSUME DataInv, StreamInv, LogStep, NEW c \in Conns, Same(c), Granted(c),
           Len(got[c]) \in Nat
    PROVE  Granted(c)'
<1> USE DEF Same
<1>1. /\ subject[c] \in DOMAIN topics /\ cursor[c] \in Nat /\ Len(todo[c]) \in Nat
  BY LenProperties DEF Granted, StreamInv
<1>2. /\ Log(c) \in Seq(Entry) /\ Log(c)' \in Seq(Entry) /\ Grows(Log(c), Log(c)')
      /\ subject[c] \in DOMAIN topics'
  BY <1>1, LogsStay DEF Log
<1>3. Behind(c)' = Behind(c) /\ Stand(c)' = Stand(c) /\ (Batch(c) => Batch(c)')
      /\ Stand(c) \in Int
  BY <1>1 DEF Behind, Stand, Batch
<1>4. ASSUME Pushing(Log(c), step[c], Behind(c), Pending(c), Len(got[c]), Stand(c))
      PROVE  Pushing(Log(c)', step[c], Behind(c), Pending(c), Len(got[c]), Stand(c))
  BY <1>2, <1>3, <1>4, PushingStays
<1>5. ASSUME Ended(Log(c), Behind(c), Len(got[c]))
      PROVE  Ended(Log(c)', Behind(c), Len(got[c]))
  BY <1>2, <1>5, EndedStays
<1>6. ASSUME phase[c] = "push"
      PROVE  /\ Batch(c)'
             /\ Pushing(Log(c)', step[c], Behind(c), Pending(c), Len(got[c]), Stand(c))
  BY <1>3, <1>4, <1>6 DEF Granted
<1>7. last[c] = "none" /\ phase[c] = "ended" => Ended(Log(c)', Behind(c), Len(got[c]))
  BY <1>5 DEF Granted
<1>8. QED
  BY <1>2, <1>3, <1>6, <1>7 DEF Granted

-----------------------------------------------------------------------------
\* What a step leaves as it is

\* A connection that a step leaves alone is where it was in its exchange.
LEMMA ExchangeStays ==
    ASSUME DataInv, StreamInv, LogStep, scenario' = scenario, NEW c \in Conns, Same(c), Exchange(c),
           Len(got[c]) \in Nat
    PROVE  Exchange(c)'
<1> SUFFICES ASSUME pc[c] \notin {"forging", "gone"} PROVE Exchange(c)'
  BY DEF Exchange, Same
<1>1. Here' = Here
  BY DEF Here
<1>2. CASE Resting(c) \/ Ignored(c)
  BY <1>2 DEF Resting, Ignored, Same, Exchange
<1>3. CASE Sent(c)
  <2>1. Sent(c)'
    BY <1>1, <1>3 DEF Sent, Same
  <2>2. QED
    BY <2>1 DEF Exchange
<1>4. CASE Answered(c)
  <2>1. Answered(c)'
    BY <1>1, <1>4 DEF Answered, Same
  <2>2. QED
    BY <2>1 DEF Exchange
<1>5. CASE Rejected(c)
  <2>1. Rejected(c)'
    BY <1>5 DEF Rejected, Same
  <2>2. QED
    BY <2>1 DEF Exchange
<1>6. CASE Granted(c)
  <2>1. Granted(c)'
    BY <1>6, GrantedStays
  <2>2. QED
    BY <2>1 DEF Exchange
<1>7. QED
  BY <1>2, <1>3, <1>4, <1>5, <1>6 DEF Exchange

\* A stream is a subscription that was granted.
LEMMA StreamingIsGranted ==
    ASSUME NEW c \in Conns, Exchange(c), pc[c] = "streaming"
    PROVE  Granted(c)
BY DEF Exchange, Resting, Sent, Answered, Ignored, Rejected

\* What was given to a subscriber stays in the log.
LEMMA ReaderStays ==
    ASSUME DataInv, LogStep, NEW c \in Conns, Exchange(c), Reader(c), got[c] \in Seq(Piece),
           pc'[c] = pc[c], got'[c] = got[c], last'[c] = last[c],
           pc[c] = "streaming" => subject'[c] = subject[c]
    PROVE  Reader(c)'
<1>1. Len(got[c]) \in Nat /\ DOMAIN got[c] = 1 .. Len(got[c])
  BY LenProperties
<1>2. CASE pc[c] # "streaming"
  <2>1. got[c] = <<>>
    BY <1>2 DEF Reader
  <2>2. Len(got[c]) <= 0 /\ DOMAIN got[c] = {}
    BY <2>1
  <2>3. QED
    BY <1>2, <2>1, <2>2 DEF Reader
<1>3. CASE pc[c] = "streaming"
  <2>1. subject[c] \in DOMAIN topics
    BY <1>3, StreamingIsGranted DEF Granted
  <2>2. Log(c) \in Seq(Entry) /\ Log(c)' \in Seq(Entry) /\ Grows(Log(c), Log(c)')
    BY <1>3, <2>1, LogsStay DEF Log
  <2>3. Len(Log(c)) \in Nat /\ Len(Log(c)') \in Nat /\ Len(Log(c)) <= Len(Log(c)')
        /\ \A i \in 1 .. Len(Log(c)) : Log(c)'[i] = Log(c)[i]
    BY <2>2, LenProperties DEF Grows
  <2>4. Len(got[c]) <= Len(Log(c))
        /\ \A i \in DOMAIN got[c] :
              got[c][i] = [Offset |-> i - 1, Payload |-> Log(c)[i].Payload]
    BY <1>3 DEF Reader
  <2>5. \A i \in DOMAIN got[c] : i \in 1 .. Len(Log(c))
    BY <1>1, <2>3, <2>4
  <2>6. \A i \in DOMAIN got[c] :
              got[c][i] = [Offset |-> i - 1, Payload |-> Log(c)'[i].Payload]
    BY <2>3, <2>4, <2>5
  <2>7. Len(got[c]) <= Len(Log(c)')
    BY <1>1, <2>3, <2>4
  <2>8. last[c] \in {"none", "truncated", "toolarge"}
    BY DEF Reader
  <2>9. QED
    BY <1>3, <2>6, <2>7, <2>8 DEF Reader
<1>4. QED
  BY <1>2, <1>3

\* A part of a log stays.
LEMMA PartStays ==
    ASSUME NEW log \in Seq(Entry), NEW more \in Seq(Entry), Grows(log, more),
           NEW i \in Nat, NEW j \in Nat, i <= j, j <= Len(log)
    PROVE  SubSeq(more, i + 1, j) = SubSeq(log, i + 1, j) /\ j <= Len(more)
<1> DEFINE a == SubSeq(log, i + 1, j)
           b == SubSeq(more, i + 1, j)
<1>1. Len(log) \in Nat /\ Len(more) \in Nat /\ j <= Len(more)
      /\ \A k \in 1 .. j - i : i + k \in 1 .. Len(log)
  BY LenProperties DEF Grows
<1>2. /\ a \in Seq(Entry) /\ Len(a) = j - i /\ b \in Seq(Entry) /\ Len(b) = j - i
      /\ \A k \in 1 .. j - i : a[k] = log[i + k] /\ b[k] = more[i + k]
  BY <1>1, PartOfSeq
<1> HIDE DEF a, b
<1>3. \A k \in 1 .. Len(a) : a[k] = b[k]
  BY <1>1, <1>2 DEF Grows
<1>4. a = b
  BY <1>2, <1>3, SeqEqual
<1>5. QED
  BY <1>1, <1>4 DEF a, b

\* Calls are calls.
LEMMA CallData ==
    ASSUME DataInv, NEW k \in Here.calls \union {NoCall}
    PROVE  k.topic \in Seq(Nat) /\ k.payloads \in Seq(Seq(Nat)) /\ Len(k.payloads) \in Nat
<1>1. CASE k \in Here.calls
  BY <1>1, ScenarioData, LenProperties DEF DataInv
<1>2. CASE k = NoCall
  BY <1>2 DEF NoCall
<1>3. QED
  BY <1>1, <1>2

\* What was stored stays.
LEMMA HistoryStays ==
    ASSUME DataInv, LogStep, NEW c \in Conns, History(c), call[c] \in Here.calls \union {NoCall},
           pc'[c] = pc[c], call'[c] = call[c], asked'[c] = asked[c], verdict'[c] = verdict[c],
           result'[c] = result[c]
    PROVE  History(c)'
<1> DEFINE k == call[c]
           v == verdict[c]
           n == Len(k.payloads)
<1>1. CASE pc[c] \in {"forging", "gone"}
  BY <1>1 DEF History
<1>2. CASE pc[c] \notin {"forging", "gone"}
  <2>1. n \in Nat
    BY CallData
  <2>2. DOMAIN topics \subseteq DOMAIN topics'
    BY LogsGrow
  <2>3. ASSUME v.err = "none", k.op \in {OpPublish, OpPublishBatch}
        PROVE  /\ v.offset + n <= Len(topics'[k.topic])
               /\ SubSeq(topics'[k.topic], v.offset + 1, v.offset + n) = Messages(k.payloads, TRUE)
    <3>1. /\ k.topic \in DOMAIN topics
          /\ v.offset \in Nat /\ v.offset + n <= Len(topics[k.topic])
          /\ SubSeq(topics[k.topic], v.offset + 1, v.offset + n) = Messages(k.payloads, TRUE)
      <4>1. /\ v.err = "none" /\ k.op \notin {OpPublishNoAck, OpListTopics} =>
                  k.topic \in DOMAIN topics
            /\ v.err = "none" /\ k.op \in {OpPublish, OpPublishBatch} =>
                  /\ v.offset \in Nat /\ v.offset + n <= Len(topics[k.topic])
                  /\ SubSeq(topics[k.topic], v.offset + 1, v.offset + n)
                        = Messages(k.payloads, TRUE)
        BY <1>2 DEF History
      <4>2. k.op \notin {OpPublishNoAck, OpListTopics}
        BY <2>3 DEF OpPublish, OpPublishBatch, OpPublishNoAck, OpListTopics
      <4> HIDE DEF k, v, n
      <4>3. QED
        BY <2>3, <4>1, <4>2, Zenon
    <3>2. /\ topics[k.topic] \in Seq(Entry) /\ topics'[k.topic] \in Seq(Entry)
          /\ Grows(topics[k.topic], topics'[k.topic])
      BY <3>1, LogsStay
    <3>3. v.offset + n \in Nat /\ v.offset <= v.offset + n
      BY <2>1, <3>1
    <3> HIDE DEF k, v, n
    <3>4. /\ SubSeq(topics'[k.topic], v.offset + 1, v.offset + n)
                = SubSeq(topics[k.topic], v.offset + 1, v.offset + n)
          /\ v.offset + n <= Len(topics'[k.topic])
      BY <3>1, <3>2, <3>3, PartStays
    <3>5. QED
      BY <3>1, <3>4
  <2>4. k' = k /\ v' = v
    OBVIOUS
  <2>5. /\ asked[c] # NoCall => asked[c] = [k EXCEPT !.lib = TRUE]
        /\ v = [err |-> v.err, offset |-> v.offset, names |-> v.names]
        /\ v.err = "none" /\ k.op \notin {OpPublishNoAck, OpListTopics} =>
              k.topic \in DOMAIN topics
        /\ v.err = "none" /\ k.op \in {OpPublish, OpPublishBatch} => v.offset \in Nat
        /\ pc[c] = "waiting" => result[c] = NoAnswer
        /\ pc[c] # "waiting" /\ v # NoAnswer /\ k.op # OpPublishNoAck =>
              result[c] = Reported(v)
        /\ v = NoAnswer /\ k.op # OpPublishNoAck => result[c].err # "none"
    BY <1>2 DEF History
  <2> HIDE DEF k, v, n
  <2>6. /\ asked'[c] # NoCall => asked'[c] = [k EXCEPT !.lib = TRUE]
        /\ v = [err |-> v.err, offset |-> v.offset, names |-> v.names]
        /\ v.err = "none" /\ k.op \notin {OpPublishNoAck, OpListTopics} =>
              k.topic \in DOMAIN topics'
        /\ v.err = "none" /\ k.op \in {OpPublish, OpPublishBatch} =>
              /\ v.offset \in Nat /\ v.offset + n <= Len(topics'[k.topic])
              /\ SubSeq(topics'[k.topic], v.offset + 1, v.offset + n) = Messages(k.payloads, TRUE)
        /\ pc'[c] = "waiting" => result'[c] = NoAnswer
        /\ pc'[c] # "waiting" /\ v # NoAnswer /\ k.op # OpPublishNoAck =>
              result'[c] = Reported(v)
        /\ v = NoAnswer /\ k.op # OpPublishNoAck => result'[c].err # "none"
    BY <2>2, <2>3, <2>5
  <2>7. QED
    BY <2>4, <2>6, Zenon DEF History, k, v, n
<1>3. QED
  BY <1>1, <1>2

\* What is left of a batch, by the headers of the pool.
LEMMA PendingIs ==
    ASSUME NEW c \in Conns
    PROVE  /\ Pending(c) = FlattenSeq(BytesList(head, bufs[c]))
           /\ Pending(c)' = FlattenSeq(BytesList(head', bufs'[c]))
BY DEF Pending, BytesList, Bytes, BytesOf

\* All that the proofs rest on, but for the bound on the logs.
Wire ==
    /\ DataInv /\ StreamInv /\ PoolInv /\ HeadersExclusive
    /\ ConnsInv /\ ExchangeInv

\* A header that a stream fills is in no buffer of any connection.
LEMMA FreshHeader ==
    ASSUME PoolInv, HeadersExclusive, ConnsInv, NEW h \in free, NEW d \in Conns
    PROVE  /\ h \in Headers /\ bufs[d] \in Seq(Buffer) /\ head \in [Headers -> Seq(Nat)]
           /\ \A m \in 1 .. Len(bufs[d]) : bufs[d][m].head # h
<1>1. h \in Headers /\ bufs[d] \in Seq(Buffer) /\ head \in [Headers -> Seq(Nat)]
  BY DEF PoolInv, ConnsInv
<1>2. \A m \in DOMAIN bufs[d] : bufs[d][m].head \in hdrs[d] \union {NoHeader}
  BY DEF HeadersExclusive
<1>3. DOMAIN bufs[d] = 1 .. Len(bufs[d])
  BY <1>1, LenProperties
<1>4. h \notin hdrs[d] /\ h # NoHeader
  BY <1>1, PushAssumption DEF HeadersExclusive
<1>5. \A m \in 1 .. Len(bufs[d]) : bufs[d][m].head # h
  BY <1>2, <1>3, <1>4
<1>6. QED
  BY <1>1, <1>5

\* The steps of a connection.
StepOf(c) ==
    \/ HandlerStep(c) \/ StreamStep(c) \/ ClientStep(c) \/ WriteFails(c)
    \/ \E k \in Here.calls : Call(c, k) /\ UNCHANGED pushVars
    \/ \E header \in Here.forged : Forge(c, header) /\ UNCHANGED pushVars
    \/ \E b \in Noise : Scribble(c, b) /\ UNCHANGED pushVars
    \/ Leave(c) /\ UNCHANGED pushVars

\* They leave the others alone, but for the pool.
Apart(c) ==
    /\ pc'[c] = pc[c] /\ phase'[c] = phase[c] /\ up'[c] = up[c] /\ down'[c] = down[c]
    /\ call'[c] = call[c] /\ asked'[c] = asked[c] /\ verdict'[c] = verdict[c]
    /\ result'[c] = result[c] /\ subject'[c] = subject[c]
    /\ step'[c] = step[c] /\ cursor'[c] = cursor[c] /\ todo'[c] = todo[c] /\ bufs'[c] = bufs[c]
    /\ got'[c] = got[c] /\ last'[c] = last[c]

\* What there is of every connection.
LEMMA Domains ==
    ASSUME Wire, NEW d \in Conns
    PROVE  /\ d \in DOMAIN pc /\ d \in DOMAIN phase /\ d \in DOMAIN up /\ d \in DOMAIN down
           /\ d \in DOMAIN call /\ d \in DOMAIN asked /\ d \in DOMAIN verdict
           /\ d \in DOMAIN result /\ d \in DOMAIN subject
           /\ d \in DOMAIN step /\ d \in DOMAIN cursor /\ d \in DOMAIN todo /\ d \in DOMAIN bufs
           /\ d \in DOMAIN got /\ d \in DOMAIN last /\ d \in DOMAIN hdrs
<1>1. d \in DOMAIN pc /\ d \in DOMAIN up /\ d \in DOMAIN phase /\ d \in DOMAIN subject
      /\ d \in DOMAIN step /\ d \in DOMAIN cursor /\ d \in DOMAIN todo
  BY DEF Wire, DataInv, StreamInv
<1>2. d \in DOMAIN bufs /\ d \in DOMAIN hdrs /\ d \in DOMAIN call /\ d \in DOMAIN got
  BY DEF Wire, PoolInv, ConnsInv
<1>3. d \in DOMAIN asked
  BY DEF Wire, ConnsInv
<1>4. d \in DOMAIN verdict
  BY DEF Wire, ConnsInv
<1>5. d \in DOMAIN result
  BY DEF Wire, ConnsInv
<1>6. d \in DOMAIN down
  BY DEF Wire, ConnsInv
<1>7. d \in DOMAIN last
  BY DEF Wire, ConnsInv
<1>8. QED
  BY <1>1, <1>2, <1>3, <1>4, <1>5, <1>6, <1>7

\* A step of one connection leaves the others, but for their headers, alone ...
LEMMA OthersApart ==
    ASSUME Wire, NEW c \in Conns, NEW d \in Conns, c # d, StepOf(c)
    PROVE  Apart(d)
<1> USE DEF pushVars, streamVars, poolVars, readerVars, requestVars, brokerVars, clientVars,
            wireVars, serverVars
<1>0. d \in Conns /\ c # d
  OBVIOUS
<1>1. CASE HandlerStep(c)
  BY <1>1, Domains DEF HandlerStep, Serve, Reject, Ignore, Apart
<1>2. CASE ReadBatch(c) \/ StreamEnds(c)
  BY <1>2, Domains DEF ReadBatch, StreamEnds, End, Apart
<1>3. CASE RefuseBatch(c) \/ WriteBuffer(c)
  BY <1>3, Domains DEF RefuseBatch, WriteBuffer, End, Release, KeepHeaders, Apart
<1>4. CASE BatchWritten(c) \/ \E h \in Headers : FillHeader(c, h)
  BY <1>4, Domains DEF BatchWritten, FillHeader, Release, Apart
<1>5. CASE WriteFails(c)
  BY <1>5, Domains DEF WriteFails, Release, End, Apart
<1>6. CASE ClientStep(c)
  BY <1>6, Domains DEF ClientStep, Return, Pull, Apart
<1>7. CASE \E k \in Here.calls : Call(c, k) /\ UNCHANGED pushVars
  BY <1>7, Domains DEF Call, Apart
<1>8. CASE \/ \E header \in Here.forged : Forge(c, header) /\ UNCHANGED pushVars
           \/ \E b \in Noise : Scribble(c, b) /\ UNCHANGED pushVars
           \/ Leave(c) /\ UNCHANGED pushVars
  BY <1>8, Domains DEF Forge, Scribble, Leave, Apart
<1>9. QED
  BY <1>1, <1>2, <1>3, <1>4, <1>5, <1>6, <1>7, <1>8 DEF StepOf, StreamStep

\* ... and does not fill a header that they have still to write.
LEMMA OthersSame ==
    ASSUME Wire, NEW c \in Conns, NEW d \in Conns, c # d, StepOf(c)
    PROVE  Same(d)
<1> USE DEF pushVars, streamVars, poolVars, readerVars, requestVars, brokerVars, clientVars,
            wireVars, serverVars
<1>1. Apart(d)
  BY OthersApart
<1>2. Pending(d)' = Pending(d)
  <2>1. CASE head' = head
    BY <2>1, <1>1, PendingIs DEF Apart
  <2>2. ASSUME NEW h \in Headers, FillHeader(c, h) PROVE Pending(d)' = Pending(d)
    <3>1. h \in free
      BY <2>2 DEF FillHeader
    <3>2. /\ bufs[d] \in Seq(Buffer) /\ head \in [Headers -> Seq(Nat)]
          /\ \A m \in 1 .. Len(bufs[d]) : bufs[d][m].head # h
      BY <3>1, FreshHeader DEF Wire
    <3> DEFINE x == MessageHeader(Head(todo[c]), Len(Log(c)[Head(todo[c]) + 1].Payload))
    <3>3. head' = [head EXCEPT ![h] = x] /\ bufs'[d] = bufs[d]
      BY <2>2, <1>1 DEF FillHeader, Apart
    <3> HIDE DEF x
    <3>4. BytesList(head', bufs[d]) = BytesList(head, bufs[d])
      <4>1. \A m \in DOMAIN bufs[d] : BytesOf(head', bufs[d][m]) = BytesOf(head, bufs[d][m])
        <5>1. \A m \in DOMAIN bufs[d] : bufs[d][m].head # h
          BY <3>2, LenProperties
        <5>2. DOMAIN bufs[d] = 1 .. Len(bufs[d]) /\ \A m \in 1 .. Len(bufs[d]) : bufs[d][m] \in Buffer
          BY <3>2, LenProperties, ElementOfSeq
        <5>3. QED
          BY <5>1, <5>2, <3>2, <3>3 DEF BytesOf, Buffer
      <4>2. QED
        BY <4>1 DEF BytesList
    <3>5. QED
      BY <3>3, <3>4, PendingIs
  <2>3. head' = head \/ \E h \in Headers : FillHeader(c, h)
    <3>1. CASE HandlerStep(c) \/ ClientStep(c) \/ WriteFails(c)
      BY <3>1 DEF HandlerStep, ClientStep, Pull, WriteFails
    <3>2. CASE StreamStep(c)
      BY <3>2 DEF StreamStep, ReadBatch, StreamEnds, RefuseBatch, WriteBuffer, BatchWritten
    <3>3. QED
      BY <3>1, <3>2 DEF StepOf
  <2>4. QED
    BY <2>1, <2>2, <2>3
<1>3. QED
  BY <1>1, <1>2 DEF Apart, Same

\* The steps of no connection leave all of them alone.
LEMMA AllSame ==
    ASSUME UNCHANGED <<clientVars, wireVars, serverVars, pushVars>>, NEW c \in Conns
    PROVE  Same(c)
<1> USE DEF pushVars, streamVars, poolVars, readerVars, requestVars, brokerVars, clientVars,
            wireVars, serverVars
<1>1. Pending(c)' = Pending(c)
  BY PendingIs
<1>2. QED
  BY <1>1 DEF Same

-----------------------------------------------------------------------------
\* The steps of a stream

\* What goes on behind the answer to a subscription.
Continues(s, b, y) ==
    /\ s \o y = SubscribeOk \o (b \o y)
    /\ AfterFrame(s \o y) = b \o y
    /\ b \o y \in Seq(Nat)

\* What is written goes behind what is there already.
LEMMA BehindGrows ==
    ASSUME NEW b \in Seq(Nat), NEW y \in Seq(Nat), NEW s, s = SubscribeOk \o b
    PROVE  Continues(s, b, y)
<1>1. SubscribeOk \in Seq(Nat) /\ <<>> \in Seq(Nat) /\ OpSubscribe \in Nat /\ Fits(<<>>)
  <2>1. <<>> \in Seq(Nat) /\ OpSubscribe \in Nat
    BY DEF OpSubscribe
  <2>2. Fits(<<>>)
    BY CodecAssumption DEF Fits
  <2>3. QED
    BY <2>1, <2>2, FrameBytes DEF SubscribeOk
<1> DEFINE a == SubscribeOk
           rest == b \o y
<1>2. rest \in Seq(Nat)
  BY ConcatBytes
<1>3. /\ ReadFrame(EncodeFrame(OpSubscribe, <<>>) \o rest)
            = [err |-> "none", op |-> OpSubscribe, payload |-> <<>>]
      /\ AfterFrame(EncodeFrame(OpSubscribe, <<>>) \o rest) = rest
  BY <1>1, <1>2, FrameRoundTrip
<1>4. AfterFrame(a \o rest) = rest
  BY <1>3, Zenon DEF SubscribeOk
<1> HIDE DEF a
<1>5. a \in Seq(Nat)
  BY <1>1 DEF a
<1>6. (a \o b) \o y = a \o (b \o y)
  BY <1>5, ConcatAssociative, SMTT(60)
<1>7. s \o y = a \o rest
  BY <1>6, Zenon DEF a, rest
<1>8. QED
  BY <1>2, <1>4, <1>7, Zenon DEF a, rest, Continues

\* A stream of which only these things change remains one.
LEMMA GrantedAgain ==
    ASSUME NEW c \in Conns, Granted(c), topics' = topics, NEW x \in Seq(Nat),
           pc'[c] = pc[c], up'[c] = up[c], call'[c] = call[c], verdict'[c] = verdict[c],
           subject'[c] = subject[c], got'[c] = got[c], last'[c] = last[c],
           Behind(c)' = x, pc[c] = "waiting" => down'[c] = SubscribeOk \o x,
           phase'[c] \in {"push", "ended"}, phase[c] = "push",
           phase'[c] = "push" =>
              /\ Batch(c)'
              /\ Pushing(Log(c), step'[c], x, Pending(c)', Len(got[c]), Stand(c)'),
           phase'[c] = "ended" => Ended(Log(c), x, Len(got[c]))
    PROVE  Granted(c)'
<1>1. Log(c)' = Log(c)
  BY DEF Log
<1>2. last[c] = "none"
  BY DEF Granted
<1>3. QED
  BY <1>1, <1>2 DEF Granted

\* What is on the wire when more is written.
LEMMA WrittenBehind ==
    ASSUME NEW c \in Conns, Granted(c), NEW y \in Seq(Nat), pc'[c] = pc[c], down'[c] = down[c] \o y
    PROVE  /\ Behind(c) \o y \in Seq(Nat)
           /\ Behind(c)' = Behind(c) \o y
           /\ pc[c] = "waiting" => down'[c] = SubscribeOk \o (Behind(c) \o y)
<1> DEFINE b == Behind(c)
<1>1. b \in Seq(Nat) /\ (pc[c] = "waiting" => down[c] = SubscribeOk \o b)
      /\ (pc[c] # "waiting" => down[c] = b)
  BY DEF Granted, Behind
<1>2. Behind(c)' = IF pc[c] = "waiting" THEN AfterFrame(down'[c]) ELSE down'[c]
  BY DEF Behind
<1> HIDE DEF b
<1>3. b \o y \in Seq(Nat)
  BY <1>1, ConcatBytes
<1>4. CASE pc[c] = "waiting"
  <2> DEFINE s == down[c]
  <2>1. s = SubscribeOk \o b
    BY <1>1, <1>4
  <2> HIDE DEF s
  <2>2. Continues(s, b, y)
    BY <1>1, <2>1, BehindGrows
  <2>4. s \o y = SubscribeOk \o (b \o y) /\ AfterFrame(s \o y) = b \o y
    BY <2>2, Zenon DEF Continues
  <2>3. QED
    BY <1>2, <1>3, <1>4, <2>4 DEF s, b
<1>5. CASE pc[c] # "waiting"
  BY <1>1, <1>2, <1>3, <1>5 DEF b
<1>6. QED
  BY <1>4, <1>5

\* What is on the wire when nothing is written.
LEMMA SameBehind ==
    ASSUME NEW c \in Conns, Granted(c), pc'[c] = pc[c], down'[c] = down[c]
    PROVE  /\ Behind(c) \in Seq(Nat)
           /\ Behind(c)' = Behind(c)
           /\ pc[c] = "waiting" => down'[c] = SubscribeOk \o Behind(c)
BY DEF Granted, Behind

\* What is known of a stream that runs.
LEMMA StreamData ==
    ASSUME Wire, NEW c \in Conns, phase[c] = "push", pc[c] \notin {"forging", "gone"}
    PROVE  /\ Granted(c) /\ Batch(c) /\ last[c] = "none"
           /\ Pushing(Log(c), step[c], Behind(c), Pending(c), Len(got[c]), Stand(c))
           /\ Behind(c) \in Seq(Nat) /\ Pending(c) \in Seq(Nat)
           /\ Log(c) \in Seq(Entry) /\ Len(Log(c)) \in Nat
           /\ Len(got[c]) \in Nat /\ Stand(c) \in Nat
           /\ cursor[c] \in Nat /\ todo[c] \in Seq(Nat) /\ Len(todo[c]) \in Nat
           /\ bufs[c] \in Seq(Buffer) /\ head \in [Headers -> Seq(Nat)]
<1>1. Granted(c)
  BY DEF Wire, ExchangeInv, Exchange, Resting, Sent, Answered, Ignored, Rejected
<1>2. /\ Batch(c) /\ last[c] = "none" /\ Behind(c) \in Seq(Nat) /\ subject[c] \in DOMAIN topics
      /\ Pushing(Log(c), step[c], Behind(c), Pending(c), Len(got[c]), Stand(c))
  BY <1>1 DEF Granted
<1>3. Log(c) \in Seq(Entry) /\ Len(Log(c)) \in Nat
  BY <1>2, LenProperties DEF Log, Wire, DataInv
<1>4. cursor[c] \in Nat /\ todo[c] \in Seq(Nat) /\ Len(todo[c]) \in Nat /\ bufs[c] \in Seq(Buffer)
      /\ head \in [Headers -> Seq(Nat)] /\ Len(got[c]) \in Nat
  BY LenProperties DEF Wire, StreamInv, PoolInv, ConnsInv
<1>5. Stand(c) \in Nat
  <2>1. Stand(c) \in Int
    BY <1>4 DEF Stand
  <2>2. Len(got[c]) <= Stand(c)
    BY <1>2 DEF Pushing
  <2>3. QED
    BY <1>4, <2>1, <2>2
<1>6. Pending(c) \in Seq(Nat)
  BY <1>4, PendingIs, BytesListBytes, FlattenBytes
<1>7. QED
  BY <1>1, <1>2, <1>3, <1>4, <1>5, <1>6

\* ReadBatch: the stream takes the offsets of the next messages.
LEMMA ReadBatchStep ==
    ASSUME Wire, NEW c \in Conns, ReadBatch(c), pc[c] \notin {"forging", "gone"}
    PROVE  Granted(c)'
<1> USE DEF pushVars, streamVars, poolVars, readerVars, requestVars, brokerVars, clientVars,
            wireVars, serverVars
<1>1. /\ phase[c] = "push" /\ step[c] = "read" /\ phase' = phase /\ bufs' = bufs /\ head' = head
      /\ step'[c] = "fill" /\ down' = down /\ topics' = topics
      /\ pc' = pc /\ up' = up /\ call' = call /\ verdict' = verdict /\ subject' = subject
      /\ got' = got /\ last' = last
      /\ cursor[c] < Len(Log(c))
  BY Domains DEF ReadBatch
<1>2. PICK end \in {Len(Log(c)), cursor[c] + StreamBatch} :
         /\ end <= Len(Log(c)) /\ end <= cursor[c] + StreamBatch
         /\ todo'[c] = [i \in 1 .. end - cursor[c] |-> cursor[c] + i - 1]
         /\ cursor'[c] = end
  BY Domains DEF ReadBatch
<1>3. /\ Granted(c) /\ Batch(c)
      /\ Pushing(Log(c), step[c], Behind(c), Pending(c), Len(got[c]), Stand(c))
      /\ Behind(c) \in Seq(Nat) /\ Pending(c) \in Seq(Nat)
      /\ Log(c) \in Seq(Entry) /\ Len(Log(c)) \in Nat
      /\ Len(got[c]) \in Nat /\ Stand(c) \in Nat /\ cursor[c] \in Nat
  BY <1>1, StreamData
<1>4. Stand(c) = cursor[c] /\ Pending(c) = <<>>
  <2>1. todo[c] = <<>> /\ bufs[c] = <<>>
    BY <1>1, <1>3 DEF Batch
  <2>2. BytesList(head, <<>>) = <<>>
    BY DEF BytesList
  <2>3. QED
    BY <1>3, <2>1, <2>2, PendingIs, FlattenSmall DEF Stand
<1>5. end \in Nat /\ cursor[c] <= end
  BY <1>1, <1>2, <1>3, PushAssumption
<1>6. Len(todo'[c]) = end - cursor[c] /\ DOMAIN todo'[c] = 1 .. end - cursor[c]
      /\ \A m \in 1 .. end - cursor[c] : todo'[c][m] = cursor[c] + m - 1
  BY <1>2, <1>3, <1>5
<1>7. Stand(c)' = cursor[c]
  BY <1>2, <1>3, <1>5, <1>6 DEF Stand
<1>8. Batch(c)'
  BY <1>1, <1>6, <1>7 DEF Batch
<1>9. Pending(c)' = Pending(c)
  BY <1>1, PendingIs
<1>10. Pushing(Log(c), "fill", Behind(c), Pending(c), Len(got[c]), cursor[c])
  <2> DEFINE i == Len(got[c])
             j == cursor[c]
             x == Behind(c)
             rest == Pending(c)
             log == Log(c)
  <2>1. /\ Pushing(log, "read", x, rest, i, j) /\ x \in Seq(Nat) /\ rest = <<>>
        /\ i \in Nat /\ j \in Nat
    BY <1>1, <1>3, <1>4
  <2> HIDE DEF i, j, x, rest, log
  <2>2. x \o <<>> = x
    BY <2>1, ConcatEmptySeq
  <2>3. x = Frames(log, i, j) /\ j \in i .. j
    BY <2>1, <2>2 DEF Pushing
  <2>4. Pushing(log, "fill", x, rest, i, j)
    BY <2>1, <2>3 DEF Pushing
  <2>5. QED
    BY <2>4 DEF i, j, x, rest, log
<1>11. Behind(c)' = Behind(c) /\ (pc[c] = "waiting" => down'[c] = SubscribeOk \o Behind(c))
  BY <1>1, <1>3, SameBehind
<1>12. phase'[c] = "push"
       /\ Pushing(Log(c), step'[c], Behind(c), Pending(c)', Len(got[c]), Stand(c)')
  BY <1>1, <1>7, <1>9, <1>10
<1>13. QED
  BY <1>1, <1>3, <1>8, <1>11, <1>12, GrantedAgain

\* StreamEnds: a closed broker ends a stream between two frames.
LEMMA StreamEndsStep ==
    ASSUME Wire, NEW c \in Conns, StreamEnds(c), pc[c] \notin {"forging", "gone"}
    PROVE  Granted(c)'
<1> USE DEF pushVars, streamVars, poolVars, readerVars, requestVars, brokerVars, clientVars,
            wireVars, serverVars
<1>1. /\ phase[c] = "push" /\ step[c] = "read" /\ phase'[c] = "ended"
      /\ down' = down /\ topics' = topics
      /\ pc' = pc /\ up' = up /\ call' = call /\ verdict' = verdict /\ subject' = subject
      /\ got' = got /\ last' = last
  BY Domains DEF StreamEnds, End
<1>2. /\ Granted(c)
      /\ Pushing(Log(c), "read", Behind(c), Pending(c), Len(got[c]), Stand(c))
      /\ Behind(c) \in Seq(Nat)
      /\ Log(c) \in Seq(Entry) /\ Len(Log(c)) \in Nat
      /\ Len(got[c]) \in Nat /\ Stand(c) \in Nat
  BY <1>1, StreamData
<1>3. Ended(Log(c), Behind(c), Len(got[c]))
  <2> DEFINE i == Len(got[c])
             j == Stand(c)
             x == Behind(c)
             rest == Pending(c)
             log == Log(c)
  <2>1. /\ Pushing(log, "read", x, rest, i, j) /\ x \in Seq(Nat)
        /\ i \in Nat /\ j \in Nat /\ log \in Seq(Entry) /\ Len(log) \in Nat
    BY <1>2
  <2> HIDE DEF i, j, x, rest, log
  <2>2. x \o <<>> = x /\ <<>> \in Seq(Nat)
    BY <2>1, ConcatEmptySeq
  <2>3. /\ x \o <<>> = Frames(log, i, j) /\ j \in i .. Len(log) /\ i <= j /\ j <= Len(log)
        /\ \A m \in 1 .. j : CanPush(log[m].Payload)
    BY <2>1, <2>2 DEF Pushing
  <2>4. Frames(log, i, j) \in Seq(Nat)
    BY <2>1, <2>3, FrameListBytes
  <2>5. IsPrefix(x, Frames(log, i, j))
    BY <2>1, <2>2, <2>3, <2>4, PrefixRest
  <2>6. Ended(log, x, i)
    BY <2>3, <2>5 DEF Ended
  <2>7. QED
    BY <2>6 DEF i, j, x, log
<1>4. Behind(c)' = Behind(c) /\ (pc[c] = "waiting" => down'[c] = SubscribeOk \o Behind(c))
  BY <1>1, <1>2, SameBehind
<1>5. QED
  BY <1>1, <1>2, <1>3, <1>4, GrantedAgain

\* Three sequences, however they are put together.
Chained(a, b, c) == (a \o b) \o c = a \o (b \o c)

\* It does not matter which of three sequences are put together first.
LEMMA ConcatThree ==
    ASSUME NEW a \in Seq(Nat), NEW b \in Seq(Nat), NEW c \in Seq(Nat)
    PROVE  Chained(a, b, c)
<1>1. (a \o b) \o c = a \o (b \o c)
  BY ConcatAssociative, SMTT(60)
<1>2. QED
  BY <1>1 DEF Chained

\* One more message is filled in.
LEMMA PushingFills ==
    ASSUME NEW log \in Seq(Entry), NEW stage \in {"fill", "write"}, NEW x \in Seq(Nat),
           NEW rest \in Seq(Nat), NEW i \in Nat, NEW j \in Nat, j < Len(log),
           CanPush(log[j + 1].Payload), Pushing(log, "fill", x, rest, i, j),
           NEW f, f = PushFrame(j, log[j + 1].Payload)
    PROVE  Pushing(log, stage, x, rest \o f, i, j + 1)
<1>1. /\ i <= j /\ j <= Len(log) /\ Len(log) \in Nat
      /\ \A m \in 1 .. j : CanPush(log[m].Payload)
      /\ x \o rest = Frames(log, i, j)
      /\ \E m \in i .. j : x = Frames(log, i, m)
  BY LenProperties DEF Pushing
<1>2. log[j + 1].Payload \in Seq(Nat) /\ Frames(log, i, j + 1) = Frames(log, i, j) \o f
  BY <1>1, FramesUnfold
<1>3. f \in Seq(Nat)
  BY <1>2, PushFrameBytes
<1>4. (x \o rest) \o f = x \o (rest \o f)
  <2>1. Chained(x, rest, f)
    BY <1>3, ConcatThree
  <2>2. QED
    BY <2>1, Zenon DEF Chained
<1>5. x \o (rest \o f) = Frames(log, i, j + 1)
  BY <1>1, <1>2, <1>4
<1>6. i <= j + 1 /\ j + 1 <= Len(log) /\ (\A m \in 1 .. j + 1 : CanPush(log[m].Payload))
  BY <1>1
<1>7. \E m \in i .. j + 1 : x = Frames(log, i, m)
  BY <1>1
<1>8. QED
  BY <1>5, <1>6, <1>7 DEF Pushing

\* Some bytes of the batch go out.
LEMMA PushingWrites ==
    ASSUME NEW log \in Seq(Entry), NEW x \in Seq(Nat), NEW y \in Seq(Nat),
           NEW rest \in Seq(Nat), NEW i \in Nat, NEW j \in Nat,
           NEW r, r = y \o rest, Pushing(log, "write", x, r, i, j)
    PROVE  Pushing(log, "write", x \o y, rest, i, j)
<1>1. (x \o y) \o rest = x \o (y \o rest)
  <2>1. Chained(x, y, rest)
    BY ConcatThree
  <2>2. QED
    BY <2>1, Zenon DEF Chained
<1>2. (x \o y) \o rest = x \o r
  BY <1>1, Zenon
<1>3. QED
  BY <1>2 DEF Pushing

\* The batch has gone out.
LEMMA PushingRests ==
    ASSUME NEW log \in Seq(Entry), NEW x \in Seq(Nat), NEW i \in Nat, NEW j \in Nat,
           Pushing(log, "write", x, <<>>, i, j)
    PROVE  Pushing(log, "read", x, <<>>, i, j)
BY DEF Pushing

\* A part of the batch has gone out when the write fails.
LEMMA PushingTears ==
    ASSUME NEW log \in Seq(Entry), NEW x \in Seq(Nat), NEW y \in Seq(Nat),
           NEW rest \in Seq(Nat), NEW i \in Nat, NEW j \in Nat,
           NEW r, r = y \o rest, Pushing(log, "write", x, r, i, j),
           NEW n \in Nat, n <= Len(y)
    PROVE  /\ SubSeq(y, 1, n) \in Seq(Nat)
           /\ Ended(log, x \o SubSeq(y, 1, n), i)
<1> DEFINE z == SubSeq(y, 1, n)
<1>1. Len(y) \in Nat
  BY LenProperties
<1>2. z \in Seq(Nat)
  BY <1>1
<1>3. IsPrefix(z, y)
  <2>1. Len(z) = n /\ SubSeq(z, 1, n) = z
    BY <1>1
  <2>2. QED
    BY <2>1 DEF IsPrefix
<1> HIDE DEF z
<1>4. PICK t \in Seq(Nat) : z \o t = y
  BY <1>2, <1>3, PrefixRest
<1> DEFINE u == t \o rest
           w == x \o z
<1>5. u \in Seq(Nat) /\ w \in Seq(Nat)
  BY <1>2, ConcatBytes
<1>6. x \o r = w \o u
  <2>1. (z \o t) \o rest = z \o (t \o rest)
    <3>1. Chained(z, t, rest)
      BY <1>2, ConcatThree
    <3>2. QED
      BY <3>1, Zenon DEF Chained
  <2>2. r = z \o u
    BY <2>1, <1>4, Zenon
  <2> HIDE DEF u
  <2>3. (x \o z) \o u = x \o (z \o u)
    <3>1. Chained(x, z, u)
      BY <1>2, <1>5, ConcatThree
    <3>2. QED
      BY <3>1, Zenon DEF Chained
  <2>4. QED
    BY <2>2, <2>3, Zenon
<1> HIDE DEF u, w
<1>7. /\ i <= j /\ j <= Len(log) /\ Len(log) \in Nat
      /\ \A m \in 1 .. j : CanPush(log[m].Payload)
      /\ w \o u = Frames(log, i, j)
  BY <1>6, LenProperties DEF Pushing
<1>8. Frames(log, i, j) \in Seq(Nat)
  BY <1>7, FrameListBytes
<1>9. IsPrefix(w, Frames(log, i, j))
  BY <1>5, <1>7, <1>8, PrefixRest
<1>10. Ended(log, w, i)
  BY <1>7, <1>9 DEF Ended
<1>11. QED
  BY <1>2, <1>10 DEF z, w

\* A batch is refused: whole frames have gone out, and the last word follows.
LEMMA PushingRefused ==
    ASSUME NEW log \in Seq(Entry), NEW x \in Seq(Nat), NEW rest,
           NEW i \in Nat, NEW j \in Nat, Pushing(log, "fill", x, rest, i, j)
    PROVE  Ended(log, x \o LastWord, i)
<1>1. /\ i <= j /\ j <= Len(log) /\ Len(log) \in Nat
      /\ \A m \in 1 .. j : CanPush(log[m].Payload)
      /\ \E m \in i .. j : x = Frames(log, i, m)
  BY LenProperties DEF Pushing
<1>2. PICK m \in i .. j : x = Frames(log, i, m)
  BY <1>1
<1>3. m \in i .. Len(log) /\ (\A k \in 1 .. m : CanPush(log[k].Payload))
  BY <1>1
<1>4. x \o LastWord = Frames(log, i, m) \o LastWord
  BY <1>2, Zenon
<1>5. QED
  BY <1>3, <1>4 DEF Ended

\* FillHeader: the frame of one more message goes into the batch.
LEMMA FillHeaderStep ==
    ASSUME Wire, NEW c \in Conns, NEW h \in Headers, FillHeader(c, h), pc[c] \notin {"forging", "gone"}
    PROVE  Granted(c)'
<1> USE DEF pushVars, streamVars, poolVars, readerVars, requestVars, brokerVars, clientVars,
            wireVars, serverVars
<1> DEFINE j == Stand(c)
           log == Log(c)
           p == Log(c)[Stand(c) + 1].Payload
           f == PushFrame(j, p)
           bs == bufs[c]
<1>1. /\ phase[c] = "push" /\ step[c] = "fill" /\ phase' = phase /\ down' = down
      /\ topics' = topics /\ cursor' = cursor
      /\ pc' = pc /\ up' = up /\ call' = call /\ verdict' = verdict /\ subject' = subject
      /\ got' = got /\ last' = last /\ h \in free
      /\ todo'[c] = Tail(todo[c])
      /\ step'[c] = IF todo'[c] = <<>> THEN "write" ELSE "fill"
  BY Domains DEF FillHeader
<1>2. /\ Granted(c) /\ Batch(c)
      /\ Pushing(log, "fill", Behind(c), Pending(c), Len(got[c]), j)
      /\ Behind(c) \in Seq(Nat) /\ Pending(c) \in Seq(Nat)
      /\ log \in Seq(Entry) /\ Len(log) \in Nat
      /\ Len(got[c]) \in Nat /\ j \in Nat /\ cursor[c] \in Nat
      /\ todo[c] \in Seq(Nat) /\ Len(todo[c]) \in Nat
      /\ bs \in Seq(Buffer) /\ head \in [Headers -> Seq(Nat)]
  BY <1>1, StreamData
<1>3. /\ todo[c] # <<>> /\ subject[c] \in DOMAIN topics
      /\ \A i \in DOMAIN todo[c] : todo[c][i] < Len(log)
  BY <1>1 DEF Wire, StreamInv
<1>4. Len(todo[c]) >= 1 /\ 1 \in DOMAIN todo[c] /\ Head(todo[c]) = todo[c][1]
      /\ DOMAIN todo[c] = 1 .. Len(todo[c])
      /\ Len(Tail(todo[c])) = Len(todo[c]) - 1 /\ Tail(todo[c]) \in Seq(Nat)
      /\ \A m \in 1 .. Len(todo[c]) - 1 : Tail(todo[c])[m] = todo[c][m + 1]
  <2>1. todo[c] \in Seq(Nat) /\ todo[c] # <<>>
    BY <1>2, <1>3
  <2>2. /\ Len(todo[c]) >= 1 /\ 1 \in DOMAIN todo[c] /\ Head(todo[c]) = todo[c][1]
        /\ DOMAIN todo[c] = 1 .. Len(todo[c])
    BY <2>1
  <2>3. Len(Tail(todo[c])) = Len(todo[c]) - 1 /\ Tail(todo[c]) \in Seq(Nat)
    BY <2>1
  <2>4. \A m \in 1 .. Len(todo[c]) - 1 : Tail(todo[c])[m] = todo[c][m + 1]
    BY <2>1
  <2>5. QED
    BY <2>2, <2>3, <2>4
<1>5. Head(todo[c]) = j /\ j < Len(log)
  <2>1. todo[c][1] = j + 1 - 1
    BY <1>2, <1>4 DEF Batch
  <2>2. QED
    BY <2>1, <1>2, <1>3, <1>4, SMTT(30)
<1>6. /\ CanPush(p)
      /\ head' = [head EXCEPT ![h] = MessageHeader(j, Len(p))]
      /\ bufs'[c] = bs \o <<HeaderBuf(h), PayloadBuf(p)>>
  BY <1>5, Domains DEF FillHeader
<1>7. p \in Seq(Nat)
  BY <1>2, <1>5, FramesUnfold DEF Pushing
<1> HIDE DEF j, p, log, bs
<1>8. f \in Seq(Nat) /\ MessageHeader(j, Len(p)) \in Seq(Nat) /\ MessageHeader(j, Len(p)) \o p = f
  BY <1>2, <1>7, PushFrameBytes
<1>9. Stand(c)' = j + 1
  <2>1. Stand(c)' = cursor[c] - Len(Tail(todo[c])) /\ j = cursor[c] - Len(todo[c])
    BY <1>1 DEF Stand, j
  <2>2. QED
    BY <2>1, <1>2, <1>4
<1>10. Batch(c)'
  <2>1. \A m \in DOMAIN todo'[c] : todo'[c][m] = Stand(c)' + m - 1
    <3>1. \A m \in DOMAIN todo[c] : todo[c][m] = j + m - 1
      BY <1>2 DEF Batch, j
    <3>2. DOMAIN todo'[c] = 1 .. Len(todo[c]) - 1
      BY <1>1, <1>4
    <3>3. ASSUME NEW m \in 1 .. Len(todo[c]) - 1 PROVE todo'[c][m] = (j + 1) + m - 1
      <4>1. m + 1 \in DOMAIN todo[c] /\ j + (m + 1) - 1 = (j + 1) + m - 1
        BY <1>2, <1>4
      <4>2. todo'[c][m] = todo[c][m + 1]
        BY <1>1, <1>4
      <4>3. QED
        BY <3>1, <4>1, <4>2
    <3>4. QED
      BY <3>2, <3>3, <1>9
  <2>2. step'[c] # "fill" => todo'[c] = <<>>
    BY <1>1
  <2>3. step'[c] # "read"
    BY <1>1
  <2>4. QED
    BY <2>1, <2>2, <2>3 DEF Batch
<1>11. Pending(c)' = Pending(c) \o f
  <2> DEFINE x == MessageHeader(j, Len(p))
             hd == [head EXCEPT ![h] = x]
  <2>1. x \in Seq(Nat) /\ x \o p = f
    BY <1>8
  <2> HIDE DEF x
  <2>2. hd \in [Headers -> Seq(Nat)] /\ hd[h] = x
    BY <2>1, <1>2
  <2>3. \A m \in 1 .. Len(bs) : bs[m].head # h
    BY <1>1, FreshHeader DEF Wire, bs
  <2>4. BytesList(hd, bs) = BytesList(head, bs)
    BY <2>1, <2>3, <1>2, BytesListStays
  <2>5. Pending(c) = FlattenSeq(BytesList(head, bs))
        /\ Pending(c)' = FlattenSeq(BytesList(head', bufs'[c]))
    BY PendingIs DEF bs
  <2>6. head' = hd
    BY <1>6 DEF x
  <2> HIDE DEF hd
  <2>7. FlattenSeq(BytesList(hd, bs \o <<HeaderBuf(h), PayloadBuf(p)>>))
           = FlattenSeq(BytesList(hd, bs)) \o (hd[h] \o p)
    BY <2>2, <1>2, <1>7, BytesListAppend
  <2>8. Pending(c)' = FlattenSeq(BytesList(hd, bs \o <<HeaderBuf(h), PayloadBuf(p)>>))
    BY <2>5, <2>6, <1>6, Zenon
  <2>9. hd[h] \o p = f
    BY <2>1, <2>2, Zenon
  <2>10. QED
    BY <2>4, <2>5, <2>7, <2>8, <2>9, Zenon
<1>12. Pushing(log, step'[c], Behind(c), Pending(c) \o f, Len(got[c]), j + 1)
  <2> DEFINE stage == step'[c]
             x == Behind(c)
             rest == Pending(c)
             i == Len(got[c])
  <2>1. /\ log \in Seq(Entry) /\ stage \in {"fill", "write"} /\ x \in Seq(Nat)
        /\ rest \in Seq(Nat) /\ i \in Nat /\ j \in Nat /\ j < Len(log)
        /\ Pushing(log, "fill", x, rest, i, j)
        /\ p = log[j + 1].Payload
    BY <1>1, <1>2, <1>5 DEF j, log, p
  <2> HIDE DEF stage, x, rest, i
  <2>2. f = PushFrame(j, log[j + 1].Payload) /\ CanPush(log[j + 1].Payload)
    BY <2>1, <1>6
  <2> HIDE DEF f
  <2>3. Pushing(log, stage, x, rest \o f, i, j + 1)
    BY <2>1, <2>2, PushingFills
  <2>4. QED
    BY <2>3 DEF stage, x, rest, i
<1>13. Behind(c)' = Behind(c) /\ (pc[c] = "waiting" => down'[c] = SubscribeOk \o Behind(c))
  BY <1>1, <1>2, SameBehind
<1> HIDE DEF f
<1>14. phase'[c] = "push"
       /\ Pushing(Log(c), step'[c], Behind(c), Pending(c)', Len(got[c]), Stand(c)')
  BY <1>1, <1>9, <1>11, <1>12 DEF log
<1>15. QED
  BY <1>1, <1>2, <1>10, <1>13, <1>14, GrantedAgain

\* BatchWritten: nothing is left to write.
LEMMA BatchWrittenStep ==
    ASSUME Wire, NEW c \in Conns, BatchWritten(c), pc[c] \notin {"forging", "gone"}
    PROVE  Granted(c)'
<1> USE DEF pushVars, streamVars, poolVars, readerVars, requestVars, brokerVars, clientVars,
            wireVars, serverVars
<1>1. /\ phase[c] = "push" /\ step[c] = "write" /\ phase' = phase /\ bufs' = bufs /\ head' = head
      /\ step'[c] = "read" /\ down' = down /\ topics' = topics /\ cursor' = cursor /\ todo' = todo
      /\ pc' = pc /\ up' = up /\ call' = call /\ verdict' = verdict /\ subject' = subject
      /\ got' = got /\ last' = last /\ bufs[c] = <<>>
  BY Domains DEF BatchWritten
<1>2. /\ Granted(c) /\ Batch(c)
      /\ Pushing(Log(c), "write", Behind(c), Pending(c), Len(got[c]), Stand(c))
      /\ Behind(c) \in Seq(Nat)
      /\ Log(c) \in Seq(Entry) /\ Len(got[c]) \in Nat /\ Stand(c) \in Nat
  BY <1>1, StreamData
<1>3. Pending(c) = <<>>
  <2>1. BytesList(head, <<>>) = <<>>
    BY DEF BytesList
  <2>2. QED
    BY <1>1, <2>1, PendingIs, FlattenSmall
<1>4. Pending(c)' = Pending(c) /\ Stand(c)' = Stand(c)
  BY <1>1, PendingIs DEF Stand
<1>5. Batch(c)'
  BY <1>1, <1>2, <1>4 DEF Batch
<1>6. Pushing(Log(c), "read", Behind(c), Pending(c), Len(got[c]), Stand(c))
  BY <1>2, <1>3, PushingRests
<1>7. Behind(c)' = Behind(c) /\ (pc[c] = "waiting" => down'[c] = SubscribeOk \o Behind(c))
  BY <1>1, <1>2, SameBehind
<1>8. phase'[c] = "push"
      /\ Pushing(Log(c), step'[c], Behind(c), Pending(c)', Len(got[c]), Stand(c)')
  BY <1>1, <1>4, <1>6
<1>9. QED
  BY <1>1, <1>2, <1>5, <1>7, <1>8, GrantedAgain

\* RefuseBatch: what has gone out are whole frames.
LEMMA RefuseBatchStep ==
    ASSUME Wire, NEW c \in Conns, RefuseBatch(c), pc[c] \notin {"forging", "gone"}
    PROVE  Granted(c)'
<1> USE DEF pushVars, streamVars, poolVars, readerVars, requestVars, brokerVars, clientVars,
            wireVars, serverVars
<1> DEFINE x == Behind(c)
<1>1. /\ phase[c] = "push" /\ step[c] = "fill" /\ phase'[c] = "ended"
      /\ down'[c] = down[c] \o LastWord /\ topics' = topics
      /\ pc' = pc /\ up' = up /\ call' = call /\ verdict' = verdict /\ subject' = subject
      /\ got' = got /\ last' = last
  BY Domains DEF RefuseBatch, End, LastWord
<1>2. /\ Granted(c)
      /\ Pushing(Log(c), "fill", x, Pending(c), Len(got[c]), Stand(c))
      /\ x \in Seq(Nat) /\ Log(c) \in Seq(Entry) /\ Len(got[c]) \in Nat /\ Stand(c) \in Nat
  BY <1>1, StreamData
<1>3. /\ x \o LastWord \in Seq(Nat)
      /\ Behind(c)' = x \o LastWord
      /\ pc[c] = "waiting" => down'[c] = SubscribeOk \o (x \o LastWord)
  BY <1>1, <1>2, LastWordIsRead, WrittenBehind
<1>4. Ended(Log(c), x \o LastWord, Len(got[c]))
  BY <1>2, PushingRefused
<1>5. QED
  BY <1>1, <1>2, <1>3, <1>4, GrantedAgain

\* What is next to be written, and what remains behind it.
LEMMA NextBuffer ==
    ASSUME Wire, NEW c \in Conns, bufs[c] # <<>>
    PROVE  LET y == Bytes(Head(bufs[c]))
               rest == FlattenSeq(BytesList(head, Tail(bufs[c])))
           IN  y \in Seq(Nat) /\ rest \in Seq(Nat) /\ Pending(c) = y \o rest
<1>1. bufs[c] \in Seq(Buffer) /\ head \in [Headers -> Seq(Nat)]
  BY DEF Wire, PoolInv, ConnsInv
<1>2. Bytes(Head(bufs[c])) = BytesOf(head, Head(bufs[c]))
  BY DEF Bytes, BytesOf
<1>3. Pending(c) = FlattenSeq(BytesList(head, bufs[c]))
  BY PendingIs
<1> DEFINE bs == bufs[c]
<1>4. bs \in Seq(Buffer) /\ bs # <<>>
  BY <1>1
<1>5. /\ Bytes(Head(bs)) = BytesOf(head, Head(bs))
      /\ Pending(c) = FlattenSeq(BytesList(head, bs))
  BY <1>2, <1>3
<1> HIDE DEF bs
<1>6. /\ BytesOf(head, Head(bs)) \in Seq(Nat)
      /\ FlattenSeq(BytesList(head, Tail(bs))) \in Seq(Nat)
      /\ FlattenSeq(BytesList(head, bs))
            = BytesOf(head, Head(bs)) \o FlattenSeq(BytesList(head, Tail(bs)))
  BY <1>1, <1>4, BytesListHead
<1>7. QED
  BY <1>5, <1>6, Zenon DEF bs

\* WriteBuffer: a buffer of the batch goes out.
LEMMA WriteBufferStep ==
    ASSUME Wire, NEW c \in Conns, WriteBuffer(c), pc[c] \notin {"forging", "gone"}
    PROVE  Granted(c)'
<1> USE DEF pushVars, streamVars, poolVars, readerVars, requestVars, brokerVars, clientVars,
            wireVars, serverVars
<1> DEFINE x == Behind(c)
           y == Bytes(Head(bufs[c]))
           rest == FlattenSeq(BytesList(head, Tail(bufs[c])))
<1>1. /\ phase[c] = "push" /\ step[c] = "write" /\ phase' = phase /\ bufs[c] # <<>>
      /\ bufs'[c] = Tail(bufs[c]) /\ head' = head
      /\ step' = step /\ down'[c] = down[c] \o y /\ topics' = topics /\ cursor' = cursor
      /\ todo' = todo /\ pc' = pc /\ up' = up /\ call' = call /\ verdict' = verdict
      /\ subject' = subject /\ got' = got /\ last' = last
  BY Domains DEF WriteBuffer, KeepHeaders
<1>2. /\ Granted(c) /\ Batch(c)
      /\ Pushing(Log(c), "write", x, Pending(c), Len(got[c]), Stand(c))
      /\ x \in Seq(Nat) /\ Log(c) \in Seq(Entry) /\ Len(got[c]) \in Nat /\ Stand(c) \in Nat
  BY <1>1, StreamData
<1>3. y \in Seq(Nat) /\ rest \in Seq(Nat) /\ Pending(c) = y \o rest
  BY <1>1, NextBuffer
<1>4. Pending(c)' = rest
  BY <1>1, PendingIs
<1> HIDE DEF y, rest
<1>5. Stand(c)' = Stand(c) /\ Batch(c)'
  BY <1>1, <1>2 DEF Stand, Batch
<1>6. Pushing(Log(c), "write", x \o y, rest, Len(got[c]), Stand(c))
  <2> DEFINE r == Pending(c)
             i == Len(got[c])
             j == Stand(c)
             log == Log(c)
  <2>1. /\ Pushing(log, "write", x, r, i, j) /\ r = y \o rest
        /\ x \in Seq(Nat) /\ log \in Seq(Entry) /\ i \in Nat /\ j \in Nat
    BY <1>2, <1>3
  <2> HIDE DEF r, i, j, log, x
  <2>2. Pushing(log, "write", x \o y, rest, i, j)
    BY <2>1, <1>3, PushingWrites
  <2>3. QED
    BY <2>2 DEF i, j, log
<1>7. /\ x \o y \in Seq(Nat)
      /\ Behind(c)' = x \o y
      /\ pc[c] = "waiting" => down'[c] = SubscribeOk \o (x \o y)
  BY <1>1, <1>2, <1>3, WrittenBehind
<1>8. phase'[c] = "push"
      /\ Pushing(Log(c), step'[c], x \o y, Pending(c)', Len(got[c]), Stand(c)')
  BY <1>1, <1>4, <1>5, <1>6
<1>9. QED
  BY <1>1, <1>2, <1>5, <1>7, <1>8, GrantedAgain

\* WriteFails: a part of the batch goes out, and the connection is lost.
LEMMA WriteFailsStep ==
    ASSUME Wire, NEW c \in Conns, WriteFails(c), pc[c] \notin {"forging", "gone"}
    PROVE  Granted(c)'
<1> USE DEF pushVars, streamVars, poolVars, readerVars, requestVars, brokerVars, clientVars,
            wireVars, serverVars
<1> DEFINE x == Behind(c)
           y == Bytes(Head(bufs[c]))
           rest == FlattenSeq(BytesList(head, Tail(bufs[c])))
<1>1. /\ phase[c] = "push" /\ step[c] = "write" /\ phase'[c] = "ended" /\ bufs[c] # <<>>
      /\ topics' = topics
      /\ pc' = pc /\ up' = up /\ call' = call /\ verdict' = verdict
      /\ subject' = subject /\ got' = got /\ last' = last
  BY Domains DEF WriteFails, End
<1>2. PICK n \in Cuts : /\ n < Len(y) \/ n = 0
                       /\ down'[c] = down[c] \o SubSeq(y, 1, n)
  BY Domains DEF WriteFails
<1>3. /\ Granted(c)
      /\ Pushing(Log(c), "write", x, Pending(c), Len(got[c]), Stand(c))
      /\ x \in Seq(Nat) /\ Log(c) \in Seq(Entry) /\ Len(got[c]) \in Nat /\ Stand(c) \in Nat
  BY <1>1, StreamData
<1>4. y \in Seq(Nat) /\ rest \in Seq(Nat) /\ Pending(c) = y \o rest
  BY <1>1, NextBuffer
<1> HIDE DEF y, rest
<1>5. n \in Nat /\ n <= Len(y)
  <2>1. n \in Nat /\ Len(y) \in Nat
    BY <1>4, PushAssumption, LenProperties
  <2>2. QED
    BY <2>1, <1>2
<1>6. SubSeq(y, 1, n) \in Seq(Nat) /\ Ended(Log(c), x \o SubSeq(y, 1, n), Len(got[c]))
  <2> DEFINE r == Pending(c)
             i == Len(got[c])
             j == Stand(c)
             log == Log(c)
  <2>1. /\ Pushing(log, "write", x, r, i, j) /\ r = y \o rest
        /\ x \in Seq(Nat) /\ log \in Seq(Entry) /\ i \in Nat /\ j \in Nat
    BY <1>3, <1>4
  <2> HIDE DEF r, i, j, log, x
  <2>2. SubSeq(y, 1, n) \in Seq(Nat) /\ Ended(log, x \o SubSeq(y, 1, n), i)
    BY <2>1, <1>4, <1>5, PushingTears
  <2>3. QED
    BY <2>2 DEF i, log
<1> DEFINE z == SubSeq(y, 1, n)
<1>7. z \in Seq(Nat) /\ down'[c] = down[c] \o z /\ Ended(Log(c), x \o z, Len(got[c]))
  BY <1>2, <1>6
<1> HIDE DEF z
<1>8. /\ x \o z \in Seq(Nat)
      /\ Behind(c)' = x \o z
      /\ pc[c] = "waiting" => down'[c] = SubscribeOk \o (x \o z)
  BY <1>1, <1>3, <1>7, WrittenBehind
<1>9. QED
  BY <1>1, <1>3, <1>7, <1>8, GrantedAgain

-----------------------------------------------------------------------------
\* A call and its answer

\* What holds of a connection after a step.
Fine(c) == Exchange(c)' /\ Reader(c)' /\ History(c)'

\* What holds of it before the step.
LEMMA Connection ==
    ASSUME Wire, NEW c \in Conns
    PROVE  /\ Exchange(c) /\ Reader(c) /\ History(c)
           /\ call[c] \in Here.calls \union {NoCall} /\ got[c] \in Seq(Piece)
           /\ Len(got[c]) \in Nat
           /\ pc[c] \in {"idle", "waiting", "streaming", "forging", "gone"}
<1>1. Exchange(c) /\ Reader(c) /\ History(c)
  BY DEF Wire, ExchangeInv
<1>2. call[c] \in Here.calls \union {NoCall} /\ got[c] \in Seq(Piece)
  BY DEF Wire, ConnsInv
<1>3. pc[c] \in {"idle", "waiting", "streaming", "forging", "gone"}
  BY DEF Wire, DataInv
<1>4. QED
  BY <1>1, <1>2, <1>3, LenProperties

\* A reader that has not begun still has nothing.
LEMMA ReaderRests ==
    ASSUME NEW c \in Conns, Reader(c), pc[c] # "streaming", pc'[c] # "streaming",
           got'[c] = got[c], last'[c] = last[c]
    PROVE  Reader(c)'
<1>1. got[c] = <<>> /\ last[c] = "none"
  BY DEF Reader
<1>2. QED
  BY <1>1 DEF Reader

\* The steps of a stream.
LEMMA StreamFine ==
    ASSUME Wire, LogStep, NEW c \in Conns, StreamStep(c) \/ WriteFails(c)
    PROVE  Fine(c)
<1> USE DEF pushVars, streamVars, poolVars, readerVars, requestVars, brokerVars, clientVars,
            wireVars, serverVars
<1>1. /\ pc' = pc /\ call' = call /\ asked' = asked /\ verdict' = verdict /\ result' = result
      /\ subject' = subject /\ got' = got /\ last' = last
  <2>1. CASE ReadBatch(c) \/ StreamEnds(c) \/ RefuseBatch(c)
    BY <2>1 DEF ReadBatch, StreamEnds, RefuseBatch
  <2>2. CASE WriteBuffer(c) \/ BatchWritten(c) \/ WriteFails(c)
    BY <2>2 DEF WriteBuffer, BatchWritten, WriteFails
  <2>3. CASE \E h \in Headers : FillHeader(c, h)
    BY <2>3 DEF FillHeader
  <2>4. QED
    BY <2>1, <2>2, <2>3 DEF StreamStep
<1>2. Exchange(c)'
  <2>1. CASE pc[c] \in {"forging", "gone"}
    BY <2>1, <1>1 DEF Exchange
  <2>2. CASE pc[c] \notin {"forging", "gone"}
    <3>1. Granted(c)'
      <4>1. CASE ReadBatch(c) \/ StreamEnds(c) \/ RefuseBatch(c)
        BY <4>1, <2>2, ReadBatchStep, StreamEndsStep, RefuseBatchStep
      <4>2. CASE WriteBuffer(c) \/ BatchWritten(c) \/ WriteFails(c)
        BY <4>2, <2>2, WriteBufferStep, BatchWrittenStep, WriteFailsStep
      <4>3. CASE \E h \in Headers : FillHeader(c, h)
        BY <4>3, <2>2, FillHeaderStep
      <4>4. QED
        BY <4>1, <4>2, <4>3 DEF StreamStep
    <3>2. QED
      BY <3>1 DEF Exchange
  <2>3. QED
    BY <2>1, <2>2
<1>3. Reader(c)' /\ History(c)'
  BY <1>1, Connection, ReaderStays, HistoryStays DEF Wire
<1>4. QED
  BY <1>2, <1>3 DEF Fine

\* A new call.
LEMMA CallFine ==
    ASSUME Wire, NEW c \in Conns, NEW k \in Here.calls, Call(c, k), UNCHANGED pushVars
    PROVE  Fine(c)
<1> USE DEF pushVars, streamVars, poolVars, readerVars, requestVars, brokerVars, clientVars,
            wireVars, serverVars
<1>1. /\ pc[c] = "idle" /\ phase[c] = "request" /\ up[c] = <<>> /\ down[c] = <<>>
      /\ call'[c] = k /\ asked'[c] = NoCall /\ verdict'[c] = NoAnswer
      /\ scenario' = scenario /\ phase' = phase /\ down' = down /\ got' = got /\ last' = last
  BY Domains DEF Call
<1>2. k \in Here.calls /\ Here' = Here
  BY <1>1 DEF Here
<1>3. \/ /\ Refusal(k) # "none" /\ result'[c] = Answer(Refusal(k)) /\ up' = up /\ pc' = pc
      \/ /\ Refusal(k) = "none" /\ up'[c] = EncodeFrame(k.op, Body(k))
         /\ \/ k.op = OpPublishNoAck /\ result'[c] = Answer("none") /\ pc' = pc
            \/ k.op # OpPublishNoAck /\ result'[c] = NoAnswer /\ pc'[c] = "waiting"
  BY Domains DEF Call
<1>4. pc'[c] \in {"idle", "waiting"}
  BY <1>1, <1>3
<1>5. Exchange(c)'
  <2>1. CASE Refusal(k) # "none"
    <3>1. Resting(c)'
      BY <2>1, <1>1, <1>3 DEF Resting
    <3>2. QED
      BY <3>1 DEF Exchange
  <2>2. CASE Refusal(k) = "none"
    <3>1. Sent(c)'
      BY <2>2, <1>1, <1>2, <1>3 DEF Sent
    <3>2. QED
      BY <3>1 DEF Exchange
  <2>3. QED
    BY <2>1, <2>2
<1>6. Reader(c)'
  BY <1>1, <1>4, Connection, ReaderRests
<1>7. History(c)'
  <2>1. /\ NoAnswer = [err |-> NoAnswer.err, offset |-> NoAnswer.offset, names |-> NoAnswer.names]
        /\ NoAnswer.err # "none" /\ \A e : Answer(e).err = e
    BY DEF NoAnswer, Answer
  <2>2. pc'[c] = "waiting" => result'[c] = NoAnswer
    BY <1>1, <1>3
  <2>3. k.op # OpPublishNoAck => result'[c].err # "none"
    BY <1>3, <2>1
  <2>4. QED
    BY <1>1, <2>1, <2>2, <2>3 DEF History
<1>8. QED
  BY <1>5, <1>6, <1>7 DEF Fine

\* A known error is reported as it is.
LEMMA ReportedAsItIs ==
    ASSUME NEW v, v = [err |-> v.err, offset |-> v.offset, names |-> v.names], v.err \in Sentinels
    PROVE  Reported(v) = v
BY DEF Reported

\* What a call that was answered makes of its history.
LEMMA HistoryReturns ==
    ASSUME NEW c \in Conns, History(c), pc[c] = "waiting", pc'[c] # "waiting",
           topics' = topics, call'[c] = call[c], asked'[c] = asked[c], verdict'[c] = verdict[c],
           verdict[c].err \in Sentinels, result'[c] = verdict[c]
    PROVE  History(c)'
<1> DEFINE k == call[c]
           v == verdict[c]
<1>1. /\ asked[c] # NoCall => asked[c] = [k EXCEPT !.lib = TRUE]
      /\ v = [err |-> v.err, offset |-> v.offset, names |-> v.names]
      /\ v.err = "none" /\ k.op \notin {OpPublishNoAck, OpListTopics} => k.topic \in DOMAIN topics
      /\ v.err = "none" /\ k.op \in {OpPublish, OpPublishBatch} =>
            /\ v.offset \in Nat /\ v.offset + Len(k.payloads) <= Len(topics[k.topic])
            /\ SubSeq(topics[k.topic], v.offset + 1, v.offset + Len(k.payloads))
                  = Messages(k.payloads, TRUE)
  BY DEF History
<1>2. k' = k /\ v' = v
  OBVIOUS
<1>3. Reported(v) = v
  BY <1>1, ReportedAsItIs
<1>4. v # NoAnswer
  BY DEF NoAnswer, Sentinels
<1> HIDE DEF k, v
<1>5. /\ asked'[c] # NoCall => asked'[c] = [k EXCEPT !.lib = TRUE]
      /\ v.err = "none" /\ k.op \notin {OpPublishNoAck, OpListTopics} => k.topic \in DOMAIN topics'
      /\ v.err = "none" /\ k.op \in {OpPublish, OpPublishBatch} =>
            /\ v.offset \in Nat /\ v.offset + Len(k.payloads) <= Len(topics'[k.topic])
            /\ SubSeq(topics'[k.topic], v.offset + 1, v.offset + Len(k.payloads))
                  = Messages(k.payloads, TRUE)
  BY <1>1
<1>6. /\ pc'[c] = "waiting" => result'[c] = NoAnswer
      /\ pc'[c] # "waiting" /\ v # NoAnswer /\ k.op # OpPublishNoAck => result'[c] = Reported(v)
      /\ v = NoAnswer /\ k.op # OpPublishNoAck => result'[c].err # "none"
  BY <1>3, <1>4 DEF v
<1>7. QED
  BY <1>1, <1>2, <1>5, <1>6, Zenon DEF History, k, v

\* What the reading of an answer leaves behind.
LEMMA ReturnOf ==
    ASSUME Wire, NEW c \in Conns, Return(c), UNCHANGED pushVars
    PROVE  LET frame == ReadFrame(down[c])
           IN  /\ pc[c] = "waiting" /\ (frame.err = "truncated" => phase[c] = "ended")
               /\ result'[c] = Meaning(call[c], frame)
               /\ pc'[c] = IF call[c].op = OpSubscribe /\ result'[c].err = "none"
                           THEN "streaming" ELSE "idle"
               /\ down'[c] = IF frame.err = "none" THEN AfterFrame(down[c]) ELSE <<>>
               /\ topics' = topics /\ call' = call /\ up' = up /\ phase' = phase
               /\ subject' = subject /\ asked' = asked /\ verdict' = verdict /\ got' = got
               /\ last' = last /\ step' = step /\ cursor' = cursor /\ todo' = todo
               /\ bufs' = bufs /\ head' = head
<1> USE DEF pushVars, streamVars, poolVars, readerVars, requestVars, brokerVars, clientVars,
            wireVars, serverVars
<1>1. QED
  BY Domains DEF Return

\* An answer comes back.
LEMMA AnsweredReturns ==
    ASSUME Wire, NEW c \in Conns, Return(c), UNCHANGED pushVars, Answered(c)
    PROVE  Fine(c)
<1> DEFINE k == call[c]
           v == verdict[c]
           f == Response(k.op, v.err, IF v.err = "none" THEN ResponseBody(k, v) ELSE <<>>)
<1>1. /\ pc[c] = "waiting" /\ phase[c] = "request" /\ up[c] = <<>>
      /\ k \in Here.calls
      /\ k.op \in {OpCreateTopic, OpSubscribe, OpPublish, OpPublishBatch, OpListTopics}
      /\ k.op = OpPublishBatch => Len(k.payloads) <= MaxPayload
      /\ WellAnswered(k, v)
      /\ k.op = OpSubscribe => v.err # "none"
      /\ down[c] = f
  BY DEF Answered
<1>2. Len(k.payloads) \in Nat
  BY <1>1, CallData DEF Wire
<1>3. v.err \in Sentinels
  BY <1>1 DEF WellAnswered, Answer, NoAnswer, Sentinels
<1> HIDE DEF k, v
<1>4. Meaning(k, ReadFrame(f)) = v /\ ReadFrame(f).err = "none" /\ AfterFrame(f) = <<>>
  BY <1>1, <1>2, AnswerIsRead
<1> HIDE DEF f
<1>5. /\ result'[c] = v /\ down'[c] = <<>> /\ topics' = topics /\ call' = call /\ up' = up
      /\ phase' = phase /\ asked' = asked /\ verdict' = verdict /\ got' = got /\ last' = last
      /\ pc'[c] = IF k.op = OpSubscribe /\ v.err = "none" THEN "streaming" ELSE "idle"
  <2>1. Meaning(call[c], ReadFrame(down[c])) = v /\ ReadFrame(down[c]).err = "none"
        /\ AfterFrame(down[c]) = <<>>
    BY <1>1, <1>4, Zenon DEF k
  <2>2. QED
    BY <2>1, ReturnOf DEF k
<1>6. pc'[c] = "idle"
  BY <1>1, <1>5
<1>7. Resting(c)'
  BY <1>1, <1>5, <1>6 DEF Resting
<1>8. Reader(c)'
  BY <1>1, <1>5, <1>6, Connection, ReaderRests
<1>9. History(c)'
  BY <1>1, <1>3, <1>5, <1>6, Connection, HistoryReturns DEF k, v
<1>10. QED
  BY <1>7, <1>8, <1>9 DEF Fine, Exchange

\* The last word comes instead of an answer.
LEMMA RejectedReturns ==
    ASSUME Wire, NEW c \in Conns, Return(c), UNCHANGED pushVars, Rejected(c)
    PROVE  Fine(c)
<1>1. /\ phase[c] = "ended" /\ up[c] = <<>> /\ verdict[c] = Answer("toolarge")
      /\ down[c] = LastWord
  BY ReturnOf DEF Rejected
<1>2. PICK p \in Seq(Nat) : ErrorIn(p) = "toolarge" /\ Alone(LastWord, OpError, p)
  BY LastWordIsRead
<1>3. ReadFrame(down[c]) = [err |-> "none", op |-> OpError, payload |-> p]
  BY <1>1, <1>2 DEF Alone
<1>4. Meaning(call[c], ReadFrame(down[c])) = Answer("toolarge")
  BY <1>2, <1>3 DEF Meaning
<1>5. Answer("toolarge").err = "toolarge"
  BY DEF Answer, NoAnswer
<1>6. /\ result'[c] = verdict[c] /\ topics' = topics /\ call' = call /\ up' = up /\ pc[c] = "waiting"
      /\ phase' = phase /\ asked' = asked /\ verdict' = verdict /\ got' = got /\ last' = last
      /\ pc'[c] = "idle"
  BY <1>1, <1>4, <1>5, ReturnOf
<1>7. Rejected(c)'
  BY <1>1, <1>6 DEF Rejected
<1>8. Reader(c)'
  BY <1>6, Connection, ReaderRests
<1>9. History(c)'
  BY <1>1, <1>5, <1>6, Connection, HistoryReturns DEF Sentinels
<1>10. QED
  BY <1>7, <1>8, <1>9 DEF Fine, Exchange

\* A subscription begins: its answer is the first of what is on the wire.
LEMMA GrantedReturns ==
    ASSUME Wire, NEW c \in Conns, Return(c), UNCHANGED pushVars, Granted(c)
    PROVE  Fine(c)
<1> DEFINE b == Behind(c)
<1>1. /\ pc[c] = "waiting" /\ call[c].op = OpSubscribe /\ verdict[c] = Answer("none")
      /\ b \in Seq(Nat) /\ down[c] = SubscribeOk \o b /\ subject[c] \in DOMAIN topics
  BY ReturnOf DEF Granted
<1>2. ReadFrame(down[c]) = [err |-> "none", op |-> OpSubscribe, payload |-> <<>>]
      /\ AfterFrame(down[c]) = b
  <2>1. OpSubscribe \in Nat /\ <<>> \in Seq(Nat) /\ Fits(<<>>)
    BY CodecAssumption DEF OpSubscribe, Fits
  <2> HIDE DEF b
  <2>2. /\ ReadFrame(EncodeFrame(OpSubscribe, <<>>) \o b)
              = [err |-> "none", op |-> OpSubscribe, payload |-> <<>>]
        /\ AfterFrame(EncodeFrame(OpSubscribe, <<>>) \o b) = b
    BY <1>1, <2>1, FrameRoundTrip
  <2>3. QED
    BY <1>1, <2>2, Zenon DEF SubscribeOk
<1>3. Meaning(call[c], ReadFrame(down[c])) = Answer("none") /\ Answer("none").err = "none"
  <2>1. ASSUME NEW k, k.op = OpSubscribe
        PROVE  Meaning(k, [err |-> "none", op |-> OpSubscribe, payload |-> <<>>]) = Answer("none")
    BY <2>1 DEF Meaning, OpSubscribe, OpError, OpCreateTopic, OpPublish, OpPublishBatch,
       OpListTopics
  <2>2. Answer("none").err = "none"
    BY DEF Answer, NoAnswer
  <2>3. QED
    BY <1>1, <1>2, <2>1, <2>2
<1>4. /\ result'[c] = verdict[c] /\ topics' = topics /\ call' = call /\ up' = up
      /\ phase' = phase /\ asked' = asked /\ verdict' = verdict /\ got' = got /\ last' = last
      /\ subject' = subject /\ step' = step /\ cursor' = cursor /\ todo' = todo
      /\ bufs' = bufs /\ head' = head
      /\ pc'[c] = "streaming" /\ down'[c] = b
  <2>1. ReadFrame(down[c]).err = "none"
    BY <1>2
  <2> HIDE DEF b
  <2>2. result'[c] = verdict[c] /\ result'[c].err = "none" /\ down'[c] = b
    BY <1>1, <1>2, <1>3, <2>1, ReturnOf
  <2>3. QED
    BY <1>1, <2>2, ReturnOf
<1> HIDE DEF b
<1>5. Behind(c)' = b
  BY <1>4 DEF Behind
<1>6. Pending(c)' = Pending(c) /\ Stand(c)' = Stand(c) /\ Log(c)' = Log(c) /\ (Batch(c) => Batch(c)')
  BY <1>4, PendingIs DEF Stand, Log, Batch
<1>7. Granted(c)'
  <2>1. /\ phase'[c] \in {"push", "ended"} /\ up'[c] = <<>>
        /\ call'[c].op = OpSubscribe /\ verdict'[c] = Answer("none")
        /\ subject'[c] = call'[c].topic /\ subject'[c] \in DOMAIN topics'
    BY <1>4 DEF Granted
  <2>2. phase'[c] = "push" =>
          /\ Batch(c)'
          /\ Pushing(Log(c)', step'[c], b, Pending(c)', Len(got'[c]), Stand(c)')
    BY <1>4, <1>6 DEF Granted, b
  <2>3. /\ last'[c] = "none" /\ phase'[c] = "ended" => Ended(Log(c)', b, Len(got'[c]))
        /\ last'[c] # "none" => phase'[c] = "ended"
    BY <1>4, <1>6 DEF Granted, b
  <2>4. QED
    BY <2>1, <2>2, <2>3, <1>1, <1>4, <1>5 DEF Granted
<1>8. Reader(c)'
  <2>1. got[c] = <<>> /\ last[c] = "none"
    BY <1>1, Connection DEF Reader
  <2>2. Len(Log(c)') \in Nat
    BY <1>1, <1>6, LenProperties DEF Log, Wire, DataInv
  <2>3. QED
    BY <2>1, <2>2, <1>4 DEF Reader
<1>9. History(c)'
  BY <1>1, <1>3, <1>4, Connection, HistoryReturns DEF Sentinels
<1>10. QED
  BY <1>7, <1>8, <1>9 DEF Fine, Exchange

\* Return: there is always an answer that can be read.
LEMMA ReturnFine ==
    ASSUME Wire, NEW c \in Conns, Return(c), UNCHANGED pushVars
    PROVE  Fine(c)
<1>1. pc[c] = "waiting" /\ (ReadFrame(down[c]).err = "truncated" => phase[c] = "ended")
  BY ReturnOf
<1>2. ASSUME Sent(c) \/ Ignored(c) PROVE FALSE
  <2>1. down[c] = <<>> /\ phase[c] = "request"
    BY <1>2 DEF Sent, Ignored
  <2>2. ReadFrame(down[c]).err = "truncated"
    BY <2>1, EmptyStream
  <2>3. QED
    BY <2>1, <2>2, <1>1
<1>3. Answered(c) \/ Rejected(c) \/ Granted(c)
  <2>1. Exchange(c)
    BY Connection
  <2>2. ~Resting(c)
    BY <1>1 DEF Resting
  <2>3. QED
    BY <1>1, <1>2, <2>1, <2>2 DEF Exchange
<1>4. QED
  BY <1>3, AnsweredReturns, RejectedReturns, GrantedReturns

-----------------------------------------------------------------------------
\* The handler

\* A peer that is no client: nothing is said of its exchange any more.
LEMMA ForeignFine ==
    ASSUME Wire, NEW c \in Conns, UNCHANGED pushVars,
           \/ \E header \in Here.forged : Forge(c, header)
           \/ \E b \in Noise : Scribble(c, b)
           \/ Leave(c)
    PROVE  Fine(c)
<1> USE DEF pushVars, streamVars, poolVars, readerVars, requestVars, brokerVars, clientVars,
            wireVars, serverVars
<1>1. pc[c] # "streaming" /\ pc'[c] \in {"forging", "gone"} /\ got' = got /\ last' = last
  BY Domains DEF Forge, Scribble, Leave
<1>2. Reader(c)'
  BY <1>1, Connection, ReaderRests
<1>3. Exchange(c)' /\ History(c)'
  BY <1>1 DEF Exchange, History
<1>4. QED
  BY <1>2, <1>3 DEF Fine

\* What the handler leaves alone.
LEMMA HandlerOf ==
    ASSUME Wire, NEW c \in Conns, HandlerStep(c)
    PROVE  /\ phase[c] = "request"
           /\ ReadFrame(up[c]).err = "truncated" => pc[c] = "gone"
           /\ pc' = pc /\ call' = call /\ result' = result /\ scenario' = scenario
           /\ got' = got /\ last' = last /\ head' = head /\ bufs' = bufs /\ todo' = todo
           /\ cursor' = cursor /\ step' = step /\ open' = open
<1> USE DEF pushVars, streamVars, poolVars, readerVars, requestVars, brokerVars, clientVars,
            wireVars, serverVars
<1>1. CASE Serve(c)
  BY <1>1 DEF HandlerStep, Serve
<1>2. CASE Reject(c)
  BY <1>2 DEF HandlerStep, Reject
<1>3. CASE Ignore(c)
  BY <1>3 DEF HandlerStep, Ignore
<1>4. QED
  BY <1>1, <1>2, <1>3 DEF HandlerStep

\* The handler has something to read only when a call's frame is under way.
LEMMA HandlerReadsCalls ==
    ASSUME Wire, NEW c \in Conns, HandlerStep(c), pc[c] \notin {"forging", "gone"}
    PROVE  Sent(c)
<1>1. phase[c] = "request" /\ ReadFrame(up[c]).err # "truncated"
  BY HandlerOf
<1>2. up[c] # <<>>
  BY <1>1, EmptyStream
<1>3. QED
  BY <1>1, <1>2, Connection DEF Exchange, Resting, Answered, Ignored, Rejected, Granted

\* What a call's frame is.
LEMMA SentData ==
    ASSUME Wire, NEW c \in Conns, Sent(c)
    PROVE  LET k == call[c]
           IN  /\ k \in Here.calls /\ k.op \in Nat /\ k.topic \in Seq(Nat)
               /\ k.payloads \in Seq(Seq(Nat)) /\ Body(k) \in Seq(Nat)
               /\ Fits(Body(k)) => Alone(up[c], k.op, Body(k))
               /\ ~Fits(Body(k)) => ReadFrame(up[c]).err = "toolarge"
<1> DEFINE k == call[c]
<1>1. k \in Here.calls /\ up[c] = EncodeFrame(k.op, Body(k)) /\ scenario \in DOMAIN Scenarios
  BY DEF Sent, Wire, DataInv
<1>2. /\ k.op \in Nat /\ k.topic \in Seq(Nat) /\ k.payloads \in Seq(Seq(Nat))
      /\ Body(k) \in Seq(Nat)
  BY <1>1, ScenarioData
<1>3. Len(Body(k)) < Power[Len32]
  BY <1>1, FramesAssumption DEF Here
<1> HIDE DEF k
<1>4. Fits(Body(k)) => Alone(EncodeFrame(k.op, Body(k)), k.op, Body(k))
  BY <1>2, OneFrame
<1>5. ~Fits(Body(k)) => ReadFrame(EncodeFrame(k.op, Body(k))).err = "toolarge"
  BY <1>2, <1>3, LongFrameIsRead
<1>6. QED
  BY <1>1, <1>2, <1>4, <1>5 DEF k

\* Reject: a call of this client or of another is cut off for its length only.
LEMMA RejectFine ==
    ASSUME Wire, LogStep, NEW c \in Conns, Reject(c), UNCHANGED pushVars,
           pc[c] \notin {"forging", "gone"}
    PROVE  Fine(c)
<1> USE DEF pushVars, streamVars, poolVars, readerVars, requestVars, brokerVars, clientVars,
            wireVars, serverVars
<1> DEFINE k == call[c]
<1>1. HandlerStep(c)
  BY DEF HandlerStep
<1>2. Sent(c)
  BY <1>1, HandlerReadsCalls
<1>3. ReadFrame(up[c]).err = "toolarge"
  <2>1. ReadFrame(up[c]).err # "none"
    BY DEF Reject
  <2>2. /\ Fits(Body(k)) => Alone(up[c], k.op, Body(k))
        /\ ~Fits(Body(k)) => ReadFrame(up[c]).err = "toolarge"
    BY <1>2, SentData
  <2> HIDE DEF k
  <2>3. QED
    BY <2>1, <2>2 DEF Alone
<1>4. down'[c] = LastWord
  <2>1. down'[c] = down[c] \o Response(0, "toolarge", <<>>)
    BY <1>3, Domains DEF Reject
  <2>2. down[c] = <<>>
    BY <1>2 DEF Sent
  <2>3. LastWord \in Seq(Nat) /\ Response(0, "toolarge", <<>>) = LastWord
    BY LastWordIsRead, Zenon
  <2>4. <<>> \o LastWord = LastWord
    BY <2>3, ConcatEmptySeq
  <2>5. QED
    BY <2>1, <2>2, <2>3, <2>4, Zenon
<1>5. /\ phase'[c] = "ended" /\ up'[c] = <<>> /\ verdict'[c] = Answer("toolarge")
      /\ topics' = topics /\ asked' = asked
  BY <1>3, Domains DEF Reject
<1>6. pc' = pc /\ call' = call /\ result' = result /\ got' = got /\ last' = last
  BY <1>1, HandlerOf
<1>7. pc[c] = IF k.op = OpPublishNoAck THEN "idle" ELSE "waiting"
  BY <1>2 DEF Sent
<1>8. Exchange(c)'
  BY <1>4, <1>5, <1>6, <1>7 DEF Exchange, Rejected
<1>9. Reader(c)'
  BY <1>6, <1>7, Connection, ReaderRests
<1>10. History(c)'
  <2>1. asked[c] = NoCall /\ (pc[c] = "waiting" => result[c] = NoAnswer)
    BY <1>2, <1>7, Connection DEF History, Sent
  <2> DEFINE v == Answer("toolarge")
  <2>2. v = [err |-> v.err, offset |-> v.offset, names |-> v.names] /\ v.err = "toolarge"
        /\ NoAnswer.err # "toolarge"
    BY DEF Answer, NoAnswer
  <2> HIDE DEF v
  <2>3. verdict'[c] = v /\ v # NoAnswer
    BY <1>5, <2>2 DEF v
  <2>4. QED
    BY <1>5, <1>6, <1>7, <2>1, <2>2, <2>3 DEF History
<1>11. QED
  BY <1>8, <1>9, <1>10 DEF Fine

\* Ignore: the call is never answered.
LEMMA IgnoreFine ==
    ASSUME Wire, LogStep, NEW c \in Conns, Ignore(c), UNCHANGED pushVars,
           pc[c] \notin {"forging", "gone"}
    PROVE  Fine(c)
<1> USE DEF pushVars, streamVars, poolVars, readerVars, requestVars, brokerVars, clientVars,
            wireVars, serverVars
<1> DEFINE k == call[c]
<1>1. HandlerStep(c)
  BY DEF HandlerStep
<1>2. Sent(c)
  BY <1>1, HandlerReadsCalls
<1>3. ReadFrame(up[c]) = [err |-> "none", op |-> k.op, payload |-> Body(k)] /\ AfterFrame(up[c]) = <<>>
  <2>1. ReadFrame(up[c]).err = "none"
    BY DEF Ignore
  <2>2. QED
    BY <2>1, <1>2, SentData DEF Alone
<1>4. /\ k.op # OpPublishNoAck /\ up'[c] = <<>> /\ down' = down /\ phase' = phase
      /\ asked' = asked /\ verdict' = verdict
  BY <1>3, Domains DEF Ignore
<1>5. pc' = pc /\ call' = call /\ result' = result /\ got' = got /\ last' = last
  BY <1>1, HandlerOf
<1>6. pc[c] = "waiting" /\ phase[c] = "request" /\ down[c] = <<>>
  BY <1>2, <1>4 DEF Sent
<1>7. Exchange(c)'
  BY <1>4, <1>5, <1>6 DEF Exchange, Ignored
<1>8. Reader(c)'
  BY <1>5, <1>6, Connection, ReaderRests
<1>9. History(c)'
  BY <1>4, <1>5, Connection, HistoryStays DEF Wire
<1>10. QED
  BY <1>7, <1>8, <1>9 DEF Fine

\* What is put behind a sequence is found there.
LEMMA PartBehind ==
    ASSUME NEW S, NEW s \in Seq(S), NEW t \in Seq(S)
    PROVE  /\ Len(s) + Len(t) <= Len(s \o t)
           /\ SubSeq(s \o t, Len(s) + 1, Len(s) + Len(t)) = t
<1> DEFINE p == s \o t
           n == Len(s)
           m == Len(t)
<1>1. /\ p \in Seq(S) /\ Len(p) = n + m /\ n \in Nat /\ m \in Nat
      /\ \A i \in 1 .. m : p[n + i] = t[i]
  BY ConcatBytes
<1> HIDE DEF p, n, m
<1> DEFINE q == SubSeq(p, n + 1, n + m)
<1>2. n + m \in Nat /\ n <= n + m /\ n + m <= Len(p) /\ n + m - n = m
  BY <1>1
<1>3. q \in Seq(S) /\ Len(q) = n + m - n /\ \A k \in 1 .. n + m - n : q[k] = p[n + k]
  BY <1>1, <1>2, PartOfSeq
<1> HIDE DEF q
<1>4. Len(q) = Len(t) /\ \A k \in 1 .. Len(q) : q[k] = t[k]
  BY <1>1, <1>2, <1>3 DEF m
<1>5. q = t
  BY <1>3, <1>4, SeqEqual
<1>6. QED
  BY <1>1, <1>5 DEF q, p, n, m

\* The opcodes of requests.
Requests6 == {OpCreateTopic, OpPublish, OpSubscribe, OpPublishBatch, OpPublishNoAck, OpListTopics}

\* What is said of a call in the scenarios.
LEMMA CallShape ==
    ASSUME scenario \in DOMAIN Scenarios, NEW k \in Here.calls
    PROVE  /\ [k EXCEPT !.lib = TRUE]
                 = [lib |-> TRUE, op |-> k.op, topic |-> k.topic, payloads |-> k.payloads]
           /\ k.op \in {OpPublish, OpPublishNoAck} => k.payloads = <<k.payloads[1]>>
           /\ k.op \notin {OpPublish, OpPublishNoAck, OpPublishBatch} => k.payloads = <<>>
           /\ k.op = OpListTopics => k.topic = <<>>
<1>1. Here \in ScenarioType
  BY RequestsAssumption DEF Here
<1>2. k \in CallType
  BY <1>1 DEF ScenarioType
<1>3. [k EXCEPT !.lib = TRUE]
          = [lib |-> TRUE, op |-> k.op, topic |-> k.topic, payloads |-> k.payloads]
  <2> DEFINE A == Name
             B == Seq(Payload)
  <2>1. k \in [lib : BOOLEAN, op : Nat, topic : A, payloads : B]
    BY <1>2 DEF CallType
  <2> HIDE DEF A, B
  <2>2. k = [lib |-> k.lib, op |-> k.op, topic |-> k.topic, payloads |-> k.payloads]
    BY <2>1
  <2> DEFINE a == k.lib
             b == k.op
             d == k.topic
             e == k.payloads
             r == [lib |-> a, op |-> b, topic |-> d, payloads |-> e]
  <2>3. k = r
    BY <2>2
  <2> HIDE DEF a, b, d, e
  <2>4. \A f : [r EXCEPT !.lib = f] = [lib |-> f, op |-> b, topic |-> d, payloads |-> e]
    OBVIOUS
  <2>5. [r EXCEPT !.lib = TRUE] = [lib |-> TRUE, op |-> b, topic |-> d, payloads |-> e]
    BY <2>4, Zenon
  <2> HIDE DEF r
  <2>6. [k EXCEPT !.lib = TRUE] = [lib |-> TRUE, op |-> b, topic |-> d, payloads |-> e]
    BY <2>3, <2>5, Zenon
  <2>7. QED
    BY <2>6, Zenon DEF b, d, e
<1>4. /\ k.op \in {OpPublish, OpPublishNoAck} => Len(k.payloads) = 1
      /\ k.op \notin {OpPublish, OpPublishNoAck, OpPublishBatch} => k.payloads = <<>>
      /\ k.op = OpListTopics => k.topic = <<>>
  BY RequestsAssumption DEF Here
<1>5. k.payloads \in Seq(Seq(Nat))
  BY ScenarioData
<1>6. \A p \in Seq(Seq(Nat)) : Len(p) = 1 => p = <<p[1]>>
  <2> DEFINE S == Seq(Nat)
  <2> HIDE DEF S
  <2> SUFFICES \A p \in Seq(S) : Len(p) = 1 => p = <<p[1]>>
    BY DEF S
  <2> TAKE p \in Seq(S)
  <2>1. SUFFICES ASSUME Len(p) = 1 PROVE p = <<p[1]>>
    OBVIOUS
  <2> DEFINE q == <<p[1]>>
  <2>2. p[1] \in S
    BY <2>1, ElementOfSeq
  <2>3. q \in Seq(S) /\ Len(q) = 1 /\ q[1] = p[1]
    BY <2>2
  <2> HIDE DEF q
  <2>4. \A i \in 1 .. Len(p) : p[i] = q[i]
    BY <2>1, <2>3
  <2>5. p = q
    BY <2>1, <2>3, <2>4, SeqEqual
  <2>6. QED
    BY <2>5 DEF q
<1>7. QED
  BY <1>3, <1>4, <1>5, <1>6

\* A batch in a frame has no more payloads than the frame has bytes.
LEMMA BatchFits ==
    ASSUME NEW topic \in Seq(Nat), NEW payloads \in Seq(Seq(Nat)),
           Fits(EncodePublishBatch(topic, payloads))
    PROVE  Len(payloads) <= MaxPayload
<1> DEFINE a == PutString(topic)
           b == Put(Len(payloads), Len32)
           d == FlattenSeq(Put1(payloads))
           n == Len(payloads)
<1>1. n \in Nat /\ Len32 \in Nat \ {0} /\ MaxPayload \in Nat
  BY CodecAssumption, LenProperties
<1>2. a \in Seq(Nat) /\ b \in Seq(Nat) /\ Len(b) = Len32
  BY <1>1, PutStringBytes, PutBytes
<1>3. Put1(payloads) \in Seq(Seq(Nat)) /\ d \in Seq(Nat)
  BY PutStringsBytes, FlattenBytes
<1>4. Len(d) \in Nat /\ n * Len32 <= Len(d)
  BY FlattenLengths
<1>5. EncodePublishBatch(topic, payloads) = a \o (b \o d)
  BY DEF EncodePublishBatch, PutStrings, Put1
<1> HIDE DEF a, b, d, n
<1>6. b \o d \in Seq(Nat) /\ Len(b \o d) = Len(b) + Len(d) /\ Len(b) \in Nat
  BY <1>2, <1>3, ConcatBytes
<1>7. Len(a \o (b \o d)) = Len(a) + Len(b \o d) /\ Len(a) \in Nat
  BY <1>2, <1>6, ConcatBytes
<1>8. Len(a \o (b \o d)) <= MaxPayload
  BY <1>5 DEF Fits
<1>9. Len(d) <= MaxPayload
  BY <1>1, <1>4, <1>6, <1>7, <1>8
<1>10. \A x \in Nat : \A w \in Nat \ {0} : x <= x * w
  BY SMTT(30)
<1>11. n <= n * Len32 /\ n * Len32 \in Nat
  BY <1>1, <1>10
<1>12. n <= MaxPayload
  BY <1>1, <1>4, <1>9, <1>11, SMTT(30)
<1>13. QED
  BY <1>12 DEF n

\* The server understands a call of the client as it was meant.
LEMMA UnderstoodIs ==
    ASSUME scenario \in DOMAIN Scenarios, NEW k \in Here.calls, k.op \in Requests6, Fits(Body(k))
    PROVE  Understood(k.op, Body(k)) = [err |-> "none", request |-> [k EXCEPT !.lib = TRUE]]
<1> DEFINE payload == Body(k)
           publish == DecodePublish(payload)
           batch == DecodePublishBatch(payload)
           Request(err, topic, payloads) ==
               [err |-> err,
                request |-> [lib |-> TRUE, op |-> k.op, topic |-> topic, payloads |-> payloads]]
           u == Understood(k.op, payload)
<1>1. /\ k.op \in {OpCreateTopic, OpSubscribe} => u = Request("none", payload, <<>>)
      /\ k.op \in {OpPublish, OpPublishNoAck} =>
            u = IF publish.err # "none" THEN Request(publish.err, <<>>, <<>>)
                ELSE Request("none", publish.fields[1], <<publish.fields[2]>>)
      /\ k.op = OpPublishBatch =>
            u = IF batch.err # "none" THEN Request(batch.err, <<>>, <<>>)
                ELSE Request("none", batch.fields[1], Tail(batch.fields))
      /\ k.op = OpListTopics => u = Request("none", <<>>, <<>>)
  BY DEF Understood, OpCreateTopic, OpPublish, OpSubscribe, OpPublishBatch,
         OpPublishNoAck, OpListTopics
<1>2. /\ k.op \in {OpPublish, OpPublishNoAck} => payload = EncodePublish(k.topic, k.payloads[1])
      /\ k.op = OpPublishBatch => payload = EncodePublishBatch(k.topic, k.payloads)
      /\ k.op \in {OpCreateTopic, OpSubscribe, OpListTopics} => payload = k.topic
  BY DEF Body, OpCreateTopic, OpPublish, OpSubscribe, OpPublishBatch, OpPublishNoAck, OpListTopics
<1>3. /\ k.op \in {OpPublish, OpPublishNoAck} => k.payloads = <<k.payloads[1]>>
      /\ k.op \in {OpCreateTopic, OpSubscribe, OpListTopics} => k.payloads = <<>>
      /\ k.op = OpListTopics => k.topic = <<>>
  <2>1. /\ k.op \in {OpPublish, OpPublishNoAck} => k.payloads = <<k.payloads[1]>>
        /\ k.op \notin {OpPublish, OpPublishNoAck, OpPublishBatch} => k.payloads = <<>>
        /\ k.op = OpListTopics => k.topic = <<>>
    BY CallShape, Zenon
  <2>2. QED
    BY <2>1 DEF OpCreateTopic, OpPublish, OpSubscribe, OpPublishBatch, OpPublishNoAck, OpListTopics
<1>4. k.topic \in Seq(Nat) /\ k.payloads \in Seq(Seq(Nat))
  BY ScenarioData
<1>5. Request("none", k.topic, k.payloads) = [err |-> "none", request |-> [k EXCEPT !.lib = TRUE]]
  BY CallShape
<1>6. CASE k.op \in {OpPublish, OpPublishNoAck}
  <2> DEFINE x == k.payloads[1]
             p == EncodePublish(k.topic, x)
  <2>1. k.payloads = <<x>>
    BY <1>3, <1>6
  <2>2. x \in Seq(Nat)
    <3>1. Len(k.payloads) = 1
      BY <1>6, RequestsAssumption DEF Here
    <3>2. QED
      BY <3>1, <1>4, ElementOfSeq
  <2>3. Fits(p)
    BY <1>2, <1>6
  <2> HIDE DEF x
  <2>4. DecodePublish(p).err = "none" /\ DecodePublish(p).fields[1] = k.topic
        /\ DecodePublish(p).fields[2] = x
    BY <1>4, <2>2, <2>3, PublishRoundTrip
  <2>5. payload = p
    BY <1>2, <1>6 DEF x
  <2> HIDE DEF Request, u, p, payload
  <2>6. u = Request("none", publish.fields[1], <<publish.fields[2]>>)
    BY <1>1, <1>6, <2>4, <2>5
  <2>7. u = Request("none", k.topic, k.payloads)
    BY <2>1, <2>4, <2>5, <2>6
  <2>8. QED
    BY <2>7, <1>5 DEF u, payload
<1>7. CASE k.op = OpPublishBatch
  <2> DEFINE p == EncodePublishBatch(k.topic, k.payloads)
  <2>1. payload = p /\ Fits(p)
    BY <1>2, <1>7
  <2>2. DecodePublishBatch(p).err = "none" /\ DecodePublishBatch(p).fields[1] = k.topic
        /\ Tail(DecodePublishBatch(p).fields) = k.payloads
    BY <1>4, <2>1, PublishBatchRoundTrip
  <2> HIDE DEF Request, u, p, payload
  <2>3. u = Request("none", k.topic, k.payloads)
    BY <1>1, <1>7, <2>1, <2>2
  <2>4. QED
    BY <2>3, <1>5 DEF u, payload
<1>8. CASE k.op \in {OpCreateTopic, OpSubscribe, OpListTopics}
  <2>1. payload = k.topic /\ k.payloads = <<>> /\ (k.op = OpListTopics => k.topic = <<>>)
    BY <1>2, <1>3, <1>8
  <2> HIDE DEF Request, u, payload
  <2>2. u = Request("none", k.topic, k.payloads)
    BY <1>1, <1>8, <2>1
  <2>3. QED
    BY <2>2, <1>5 DEF u, payload
<1>9. QED
  BY <1>6, <1>7, <1>8 DEF Requests6

\* Why a request may be refused, and what there is when it is not.
LEMMA ReasonIs ==
    ASSUME NEW r, r.op \in Requests6, r.topic \in Seq(Nat)
    PROVE  /\ Reason(r) \in Sentinels
           /\ Reason(r) = "none" /\ r.op \notin {OpCreateTopic, OpListTopics} => r.topic \in DOMAIN topics
           /\ Reason(r) = "none" /\ r.op = OpCreateTopic => r.topic \notin DOMAIN topics
<1> USE DEF OpCreateTopic, OpPublish, OpSubscribe, OpPublishBatch, OpPublishNoAck, OpListTopics
<1>1. ValidateTopicName(r.topic) \in {"empty", "toolong", "invalid", "none"}
  <2>1. CASE r.topic = <<>>
    BY <2>1 DEF ValidateTopicName
  <2>2. CASE r.topic # <<>> /\ Len(r.topic) > MaxTopicNameLen
    BY <2>2 DEF ValidateTopicName
  <2>3. CASE r.topic # <<>> /\ Len(r.topic) <= MaxTopicNameLen
    BY <2>3 DEF ValidateTopicName
  <2>4. Len(r.topic) \in Nat /\ MaxTopicNameLen \in Nat
    BY RequestsAssumption, LenProperties
  <2>5. QED
    BY <2>1, <2>2, <2>3, <2>4
<1>2. CASE ~open
  BY <1>2 DEF Reason, Sentinels
<1>3. CASE open /\ r.op = OpCreateTopic
  <2> DEFINE full == MaxTopics > 0 /\ Cardinality(DOMAIN topics) >= MaxTopics
  <2>1. Reason(r) = IF ValidateTopicName(r.topic) # "none" THEN ValidateTopicName(r.topic)
                    ELSE IF r.topic \in DOMAIN topics THEN "exists"
                    ELSE IF full THEN "toomany" ELSE "none"
    BY <1>3 DEF Reason
  <2> HIDE DEF full
  <2>2. QED
    BY <1>1, <1>3, <2>1 DEF Sentinels
<1>4. CASE open /\ r.op \in {OpPublish, OpPublishBatch, OpPublishNoAck, OpSubscribe}
  <2>1. Reason(r) = IF r.topic \in DOMAIN topics THEN "none" ELSE "notfound"
    BY <1>4 DEF Reason
  <2>2. QED
    BY <1>4, <2>1 DEF Sentinels
<1>5. CASE open /\ r.op = OpListTopics
  <2>1. Reason(r) = "none"
    BY <1>5 DEF Reason
  <2>2. QED
    BY <1>5, <2>1 DEF Sentinels
<1>6. QED
  BY <1>2, <1>3, <1>4, <1>5 DEF Requests6

\* The decision on a request is an answer that the operation has use for.
LEMMA DecisionIs ==
    ASSUME Wire, LogsFit, NEW k \in Here.calls, k.op \in Requests6,
           NEW r, r.op = k.op, r.topic = k.topic, r.payloads = k.payloads
    PROVE  LET v == Decision("none", r)
           IN  /\ v.err \in Sentinels
               /\ v = [err |-> v.err, offset |-> v.offset, names |-> v.names]
               /\ k.op # OpPublishNoAck => WellAnswered(k, v)
               /\ v.err = "none" => Reason(r) = "none" /\ v = Grant(r)
<1> DEFINE v == Decision("none", r)
<1>0. r.topic \in Seq(Nat)
  BY ScenarioData DEF Wire, DataInv
<1>1. \A e : /\ Answer(e).err = e
             /\ Answer(e) = [err |-> e, offset |-> Answer(e).offset, names |-> Answer(e).names]
  BY DEF Answer, NoAnswer
<1>2. ASSUME NEW e \in Sentinels \ {"none"}, v = Answer(e)
      PROVE  /\ v.err \in Sentinels
             /\ v = [err |-> v.err, offset |-> v.offset, names |-> v.names]
             /\ WellAnswered(k, v)
             /\ v.err # "none"
  <2> HIDE DEF v
  <2>1. v.err = e
    BY <1>1, <1>2
  <2>2. v = [err |-> v.err, offset |-> v.offset, names |-> v.names]
    BY <1>1, <1>2, <2>1
  <2>3. QED
    BY <1>2, <2>1, <2>2 DEF WellAnswered
<1>3. CASE ~Pushable(r.payloads)
  <2>1. v = Answer("toolarge") /\ "toolarge" \in Sentinels \ {"none"}
    BY <1>3 DEF Decision, Sentinels
  <2> HIDE DEF v
  <2>2. QED
    BY <1>2, <2>1 DEF v
<1>4. CASE Pushable(r.payloads) /\ Reason(r) # "none"
  <2>1. v = Answer(Reason(r))
    BY <1>4 DEF Decision
  <2>2. Reason(r) \in Sentinels \ {"none"}
    BY <1>0, <1>4, ReasonIs
  <2> HIDE DEF v
  <2>3. QED
    BY <1>2, <2>1, <2>2 DEF v
<1>5. CASE /\ Pushable(r.payloads) /\ Reason(r) = "none"
           /\ r.op = OpListTopics /\ ~Fits(ResponseBody(r, Grant(r)))
  <2>1. v = Answer("toolarge") /\ "toolarge" \in Sentinels \ {"none"}
    BY <1>5 DEF Decision, Sentinels
  <2> HIDE DEF v
  <2>2. QED
    BY <1>2, <2>1 DEF v
<1>6. CASE /\ Pushable(r.payloads) /\ Reason(r) = "none"
           /\ ~(r.op = OpListTopics /\ ~Fits(ResponseBody(r, Grant(r))))
  <2>1. v = Grant(r)
    BY <1>6 DEF Decision
  <2> HIDE DEF v
  <2>2. CASE k.op \in {OpPublish, OpPublishBatch, OpPublishNoAck}
    <3> DEFINE n == IF r.payloads = <<>> THEN 0 ELSE Len(topics[r.topic])
    <3>1. v = [Answer("none") EXCEPT !.offset = n]
      BY <2>1, <2>2 DEF Grant, OpCreateTopic, OpSubscribe, OpPublish, OpPublishBatch,
                        OpPublishNoAck, OpListTopics
    <3>2. r.topic \in DOMAIN topics
      BY <1>0, <1>6, <2>2, ReasonIs DEF OpCreateTopic, OpPublish, OpPublishBatch,
         OpPublishNoAck, OpListTopics
    <3>3. n \in Nat /\ n < Power[Len64]
      <4>1. Len(topics[r.topic]) \in Nat /\ Len(topics[r.topic]) < Power[Len64]
        BY <3>2, LenProperties DEF LogsFit, Wire, DataInv
      <4>2. Power[Len64] \in Nat
        BY Powers, CodecAssumption
      <4>3. QED
        BY <4>1, <4>2
    <3> HIDE DEF n
    <3>4. v.err = "none" /\ v.offset = n /\ v = [err |-> v.err, offset |-> v.offset, names |-> v.names]
      BY <3>1 DEF Answer, NoAnswer
    <3>5. k.op # OpPublishNoAck => WellAnswered(k, v)
      BY <2>2, <3>1, <3>3, <3>4 DEF WellAnswered
    <3>6. QED
      BY <1>6, <2>1, <3>4, <3>5 DEF v, Sentinels
  <2>3. CASE k.op = OpListTopics
    <3> DEFINE names == Sorted(DOMAIN topics)
    <3>1. v = [Answer("none") EXCEPT !.names = names]
      BY <2>1, <2>3 DEF Grant, OpCreateTopic, OpSubscribe, OpPublish, OpPublishBatch,
                        OpPublishNoAck, OpListTopics
    <3>2. names \in Seq(Seq(Nat))
      BY SortedNames DEF Wire, ConnsInv
    <3> HIDE DEF names
    <3>3. v.err = "none" /\ v.names = names /\ v = [err |-> v.err, offset |-> v.offset, names |-> v.names]
      BY <3>1 DEF Answer, NoAnswer
    <3>4. Fits(EncodeTopics(names))
      <4>1. Fits(ResponseBody(r, v))
        BY <1>6, <2>1, <2>3
      <4>2. ResponseBody(r, v) = EncodeTopics(v.names)
        BY <2>3 DEF ResponseBody, OpCreateTopic, OpSubscribe, OpPublish, OpPublishBatch,
           OpListTopics
      <4>3. QED
        BY <3>3, <4>1, <4>2
    <3>5. WellAnswered(k, v)
      BY <2>3, <3>1, <3>2, <3>3, <3>4 DEF WellAnswered
    <3>6. QED
      BY <1>6, <2>1, <3>3, <3>5 DEF v, Sentinels
  <2>4. CASE k.op \in {OpCreateTopic, OpSubscribe}
    <3>1. v = Answer("none")
      BY <2>1, <2>4 DEF Grant, OpCreateTopic, OpSubscribe, OpPublish, OpPublishBatch,
         OpPublishNoAck, OpListTopics
    <3>2. WellAnswered(k, v)
      BY <2>4, <3>1 DEF WellAnswered
    <3>3. v.err = "none" /\ v = [err |-> v.err, offset |-> v.offset, names |-> v.names]
      BY <3>1 DEF Answer, NoAnswer
    <3>4. QED
      BY <1>6, <2>1, <3>2, <3>3 DEF v, Sentinels
  <2>5. QED
    BY <2>2, <2>3, <2>4 DEF Requests6
<1>7. QED
  BY <1>3, <1>4, <1>5, <1>6

\* The opcodes of requests that are answered.
Answers5 == {OpCreateTopic, OpSubscribe, OpPublish, OpPublishBatch, OpListTopics}

\* An answer is a sequence of bytes.
LEMMA AnswerBytes ==
    ASSUME NEW k, NEW v, k.op \in Answers5,
           k.op = OpPublishBatch => Len(k.payloads) \in Nat /\ Len(k.payloads) <= MaxPayload,
           WellAnswered(k, v)
    PROVE  Response(k.op, v.err, IF v.err = "none" THEN ResponseBody(k, v) ELSE <<>>) \in Seq(Nat)
<1>1. CASE v.err = "none"
  <2> DEFINE p == ResponseBody(k, v)
  <2>0. k.op \in {OpCreateTopic, OpSubscribe, OpPublish, OpPublishBatch, OpListTopics}
    BY DEF Answers5
  <2>1. p \in Seq(Nat) /\ Fits(p) /\ Meaning(k, [err |-> "none", op |-> k.op, payload |-> p]) = v
    BY <1>1, <2>0, BodyIsRead
  <2>2. k.op \in Nat
    BY DEF Answers5, OpCreateTopic, OpSubscribe, OpPublish, OpPublishBatch, OpListTopics
  <2> HIDE DEF p
  <2>3. EncodeFrame(k.op, p) \in Seq(Nat)
    BY <2>1, <2>2, FrameBytes
  <2>4. QED
    BY <1>1, <2>3 DEF Response, p
<1>2. CASE v.err # "none"
  <2>1. v.err \in Sentinels \ {"none"}
    BY <1>2 DEF WellAnswered, Answer, NoAnswer
  <2> DEFINE p == EncodeError(ErrorCode(v.err), Text)
  <2>2. /\ \A op, body : Response(op, v.err, body) = EncodeFrame(OpError, p)
        /\ p \in Seq(Nat)
    BY <2>1, ErrorAnswer
  <2> HIDE DEF p
  <2>3. EncodeFrame(OpError, p) \in Seq(Nat)
    BY <2>2, FrameBytes DEF OpError
  <2>4. QED
    BY <2>2, <2>3
<1>3. QED
  BY <1>1, <1>2

\* What serving a call does.
LEMMA ServeOf ==
    ASSUME Wire, NEW c \in Conns, Serve(c), UNCHANGED pushVars, pc[c] \notin {"forging", "gone"}
    PROVE  LET k == call[c]
               r == [k EXCEPT !.lib = TRUE]
               v == Decision("none", r)
           IN  /\ Sent(c) /\ k \in Here.calls /\ k.op \in Requests6 /\ Fits(Body(k))
               /\ k.topic \in Seq(Nat) /\ k.payloads \in Seq(Seq(Nat))
               /\ r.op = k.op /\ r.topic = k.topic /\ r.payloads = k.payloads
               /\ asked'[c] = r /\ verdict'[c] = v
               /\ topics' = IF v.err = "none" THEN Effect(r) ELSE topics
               /\ up'[c] = <<>>
               /\ down'[c] = IF r.op = OpPublishNoAck THEN down[c]
                             ELSE down[c] \o Response(r.op, v.err,
                                      IF v.err = "none" THEN ResponseBody(r, v) ELSE <<>>)
               /\ r.op = OpSubscribe /\ v.err = "none" =>
                     phase'[c] = "push" /\ subject'[c] = r.topic
               /\ ~(r.op = OpSubscribe /\ v.err = "none") => phase' = phase /\ subject' = subject
<1> USE DEF pushVars, streamVars, poolVars, readerVars, requestVars, brokerVars, clientVars,
            wireVars, serverVars
<1> DEFINE k == call[c]
           r == [k EXCEPT !.lib = TRUE]
           v == Decision("none", r)
           frame == ReadFrame(up[c])
           u == Understood(frame.op, frame.payload)
           q == u.request
           a == Decision(u.err, q)
<1>1. Sent(c)
  BY HandlerReadsCalls DEF HandlerStep
<1>2. /\ k \in Here.calls /\ k.op \in Nat /\ k.topic \in Seq(Nat) /\ k.payloads \in Seq(Seq(Nat))
      /\ Fits(Body(k)) => Alone(up[c], k.op, Body(k))
      /\ ~Fits(Body(k)) => ReadFrame(up[c]).err = "toolarge"
  BY <1>1, SentData
<1>3. /\ frame.err = "none" /\ frame.op \in Requests6
      /\ asked' = IF u.err = "none" THEN [asked EXCEPT ![c] = q] ELSE asked
      /\ verdict' = [verdict EXCEPT ![c] = a]
      /\ topics' = IF a.err = "none" THEN Effect(q) ELSE topics
      /\ up' = [up EXCEPT ![c] = AfterFrame(up[c])]
      /\ down' = IF q.op = OpPublishNoAck THEN down
                 ELSE [down EXCEPT ![c] = down[c] \o Response(q.op, a.err,
                          IF a.err = "none" THEN ResponseBody(q, a) ELSE <<>>)]
      /\ IF q.op = OpSubscribe /\ a.err = "none"
         THEN phase' = [phase EXCEPT ![c] = "push"] /\ subject' = [subject EXCEPT ![c] = q.topic]
         ELSE phase' = phase /\ subject' = subject
  BY DEF Serve, Requests6
<1> HIDE DEF k, u, q, a
<1>4. Fits(Body(k)) /\ Alone(up[c], k.op, Body(k))
  BY <1>2, <1>3
<1>5. frame.op = k.op /\ frame.payload = Body(k) /\ AfterFrame(up[c]) = <<>>
  BY <1>4 DEF Alone
<1>6. k.op \in Requests6
  BY <1>3, <1>5
<1>7. Understood(k.op, Body(k)) = [err |-> "none", request |-> r]
  BY <1>2, <1>4, <1>6, UnderstoodIs DEF Wire, DataInv
<1>8. r = [lib |-> TRUE, op |-> k.op, topic |-> k.topic, payloads |-> k.payloads]
  BY <1>2, CallShape DEF Wire, DataInv
<1>9. r.op = k.op /\ r.topic = k.topic /\ r.payloads = k.payloads
  BY <1>8
<1> HIDE DEF r, frame
<1>10. u.err = "none" /\ q = r
  BY <1>5, <1>7 DEF u, q
<1>11. a = v
  BY <1>10 DEF a
<1> HIDE DEF v
<1>12. asked'[c] = r /\ verdict'[c] = v /\ up'[c] = <<>>
  BY <1>3, <1>5, <1>10, <1>11, Domains
<1>13. topics' = IF v.err = "none" THEN Effect(r) ELSE topics
  BY <1>3, <1>10, <1>11, Zenon
<1> DEFINE more == Response(r.op, v.err, IF v.err = "none" THEN ResponseBody(r, v) ELSE <<>>)
<1>14. down' = IF r.op = OpPublishNoAck THEN down ELSE [down EXCEPT ![c] = down[c] \o more]
  BY <1>3, <1>10, <1>11, Zenon
<1>15. down'[c] = IF r.op = OpPublishNoAck THEN down[c] ELSE down[c] \o more
  <2> HIDE DEF more
  <2>1. QED
    BY <1>14, Domains
<1>16. /\ r.op = OpSubscribe /\ v.err = "none" => phase'[c] = "push" /\ subject'[c] = r.topic
       /\ ~(r.op = OpSubscribe /\ v.err = "none") => phase' = phase /\ subject' = subject
  BY <1>3, <1>10, <1>11, Domains
<1>17. QED
  BY <1>1, <1>2, <1>4, <1>6, <1>9, <1>12, <1>13, <1>15, <1>16 DEF k, r, v

\* What was stored or created for a call is there when it has been served.
LEMMA ServeStores ==
    ASSUME Wire, NEW k, NEW r, NEW v, k.op \in Requests6, k.topic \in Seq(Nat),
           k.payloads \in Seq(Seq(Nat)),
           r.op = k.op, r.topic = k.topic, r.payloads = k.payloads,
           v.err = "none", Reason(r) = "none", v = Grant(r), topics' = Effect(r)
    PROVE  /\ k.op \notin {OpPublishNoAck, OpListTopics} => k.topic \in DOMAIN topics'
           /\ k.op \in {OpPublish, OpPublishBatch} =>
                 /\ v.offset \in Nat /\ v.offset + Len(k.payloads) <= Len(topics'[k.topic])
                 /\ SubSeq(topics'[k.topic], v.offset + 1, v.offset + Len(k.payloads))
                       = Messages(k.payloads, TRUE)
<1> USE DEF OpCreateTopic, OpPublish, OpSubscribe, OpPublishBatch, OpPublishNoAck, OpListTopics
<1>1. CASE k.op = OpCreateTopic
  <2>1. topics' = [t \in DOMAIN topics \union {r.topic} |-> IF t = r.topic THEN <<>> ELSE topics[t]]
    BY <1>1 DEF Effect
  <2>2. QED
    BY <1>1, <2>1
<1>2. CASE k.op = OpSubscribe
  <2>1. topics' = topics
    BY <1>2 DEF Effect
  <2>2. k.topic \in DOMAIN topics
    <3>1. r.op \in Requests6 /\ r.topic \in Seq(Nat) /\ r.op \notin {OpCreateTopic, OpListTopics}
      BY <1>2
    <3>2. Reason(r) = "none" /\ r.op \notin {OpCreateTopic, OpListTopics} => r.topic \in DOMAIN topics
      BY <3>1, ReasonIs, Zenon
    <3>3. QED
      BY <3>1, <3>2
  <2>3. QED
    BY <1>2, <2>1, <2>2
<1>3. CASE k.op \in {OpPublish, OpPublishBatch}
  <2> DEFINE s == topics[k.topic]
             t == Messages(k.payloads, TRUE)
             n == Len(k.payloads)
  <2>1. k.topic \in DOMAIN topics
    BY <1>3, ReasonIs
  <2>2. topics' = [topics EXCEPT ![r.topic] = topics[r.topic] \o Messages(r.payloads, TRUE)]
    BY <1>3 DEF Effect
  <2>3. k.topic \in DOMAIN topics' /\ topics'[k.topic] = s \o t
    BY <2>1, <2>2
  <2>4. s \in Seq(Entry)
    BY <2>1 DEF Wire, DataInv
  <2>5. t \in Seq(Entry) /\ Len(t) = n
    BY MessagesAreEntries
  <2>6. v.offset = IF k.payloads = <<>> THEN 0 ELSE Len(s)
    BY <1>3 DEF Grant, Answer, NoAnswer
  <2>6a. k.payloads = <<>> => t = <<>> /\ n = 0
    BY DEF Messages
  <2> HIDE DEF s, t, n
  <2>7. Len(s) + Len(t) <= Len(s \o t) /\ SubSeq(s \o t, Len(s) + 1, Len(s) + Len(t)) = t
        /\ Len(s) \in Nat
    BY <2>4, <2>5, PartBehind, LenProperties
  <2>8. v.offset + n <= Len(topics'[k.topic])
        /\ SubSeq(topics'[k.topic], v.offset + 1, v.offset + n) = t /\ v.offset \in Nat
    <3>1. CASE k.payloads # <<>>
      BY <2>3, <2>5, <2>6, <2>7, <3>1
    <3>2. CASE k.payloads = <<>>
      <4>1. v.offset = 0 /\ n = 0 /\ t = <<>> /\ 0 <= Len(s \o t)
        BY <2>4, <2>5, <2>6, <2>6a, <3>2, ConcatProperties, LenProperties
      <4>2. SubSeq(s \o t, 1, 0) = <<>>
        OBVIOUS
      <4>3. QED
        BY <2>3, <4>1, <4>2
    <3>3. QED
      BY <3>1, <3>2
  <2>9. QED
    BY <2>3, <2>8 DEF t, n
<1>4. CASE k.op \in {OpPublishNoAck, OpListTopics}
  <2>1. k.op \notin {OpPublish, OpPublishBatch}
    BY <1>4
  <2>2. QED
    BY <1>4, <2>1, Zenon
<1>5. QED
  BY <1>1, <1>2, <1>3, <1>4 DEF Requests6

\* The histories of a call that has been served.
LEMMA ServeHistory ==
    ASSUME Wire, LogsFit, NEW c \in Conns, Serve(c), UNCHANGED pushVars,
           pc[c] \notin {"forging", "gone"}
    PROVE  History(c)'
<1> DEFINE k == call[c]
           r == [k EXCEPT !.lib = TRUE]
           v == Decision("none", r)
<1>1. /\ Sent(c) /\ k \in Here.calls /\ k.op \in Requests6
      /\ k.topic \in Seq(Nat) /\ k.payloads \in Seq(Seq(Nat))
      /\ r.op = k.op /\ r.topic = k.topic /\ r.payloads = k.payloads
      /\ asked'[c] = r /\ verdict'[c] = v
      /\ topics' = IF v.err = "none" THEN Effect(r) ELSE topics
  BY ServeOf
<1>2. call' = call /\ pc' = pc /\ result' = result
  BY HandlerOf DEF HandlerStep
<1>3. pc[c] = (IF k.op = OpPublishNoAck THEN "idle" ELSE "waiting")
      /\ (pc[c] = "waiting" => result[c] = NoAnswer)
  BY <1>1, Connection DEF Sent, History
<1> HIDE DEF v
<1>4. /\ v.err \in Sentinels
      /\ v = [err |-> v.err, offset |-> v.offset, names |-> v.names]
      /\ v.err = "none" => Reason(r) = "none" /\ v = Grant(r)
  <2> HIDE DEF k, r
  <2>1. QED
    BY <1>1, DecisionIs DEF v
<1>5. NoAnswer.err \notin Sentinels
  BY DEF NoAnswer, Sentinels
<1>6. v.err = "none" =>
        /\ k.op \notin {OpPublishNoAck, OpListTopics} => k.topic \in DOMAIN topics'
        /\ k.op \in {OpPublish, OpPublishBatch} =>
              /\ v.offset \in Nat /\ v.offset + Len(k.payloads) <= Len(topics'[k.topic])
              /\ SubSeq(topics'[k.topic], v.offset + 1, v.offset + Len(k.payloads))
                    = Messages(k.payloads, TRUE)
  <2> HIDE DEF k, r
  <2>1. SUFFICES ASSUME v.err = "none"
                 PROVE  /\ k.op \notin {OpPublishNoAck, OpListTopics} => k.topic \in DOMAIN topics'
                        /\ k.op \in {OpPublish, OpPublishBatch} =>
                              /\ v.offset \in Nat
                              /\ v.offset + Len(k.payloads) <= Len(topics'[k.topic])
                              /\ SubSeq(topics'[k.topic], v.offset + 1, v.offset + Len(k.payloads))
                                    = Messages(k.payloads, TRUE)
    OBVIOUS
  <2>2. topics' = Effect(r) /\ Reason(r) = "none" /\ v = Grant(r)
    BY <1>1, <1>4, <2>1
  <2>3. QED
    BY <1>1, <2>1, <2>2, ServeStores
<1>7. call'[c] = k /\ asked'[c] = r /\ verdict'[c] = v /\ pc'[c] = pc[c] /\ result'[c] = result[c]
  BY <1>1, <1>2
<1>8. v # NoAnswer
  BY <1>4, <1>5
<1> HIDE DEF k, r
<1>9. r = [k EXCEPT !.lib = TRUE]
  BY DEF r
<1>10. /\ asked'[c] # NoCall => asked'[c] = [k EXCEPT !.lib = TRUE]
       /\ v = [err |-> v.err, offset |-> v.offset, names |-> v.names]
       /\ v.err = "none" /\ k.op \notin {OpPublishNoAck, OpListTopics} =>
             k.topic \in DOMAIN topics'
       /\ v.err = "none" /\ k.op \in {OpPublish, OpPublishBatch} =>
             /\ v.offset \in Nat /\ v.offset + Len(k.payloads) <= Len(topics'[k.topic])
             /\ SubSeq(topics'[k.topic], v.offset + 1, v.offset + Len(k.payloads))
                   = Messages(k.payloads, TRUE)
       /\ pc'[c] = "waiting" => result'[c] = NoAnswer
       /\ pc'[c] # "waiting" /\ v # NoAnswer /\ k.op # OpPublishNoAck => result'[c] = Reported(v)
       /\ v = NoAnswer /\ k.op # OpPublishNoAck => result'[c].err # "none"
  BY <1>3, <1>4, <1>6, <1>7, <1>8, <1>9
<1>11. QED
  BY <1>7, <1>10, Zenon DEF History

\* The answer to a subscription is the only thing on the wire when its stream begins.
LEMMA FirstOfStream ==
    /\ SubscribeOk \in Seq(Nat) /\ SubscribeOk \o <<>> = SubscribeOk
    /\ AfterFrame(SubscribeOk) = <<>>
<1>1. OpSubscribe \in Nat /\ <<>> \in Seq(Nat) /\ Fits(<<>>)
  BY CodecAssumption DEF OpSubscribe, Fits
<1>2. SubscribeOk \in Seq(Nat) /\ Alone(SubscribeOk, OpSubscribe, <<>>)
  BY <1>1, FrameBytes, OneFrame DEF SubscribeOk
<1>3. SubscribeOk \o <<>> = SubscribeOk
  BY <1>2, ConcatEmptySeq
<1>4. QED
  BY <1>2, <1>3 DEF Alone

\* A stream that has just been granted has nothing to write yet.
LEMMA GrantedFresh ==
    ASSUME NEW c \in Conns, pc'[c] = "waiting", phase'[c] = "push", up'[c] = <<>>,
           call'[c].op = OpSubscribe, verdict'[c] = Answer("none"),
           subject'[c] = call'[c].topic, subject'[c] \in DOMAIN topics', Log(c)' \in Seq(Entry),
           down'[c] = SubscribeOk, todo'[c] = <<>>, bufs'[c] = <<>>, step'[c] = "read",
           cursor'[c] = 0, got'[c] = <<>>, last'[c] = "none"
    PROVE  Granted(c)'
<1>1. Behind(c)' = <<>> /\ down'[c] = SubscribeOk \o <<>>
  BY FirstOfStream DEF Behind
<1>2. Stand(c)' = 0 /\ Len(got'[c]) = 0
  <2>1. Len(<<>>) = 0 /\ 0 - 0 = 0
    OBVIOUS
  <2>2. Stand(c)' = cursor'[c] - Len(todo'[c])
    BY DEF Stand
  <2>3. QED
    BY <2>1, <2>2, Zenon
<1>3. Batch(c)'
  BY DEF Batch
<1>4. Pending(c)' = <<>>
  <2>1. BytesList(head', <<>>) = <<>>
    BY DEF BytesList
  <2>2. QED
    BY <2>1, PendingIs, FlattenSmall
<1>5. Pushing(Log(c)', "read", <<>>, <<>>, 0, 0)
  <2> DEFINE log == Log(c)'
  <2>1. log \in Seq(Entry) /\ Len(log) \in Nat
    BY LenProperties
  <2> HIDE DEF log
  <2>2. Frames(log, 0, 0) = <<>>
    BY <2>1, FramesSmall
  <2>3. Pushing(log, "read", <<>>, <<>>, 0, 0)
    BY <2>1, <2>2 DEF Pushing
  <2>4. QED
    BY <2>3 DEF log
<1>6. <<>> \in Seq(Nat)
  OBVIOUS
<1>7. Pushing(Log(c)', step'[c], Behind(c)', Pending(c)', Len(got'[c]), Stand(c)')
  BY <1>1, <1>2, <1>4, <1>5
<1>8. QED
  BY <1>1, <1>3, <1>6, <1>7 DEF Granted

\* Serve: a call is answered, or a stream begins, or PublishAsync is over.
LEMMA ServeExchange ==
    ASSUME Wire, LogsFit, NEW c \in Conns, Serve(c), UNCHANGED pushVars,
           pc[c] \notin {"forging", "gone"}
    PROVE  Exchange(c)'
<1> DEFINE k == call[c]
           r == [k EXCEPT !.lib = TRUE]
           v == Decision("none", r)
<1>1. /\ Sent(c) /\ k \in Here.calls /\ k.op \in Requests6 /\ Fits(Body(k))
      /\ k.topic \in Seq(Nat) /\ k.payloads \in Seq(Seq(Nat))
      /\ r.op = k.op /\ r.topic = k.topic /\ r.payloads = k.payloads
      /\ verdict'[c] = v
      /\ topics' = IF v.err = "none" THEN Effect(r) ELSE topics
      /\ up'[c] = <<>>
      /\ down'[c] = IF r.op = OpPublishNoAck THEN down[c]
                    ELSE down[c] \o Response(r.op, v.err,
                             IF v.err = "none" THEN ResponseBody(r, v) ELSE <<>>)
      /\ r.op = OpSubscribe /\ v.err = "none" => phase'[c] = "push" /\ subject'[c] = r.topic
      /\ ~(r.op = OpSubscribe /\ v.err = "none") => phase' = phase /\ subject' = subject
  BY ServeOf
<1>2. /\ phase[c] = "request" /\ call' = call /\ pc' = pc /\ scenario' = scenario
      /\ got' = got /\ last' = last /\ bufs' = bufs /\ todo' = todo /\ cursor' = cursor /\ step' = step
  BY HandlerOf DEF HandlerStep
<1>3. pc[c] = (IF k.op = OpPublishNoAck THEN "idle" ELSE "waiting") /\ down[c] = <<>>
  BY <1>1 DEF Sent
<1>4. call'[c] = k /\ Here' = Here
  BY <1>2 DEF Here
<1> HIDE DEF k, r, v
<1>5. /\ v.err \in Sentinels
      /\ k.op # OpPublishNoAck => WellAnswered(k, v)
      /\ v.err = "none" => Reason(r) = "none" /\ v = Grant(r)
  BY <1>1, DecisionIs DEF v
<1>6. ResponseBody(r, v) = ResponseBody(k, v)
  BY <1>1 DEF ResponseBody
<1>7. CASE k.op = OpPublishNoAck
  <2>1. pc'[c] = "idle" /\ down'[c] = <<>> /\ k.op # OpSubscribe
    BY <1>1, <1>2, <1>3, <1>7 DEF OpPublishNoAck, OpSubscribe
  <2>2. Resting(c)'
    BY <1>1, <1>2, <2>1 DEF Resting
  <2>3. QED
    BY <2>2 DEF Exchange
<1>8. CASE k.op # OpPublishNoAck
  <2> DEFINE more == Response(k.op, v.err, IF v.err = "none" THEN ResponseBody(k, v) ELSE <<>>)
  <2>1. k.op \in Answers5 /\ pc'[c] = "waiting" /\ WellAnswered(k, v)
    BY <1>1, <1>2, <1>3, <1>5, <1>8 DEF Requests6, Answers5
  <2>2. k.op = OpPublishBatch => Len(k.payloads) \in Nat /\ Len(k.payloads) <= MaxPayload
    <3>1. SUFFICES ASSUME k.op = OpPublishBatch
                   PROVE  Len(k.payloads) \in Nat /\ Len(k.payloads) <= MaxPayload
      OBVIOUS
    <3>2. Body(k) = EncodePublishBatch(k.topic, k.payloads)
      BY <3>1 DEF Body, OpPublish, OpPublishNoAck, OpPublishBatch
    <3>3. QED
      BY <1>1, <3>2, BatchFits, LenProperties
  <2>3. more \in Seq(Nat)
    BY <2>1, <2>2, AnswerBytes
  <2>4. down'[c] = <<>> \o more
    BY <1>1, <1>3, <1>6, <1>8
  <2>5. <<>> \o more = more
    <3> HIDE DEF more
    <3>1. QED
      BY <2>3, ConcatEmptySeq
  <2>6. down'[c] = more
    BY <2>4, <2>5, Zenon
  <2>7. CASE k.op = OpSubscribe /\ v.err = "none"
    <3>1. more = SubscribeOk
      <4>1. ResponseBody(k, v) = <<>>
        BY <2>7 DEF ResponseBody, OpCreateTopic, OpSubscribe, OpPublish, OpPublishBatch,
           OpListTopics
      <4>2. more = EncodeFrame(k.op, ResponseBody(k, v))
        BY <2>7 DEF Response
      <4>3. QED
        BY <2>7, <4>1, <4>2, Zenon DEF SubscribeOk
    <3>2. v = Answer("none")
      <4>1. r.op = OpSubscribe /\ v = Grant(r)
        BY <1>1, <1>5, <2>7
      <4>2. QED
        BY <4>1 DEF Grant, OpCreateTopic, OpSubscribe, OpPublish, OpPublishBatch, OpPublishNoAck,
                    OpListTopics
    <3>3. topics' = topics /\ k.topic \in DOMAIN topics
      <4>1. topics' = topics
        BY <1>1, <2>7 DEF Effect, OpCreateTopic, OpSubscribe, OpPublish, OpPublishBatch,
                          OpPublishNoAck, OpListTopics
      <4>2. r.op \in Requests6 /\ r.topic \in Seq(Nat) /\ r.op \notin {OpCreateTopic, OpListTopics}
            /\ Reason(r) = "none"
        BY <1>1, <1>5, <2>7 DEF OpCreateTopic, OpSubscribe, OpListTopics
      <4>3. Reason(r) = "none" /\ r.op \notin {OpCreateTopic, OpListTopics} => r.topic \in DOMAIN topics
        BY <4>2, ReasonIs, Zenon
      <4>4. QED
        BY <1>1, <4>1, <4>2, <4>3
    <3>4. phase'[c] = "push" /\ subject'[c] = k.topic
      BY <1>1, <2>7
    <3>5. Log(c)' \in Seq(Entry)
      BY <3>3, <3>4 DEF Log, Wire, DataInv
    <3>6. todo'[c] = <<>> /\ bufs'[c] = <<>> /\ step'[c] = "read" /\ cursor'[c] = 0
      BY <1>2 DEF Wire, StreamInv, ConnsInv
    <3>7. got'[c] = <<>> /\ last'[c] = "none"
      BY <1>2, <2>1, Connection DEF Reader
    <3>8. Granted(c)'
      <4> HIDE DEF more
      <4>1. QED
        BY <1>1, <1>4, <2>1, <2>6, <2>7, <3>1, <3>2, <3>3, <3>4, <3>5, <3>6, <3>7, GrantedFresh
    <3>9. QED
      BY <3>8 DEF Exchange
  <2>8. CASE ~(k.op = OpSubscribe /\ v.err = "none")
    <3>1. phase'[c] = "request"
      BY <1>1, <1>2, <2>8
    <3>2. k.op \in {OpCreateTopic, OpSubscribe, OpPublish, OpPublishBatch, OpListTopics}
      BY <2>1 DEF Answers5
    <3>3. Answered(c)'
      BY <1>1, <1>4, <2>1, <2>2, <2>6, <2>8, <3>1, <3>2, Zenon DEF Answered
    <3>4. QED
      BY <3>3 DEF Exchange
  <2>9. QED
    BY <2>7, <2>8
<1>9. QED
  BY <1>7, <1>8

\* The handler's steps.
LEMMA HandlerFine ==
    ASSUME Wire, LogStep, LogsFit, NEW c \in Conns, HandlerStep(c)
    PROVE  Fine(c)
<1>1. CASE pc[c] \in {"forging", "gone"}
  <2>1. pc' = pc /\ got' = got /\ last' = last
    BY HandlerOf
  <2>2. Reader(c)'
    BY <1>1, <2>1, Connection, ReaderRests
  <2>3. Exchange(c)' /\ History(c)'
    BY <1>1, <2>1 DEF Exchange, History
  <2>4. QED
    BY <2>2, <2>3 DEF Fine
<1>2. CASE pc[c] \notin {"forging", "gone"}
  <2>1. CASE Serve(c)
    <3>1. Exchange(c)' /\ History(c)'
      BY <1>2, <2>1, ServeExchange, ServeHistory DEF HandlerStep
    <3>2. pc[c] # "streaming" /\ pc' = pc /\ got' = got /\ last' = last
      BY <1>2, HandlerOf, HandlerReadsCalls DEF Sent
    <3>3. Reader(c)'
      BY <3>2, Connection, ReaderRests
    <3>4. QED
      BY <3>1, <3>3 DEF Fine
  <2>2. CASE Reject(c)
    BY <1>2, <2>2, RejectFine DEF HandlerStep
  <2>3. CASE Ignore(c)
    BY <1>2, <2>3, IgnoreFine DEF HandlerStep
  <2>4. QED
    BY <2>1, <2>2, <2>3 DEF HandlerStep
<1>3. QED
  BY <1>1, <1>2

-----------------------------------------------------------------------------
\* The reader

\* Of bytes x, that t will follow, message p is read at offset i, with rest behind
\* it, or it is not there yet.
Arrives(x, t, i, p, rest) ==
    LET f == PushFrame(i, p)
    IN  /\ Len(x) < Len(f) => ReadFrame(x).err = "truncated"
        /\ Len(f) <= Len(x) =>
              /\ ReadFrame(x).err = "none"
              /\ Received(ReadFrame(x)) = [err |-> "none", msg |-> <<[Offset |-> i, Payload |-> p]>>]
              /\ AfterFrame(x) \in Seq(Nat)
              /\ AfterFrame(x) \o t = rest

\* A pushed message is read as it was written.
LEMMA MessageArrives ==
    ASSUME NEW x \in Seq(Nat), NEW t \in Seq(Nat), NEW rest \in Seq(Nat), NEW i \in Nat,
           i < Power[Len64], NEW p \in Seq(Nat), CanPush(p),
           NEW f, f = PushFrame(i, p), x \o t = f \o rest
    PROVE  Arrives(x, t, i, p, rest)
<1> DEFINE e == EncodeMessage(i, p)
<1>1. e \in Seq(Nat) /\ Fits(e) /\ OpMessage \in Nat
  BY MessageBytes DEF CanPush, OpMessage
<1>2. DecodeMessage(e).err = "none" /\ DecodeMessage(e).fields = <<p>> /\ At(e, 0, Len64) = i
  BY <1>1, MessageRoundTrip
<1> HIDE DEF e
<1>3. PushFrame(i, p) = EncodeFrame(OpMessage, e)
  BY DEF PushFrame, e
<1>4. FrameFirst(x, t, OpMessage, e, rest)
  <2>1. f = EncodeFrame(OpMessage, e)
    BY <1>3
  <2>2. QED
    BY <1>1, <2>1, FrameIsRead
<1> DEFINE frame == [err |-> "none", op |-> OpMessage, payload |-> e]
           piece == [Offset |-> i, Payload |-> p]
<1>5. Received(frame) = [err |-> "none", msg |-> <<piece>>]
  <2>1. Received(frame) = Pushed(frame)
    BY DEF Received, OpMessage, OpError
  <2>2. Pushed(frame) = [err |-> "none", msg |-> <<piece>>]
    <3>1. DecodeMessage(e).fields[1] = p
      BY <1>2
    <3>2. QED
      BY <1>2, <3>1 DEF Pushed
  <2>3. QED
    BY <2>1, <2>2
<1> HIDE DEF frame, piece
<1>6. frame.err = "none"
  BY DEF frame
<1>7. /\ Len(x) < Len(f) => ReadFrame(x).err = "truncated"
      /\ Len(f) <= Len(x) => /\ ReadFrame(x) = frame
                             /\ AfterFrame(x) \in Seq(Nat)
                             /\ AfterFrame(x) \o t = rest
  BY <1>3, <1>4, Zenon DEF FrameFirst, frame
<1>8. QED
  BY <1>5, <1>6, <1>7 DEF Arrives, piece

\* Of the messages from offset i to j on the wire, with t to follow, the first is
\* read, or it is not there yet, or there is none.
Delivers(log, x, t, i, j) ==
    \/ ReadFrame(x).err = "truncated"
    \/ /\ i < j
       /\ ReadFrame(x).err = "none"
       /\ Received(ReadFrame(x))
             = [err |-> "none", msg |-> <<[Offset |-> i, Payload |-> log[i + 1].Payload]>>]
       /\ AfterFrame(x) \in Seq(Nat)
       /\ AfterFrame(x) \o t = Frames(log, i + 1, j)

\* The frames of the messages that a stream sends are read in their order.
LEMMA FramesDeliver ==
    ASSUME NEW log \in Seq(Entry), Len(log) < Power[Len64], NEW x \in Seq(Nat), NEW t \in Seq(Nat),
           NEW i \in Nat, NEW j \in Nat, i <= j, j <= Len(log),
           \A m \in 1 .. j : CanPush(log[m].Payload),
           x \o t = Frames(log, i, j)
    PROVE  Delivers(log, x, t, i, j)
<1>1. Len(log) \in Nat /\ Power[Len64] \in Nat
  BY Powers, CodecAssumption, LenProperties
<1>2. CASE i = j
  <2>1. x \o t = <<>>
    BY <1>1, <1>2, FramesSmall
  <2>2. x = <<>>
    <3>1. Len(x \o t) = Len(x) + Len(t) /\ Len(x) \in Nat /\ Len(t) \in Nat
      BY ConcatBytes
    <3>2. Len(<<>>) = 0
      OBVIOUS
    <3>3. Len(x) = 0
      BY <2>1, <3>1, <3>2
    <3>4. QED
      BY <3>3, EmptySeq
  <2>3. QED
    BY <2>2, EmptyStream DEF Delivers
<1>3. CASE i < j
  <2> DEFINE p == log[i + 1].Payload
             rest == Frames(log, i + 1, j)
             f == PushFrame(i, p)
  <2>1. p \in Seq(Nat) /\ Frames(log, i, j) = f \o rest
    BY <1>1, <1>3, FramesUnfold
  <2>2. CanPush(p) /\ i < Power[Len64] /\ i + 1 \in Nat /\ i + 1 <= j
    BY <1>1, <1>3
  <2>3. rest \in Seq(Nat)
    BY <2>2, FrameListBytes
  <2>4. f = PushFrame(i, p)
    OBVIOUS
  <2> HIDE DEF p, rest, f
  <2>5. x \o t = f \o rest
    BY <2>1
  <2>6. Arrives(x, t, i, p, rest)
    BY <2>1, <2>2, <2>3, <2>4, <2>5, MessageArrives
  <2>7. Len(x) < Len(PushFrame(i, p)) \/ Len(PushFrame(i, p)) <= Len(x)
    <3>1. Len(PushFrame(i, p)) \in Nat /\ Len(x) \in Nat
      BY <2>1, PushFrameBytes, LenProperties
    <3>2. QED
      BY <3>1
  <2>8. QED
    BY <1>3, <2>6, <2>7 DEF Arrives, Delivers, p, rest
<1>4. QED
  BY <1>2, <1>3

\* A message of a running stream is taken from the wire.
LEMMA PushingIsRead ==
    ASSUME NEW log \in Seq(Entry), Len(log) < Power[Len64], NEW x \in Seq(Nat), NEW rest \in Seq(Nat),
           NEW stage, NEW i \in Nat, NEW j \in Nat, Pushing(log, stage, x, rest, i, j),
           ReadFrame(x).err # "truncated"
    PROVE  /\ i < j /\ j <= Len(log) /\ ReadFrame(x).err = "none"
           /\ Received(ReadFrame(x))
                 = [err |-> "none", msg |-> <<[Offset |-> i, Payload |-> log[i + 1].Payload]>>]
           /\ AfterFrame(x) \in Seq(Nat)
           /\ Pushing(log, stage, AfterFrame(x), rest, i + 1, j)
<1>1. /\ i <= j /\ j <= Len(log) /\ Len(log) \in Nat
      /\ \A m \in 1 .. j : CanPush(log[m].Payload)
      /\ x \o rest = Frames(log, i, j)
      /\ stage = "read" => rest = <<>>
      /\ stage = "fill" => \E m \in i .. j : x = Frames(log, i, m)
  BY LenProperties DEF Pushing
<1>2. Delivers(log, x, rest, i, j)
  BY <1>1, FramesDeliver
<1>3. /\ i < j /\ ReadFrame(x).err = "none"
      /\ Received(ReadFrame(x))
            = [err |-> "none", msg |-> <<[Offset |-> i, Payload |-> log[i + 1].Payload]>>]
      /\ AfterFrame(x) \in Seq(Nat)
      /\ AfterFrame(x) \o rest = Frames(log, i + 1, j)
  BY <1>2 DEF Delivers
<1>4. ASSUME stage = "fill" PROVE \E m \in i + 1 .. j : AfterFrame(x) = Frames(log, i + 1, m)
  <2>1. PICK m \in i .. j : x = Frames(log, i, m)
    BY <1>1, <1>4
  <2>2. m \in Nat /\ i <= m /\ m <= Len(log) /\ (\A n \in 1 .. m : CanPush(log[n].Payload))
    BY <1>1
  <2>3. x \o <<>> = Frames(log, i, m) /\ <<>> \in Seq(Nat)
    BY <2>1, ConcatEmptySeq
  <2>4. Delivers(log, x, <<>>, i, m)
    BY <2>2, <2>3, FramesDeliver
  <2>5. i < m /\ AfterFrame(x) \o <<>> = Frames(log, i + 1, m)
    BY <2>4 DEF Delivers
  <2>6. AfterFrame(x) \o <<>> = AfterFrame(x)
    BY <1>3, ConcatEmptySeq
  <2>7. m \in i + 1 .. j
    BY <2>2, <2>5
  <2>8. QED
    BY <2>5, <2>6, <2>7
<1>5. i + 1 <= j
  BY <1>3
<1>6. Pushing(log, stage, AfterFrame(x), rest, i + 1, j)
  BY <1>1, <1>3, <1>4, <1>5 DEF Pushing
<1>7. QED
  BY <1>1, <1>3, <1>6

\* What is read of a stream that has ended: a message, or a torn frame, or the
\* last word.
LEMMA EndedIsRead ==
    ASSUME NEW log \in Seq(Entry), Len(log) < Power[Len64], NEW x \in Seq(Nat),
           NEW i \in Nat, Ended(log, x, i)
    PROVE  \/ ReadFrame(x).err = "truncated"
           \/ /\ ReadFrame(x).err = "none" /\ AfterFrame(x) \in Seq(Nat)
              /\ Received(ReadFrame(x)) = [err |-> "toolarge", msg |-> <<>>]
           \/ /\ ReadFrame(x).err = "none" /\ AfterFrame(x) \in Seq(Nat)
              /\ i < Len(log)
              /\ Received(ReadFrame(x))
                    = [err |-> "none", msg |-> <<[Offset |-> i, Payload |-> log[i + 1].Payload]>>]
              /\ Ended(log, AfterFrame(x), i + 1)
<1>1. PICK j \in i .. Len(log) :
          /\ \A m \in 1 .. j : CanPush(log[m].Payload)
          /\ IsPrefix(x, Frames(log, i, j)) \/ x = Frames(log, i, j) \o LastWord
  BY DEF Ended
<1>2. /\ j \in Nat /\ i <= j /\ j <= Len(log) /\ Len(log) \in Nat
      /\ \A m \in 1 .. j : CanPush(log[m].Payload)
      /\ Power[Len64] \in Nat
  BY <1>1, Powers, CodecAssumption, LenProperties
<1>3. Frames(log, i, j) \in Seq(Nat)
  BY <1>2, FrameListBytes
<1>4. CASE IsPrefix(x, Frames(log, i, j))
  <2>1. PICK t \in Seq(Nat) : x \o t = Frames(log, i, j)
    BY <1>3, <1>4, PrefixRest
  <2>2. Delivers(log, x, t, i, j)
    BY <1>2, <2>1, FramesDeliver
  <2>3. CASE ReadFrame(x).err = "truncated"
    BY <2>3
  <2>4. CASE /\ i < j /\ ReadFrame(x).err = "none"
             /\ Received(ReadFrame(x))
                   = [err |-> "none", msg |-> <<[Offset |-> i, Payload |-> log[i + 1].Payload]>>]
             /\ AfterFrame(x) \in Seq(Nat)
             /\ AfterFrame(x) \o t = Frames(log, i + 1, j)
    <3>1. i + 1 \in Nat /\ i + 1 <= j /\ j \in i + 1 .. Len(log) /\ i < Len(log)
      BY <1>2, <2>4
    <3>2. Frames(log, i + 1, j) \in Seq(Nat)
      BY <1>2, <3>1, FrameListBytes
    <3>3. IsPrefix(AfterFrame(x), Frames(log, i + 1, j))
      BY <2>4, <3>2, PrefixRest
    <3>4. Ended(log, AfterFrame(x), i + 1)
      BY <1>2, <3>1, <3>3 DEF Ended
    <3>5. QED
      BY <2>4, <3>1, <3>4
  <2>5. QED
    BY <2>2, <2>3, <2>4 DEF Delivers
<1>5. CASE x = Frames(log, i, j) \o LastWord /\ i = j
  <2>1. Frames(log, i, j) = <<>>
    BY <1>2, <1>5, FramesSmall
  <2>2. LastWord \in Seq(Nat) /\ \E p \in Seq(Nat) :
            ErrorIn(p) = "toolarge" /\ Alone(LastWord, OpError, p)
    BY LastWordIsRead
  <2>3. <<>> \o LastWord = LastWord
    BY <2>2, ConcatEmptySeq
  <2>4. x = LastWord
    BY <1>5, <2>1, <2>3, Zenon
  <2>5. PICK p \in Seq(Nat) : ErrorIn(p) = "toolarge" /\ Alone(x, OpError, p)
    BY <2>2, <2>4
  <2> DEFINE frame == [err |-> "none", op |-> OpError, payload |-> p]
  <2>6. ReadFrame(x) = frame /\ AfterFrame(x) = <<>>
    BY <2>5 DEF Alone
  <2>7. Received(frame) = [err |-> "toolarge", msg |-> <<>>]
    BY <2>5 DEF Received, OpError, OpMessage
  <2>8. frame.err = "none" /\ <<>> \in Seq(Nat)
    OBVIOUS
  <2> HIDE DEF frame
  <2>9. QED
    BY <2>6, <2>7, <2>8
<1>6. CASE x = Frames(log, i, j) \o LastWord /\ i < j
  <2> DEFINE p == log[i + 1].Payload
             rest == Frames(log, i + 1, j)
             f == PushFrame(i, p)
             w == LastWord
             more == rest \o w
  <2>1. p \in Seq(Nat) /\ Frames(log, i, j) = f \o rest
    BY <1>2, <1>6, FramesUnfold
  <2>2. CanPush(p) /\ i < Power[Len64] /\ i + 1 \in Nat /\ i + 1 <= j /\ j \in i + 1 .. Len(log)
    BY <1>2, <1>6
  <2>3. rest \in Seq(Nat) /\ w \in Seq(Nat)
    BY <1>2, <2>2, FrameListBytes, LastWordIsRead
  <2>4. f \in Seq(Nat) /\ f = PushFrame(i, p)
    BY <2>1, PushFrameBytes
  <2> HIDE DEF p, rest, f, w
  <2>5. x = f \o more
    <3>1. Chained(f, rest, w)
      BY <2>3, <2>4, ConcatThree
    <3>2. (f \o rest) \o w = f \o (rest \o w)
      BY <3>1, Zenon DEF Chained
    <3>3. x = (f \o rest) \o w
      BY <1>6, <2>1, Zenon DEF w
    <3>4. QED
      BY <3>2, <3>3, Zenon
  <2>6. more \in Seq(Nat)
    BY <2>3, ConcatBytes
  <2> HIDE DEF more
  <2>7. x \o <<>> = f \o more /\ <<>> \in Seq(Nat)
    <3>1. x \o <<>> = x
      BY ConcatEmptySeq
    <3>2. QED
      BY <2>5, <3>1
  <2>8. Arrives(x, <<>>, i, p, more)
    BY <2>1, <2>2, <2>4, <2>6, <2>7, MessageArrives
  <2>9. Len(f) <= Len(x)
    BY <2>4, <2>5, <2>6, ConcatBytes
  <2>10. /\ ReadFrame(x).err = "none" /\ AfterFrame(x) \in Seq(Nat)
         /\ Received(ReadFrame(x)) = [err |-> "none", msg |-> <<[Offset |-> i, Payload |-> p]>>]
         /\ AfterFrame(x) \o <<>> = more
    BY <2>4, <2>8, <2>9, Zenon DEF Arrives
  <2>11. AfterFrame(x) = Frames(log, i + 1, j) \o LastWord
    <3>1. AfterFrame(x) \o <<>> = AfterFrame(x)
      BY <2>10, ConcatEmptySeq
    <3>2. QED
      BY <3>1, <2>10, Zenon DEF more, rest, w
  <2>12. Ended(log, AfterFrame(x), i + 1)
    BY <1>2, <2>2, <2>11 DEF Ended
  <2>13. i < Len(log)
    BY <1>2, <1>6
  <2>14. QED
    BY <2>10, <2>12, <2>13 DEF p
<1>7. QED
  BY <1>1, <1>2, <1>4, <1>5, <1>6, SMTT(30)

\* What a Read of the subscription does.
LEMMA PullOf ==
    ASSUME Wire, NEW c \in Conns, Pull(c)
    PROVE  LET frame == ReadFrame(down[c])
           IN  /\ pc[c] = "streaming" /\ last[c] = "none"
               /\ frame.err = "truncated" => phase[c] = "ended"
               /\ got'[c] = got[c] \o Received(frame).msg
               /\ last'[c] = Received(frame).err
               /\ down'[c] = IF frame.err = "none" THEN AfterFrame(down[c]) ELSE <<>>
               /\ topics' = topics /\ pc' = pc /\ call' = call /\ result' = result /\ up' = up
               /\ phase' = phase /\ subject' = subject /\ asked' = asked /\ verdict' = verdict
               /\ step' = step /\ cursor' = cursor /\ todo' = todo /\ bufs' = bufs /\ head' = head
<1> USE DEF pushVars, streamVars, poolVars, readerVars, requestVars, brokerVars, clientVars,
            wireVars, serverVars
<1>1. QED
  BY Domains DEF Pull

\* A reader that has been given a message more, as the log has it.
LEMMA ReaderGoesOn ==
    ASSUME NEW c \in Conns, Reader(c), got[c] \in Seq(Piece), pc[c] = "streaming", pc'[c] = pc[c],
           Log(c)' = Log(c), Log(c) \in Seq(Entry), Len(got[c]) < Len(Log(c)),
           Log(c)[Len(got[c]) + 1].Payload \in Seq(Nat),
           got'[c] = got[c] \o <<[Offset |-> Len(got[c]),
                                  Payload |-> Log(c)[Len(got[c]) + 1].Payload]>>,
           last'[c] = "none"
    PROVE  Reader(c)' /\ Len(got'[c]) = Len(got[c]) + 1 /\ got'[c] \in Seq(Piece)
<1> DEFINE log == Log(c)
           i == Len(got[c])
           piece == [Offset |-> i, Payload |-> log[i + 1].Payload]
           g == got[c]
           h == got'[c]
<1>1. i \in Nat /\ Len(log) \in Nat /\ i < Len(log)
  BY LenProperties
<1>2. piece \in Piece
  BY <1>1 DEF Piece
<1>3. \A m \in DOMAIN g : g[m] = [Offset |-> m - 1, Payload |-> log[m].Payload]
  BY DEF Reader
<1>4. g \in Seq(Piece) /\ h = g \o <<piece>> /\ i = Len(g)
  OBVIOUS
<1>5. piece = [Offset |-> (i + 1) - 1, Payload |-> log[i + 1].Payload]
  BY <1>1
<1> HIDE DEF log, i, piece, g, h
<1> DEFINE S == Piece
<1> HIDE DEF S
<1>6. <<piece>> \in Seq(S) /\ Len(<<piece>>) = 1 /\ <<piece>>[1] = piece /\ g \in Seq(S)
  BY <1>2, <1>4 DEF S
<1>7. /\ h \in Seq(S) /\ Len(h) = i + 1
      /\ \A m \in 1 .. i : h[m] = g[m]
      /\ h[i + 1] = piece
  <2> DEFINE q == <<piece>>
  <2>1. q \in Seq(S) /\ Len(q) = 1 /\ q[1] = piece
    BY <1>6
  <2> HIDE DEF q
  <2>2. /\ g \o q \in Seq(S) /\ Len(g \o q) = Len(g) + Len(q)
        /\ \A m \in 1 .. Len(g) : (g \o q)[m] = g[m]
        /\ \A m \in 1 .. Len(q) : (g \o q)[Len(g) + m] = q[m]
    <3>1. g \in Seq(S) /\ q \in Seq(S)
      BY <1>6, <2>1
    <3>2. QED
      BY <3>1, ConcatBytes
  <2>3. h = g \o q
    BY <1>4 DEF q
  <2>4. QED
    BY <1>4, <2>1, <2>2, <2>3
<1>8. DOMAIN h = 1 .. i + 1 /\ DOMAIN g = 1 .. i
  BY <1>4, <1>6, <1>7, LenProperties
<1>9. ASSUME NEW m \in DOMAIN h PROVE h[m] = [Offset |-> m - 1, Payload |-> log[m].Payload]
  <2>1. CASE m = i + 1
    BY <2>1, <1>5, <1>7
  <2>2. CASE m # i + 1
    <3>1. m \in 1 .. i
      BY <1>1, <1>8, <2>2
    <3>2. QED
      BY <3>1, <1>3, <1>7, <1>8
  <2>3. QED
    BY <2>1, <2>2
<1>10. i + 1 <= Len(log)
  BY <1>1
<1>11. /\ pc'[c] # "streaming" => got'[c] = <<>> /\ last'[c] = "none"
       /\ Len(got'[c]) <= IF pc'[c] = "streaming" THEN Len(Log(c)') ELSE 0
       /\ \A m \in DOMAIN got'[c] :
             got'[c][m] = [Offset |-> m - 1, Payload |-> Log(c)'[m].Payload]
       /\ last'[c] \in {"none", "truncated", "toolarge"}
  BY <1>7, <1>9, <1>10 DEF h, log
<1>12. Reader(c)'
  BY <1>11, Zenon DEF Reader
<1>13. QED
  BY <1>7, <1>12 DEF h, i, S

\* A reader that is told an error.
LEMMA ReaderStops ==
    ASSUME NEW c \in Conns, Reader(c), pc[c] = "streaming", pc'[c] = pc[c],
           Log(c)' = Log(c), got'[c] = got[c], last'[c] \in {"truncated", "toolarge"}
    PROVE  Reader(c)'
<1>1. /\ Len(got[c]) <= Len(Log(c))
      /\ \A i \in DOMAIN got[c] :
            got[c][i] = [Offset |-> i - 1, Payload |-> Log(c)[i].Payload]
  BY DEF Reader
<1>2. QED
  BY <1>1 DEF Reader

\* Pull: the reader is given the next message, or the error that ends the stream.
LEMMA PullFine ==
    ASSUME Wire, LogsFit, NEW c \in Conns, Pull(c)
    PROVE  Exchange(c)' /\ Reader(c)' /\ got'[c] \in Seq(Piece)
<1> DEFINE x == down[c]
           frame == ReadFrame(x)
           y == AfterFrame(x)
           i == Len(got[c])
           log == Log(c)
<1>1. /\ pc[c] = "streaming" /\ last[c] = "none"
      /\ frame.err = "truncated" => phase[c] = "ended"
      /\ got'[c] = got[c] \o Received(frame).msg
      /\ last'[c] = Received(frame).err
      /\ down'[c] = IF frame.err = "none" THEN y ELSE <<>>
      /\ topics' = topics /\ pc' = pc /\ call' = call /\ up' = up
      /\ phase' = phase /\ subject' = subject /\ verdict' = verdict
      /\ step' = step /\ cursor' = cursor /\ todo' = todo /\ bufs' = bufs /\ head' = head
  BY PullOf
<1>2. Granted(c)
  BY <1>1, Connection, StreamingIsGranted
<1>3. /\ phase[c] \in {"push", "ended"} /\ up[c] = <<>> /\ x \in Seq(Nat)
      /\ call[c].op = OpSubscribe /\ verdict[c] = Answer("none")
      /\ subject[c] = call[c].topic /\ subject[c] \in DOMAIN topics
      /\ phase[c] = "push" =>
            Batch(c) /\ Pushing(log, step[c], x, Pending(c), i, Stand(c))
      /\ phase[c] = "ended" => Ended(log, x, i)
  BY <1>1, <1>2 DEF Granted, Behind
<1>4. log \in Seq(Entry) /\ Len(log) \in Nat /\ Len(log) < Power[Len64] /\ i \in Nat
      /\ got[c] \in Seq(Piece) /\ Reader(c)
  BY <1>3, Connection, LenProperties DEF LogsFit, Log, Wire, DataInv
<1>5. Log(c)' = log
  BY <1>1 DEF Log
<1>6. \A m \in 1 .. Len(log) : log[m].Payload \in Seq(Nat)
  <2> HIDE DEF log
  <2>1. \A m \in 1 .. Len(log) : log[m] \in Entry
    BY <1>4, ElementOfSeq
  <2>2. QED
    BY <2>1 DEF Entry
<1>7. Behind(c)' = down'[c]
  BY <1>1 DEF Behind
<1>8. Pending(c)' = Pending(c) /\ Stand(c)' = Stand(c) /\ (Batch(c) => Batch(c)')
  BY <1>1, PendingIs DEF Stand, Batch
<1> DEFINE piece == [Offset |-> i, Payload |-> log[i + 1].Payload]
           News == /\ i < Len(log) /\ frame.err = "none" /\ y \in Seq(Nat)
                   /\ Received(frame) = [err |-> "none", msg |-> <<piece>>]
<1>9. ASSUME News
      PROVE  /\ Reader(c)' /\ Len(got'[c]) = i + 1 /\ last'[c] = "none" /\ down'[c] = y
             /\ y \in Seq(Nat) /\ got'[c] \in Seq(Piece)
  <2>1. got'[c] = got[c] \o <<piece>> /\ last'[c] = "none" /\ down'[c] = y
    <3> HIDE DEF frame, piece
    <3>1. QED
      BY <1>1, <1>9
  <2>2. log[i + 1].Payload \in Seq(Nat)
    BY <1>4, <1>6, <1>9
  <2>3. QED
    BY <1>1, <1>4, <1>5, <1>9, <2>1, <2>2, ReaderGoesOn
<1>10. CASE phase[c] = "push"
  <2> DEFINE j == Stand(c)
             rest == Pending(c)
  <2>1. Pushing(log, step[c], x, rest, i, j) /\ rest \in Seq(Nat) /\ j \in Nat /\ frame.err # "truncated"
    BY <1>1, <1>3, <1>10, StreamData
  <2> HIDE DEF log, i, j, rest, x
  <2>2. /\ i < j /\ j <= Len(log) /\ frame.err = "none"
        /\ Received(frame) = [err |-> "none", msg |-> <<piece>>]
        /\ y \in Seq(Nat)
        /\ Pushing(log, step[c], y, rest, i + 1, j)
    BY <1>3, <1>4, <2>1, PushingIsRead
  <2>3. i < Len(log)
    BY <1>4, <2>1, <2>2
  <2>4. News
    BY <2>2, <2>3
  <2> HIDE DEF News, frame, y, piece
  <2>5. /\ Reader(c)' /\ Len(got'[c]) = i + 1 /\ last'[c] = "none" /\ down'[c] = y
        /\ y \in Seq(Nat) /\ got'[c] \in Seq(Piece)
    BY <1>9, <2>4
  <2>6. Pushing(Log(c)', step'[c], Behind(c)', Pending(c)', Len(got'[c]), Stand(c)')
    BY <1>1, <1>5, <1>7, <1>8, <2>2, <2>5 DEF j, rest
  <2>7. Granted(c)'
    BY <1>1, <1>3, <1>7, <1>8, <1>10, <2>5, <2>6 DEF Granted
  <2>8. QED
    BY <2>5, <2>7 DEF Exchange
<1>11. CASE phase[c] = "ended"
  <2> HIDE DEF log, i, x
  <2>1. \/ frame.err = "truncated"
        \/ /\ frame.err = "none" /\ y \in Seq(Nat)
           /\ Received(frame) = [err |-> "toolarge", msg |-> <<>>]
        \/ /\ frame.err = "none" /\ y \in Seq(Nat)
           /\ i < Len(log)
           /\ Received(frame) = [err |-> "none", msg |-> <<piece>>]
           /\ Ended(log, y, i + 1)
    BY <1>3, <1>4, <1>11, EndedIsRead
  <2>2. CASE \/ frame.err = "truncated"
             \/ /\ frame.err = "none" /\ y \in Seq(Nat)
                /\ Received(frame) = [err |-> "toolarge", msg |-> <<>>]
    <3>1. Received(frame).msg = <<>> /\ Received(frame).err \in {"truncated", "toolarge"}
          /\ (frame.err = "none" => y \in Seq(Nat))
      <4>1. CASE frame.err = "truncated"
        <5> HIDE DEF frame
        <5>1. Received(frame) = [err |-> frame.err, msg |-> <<>>]
          BY <4>1 DEF Received
        <5>2. QED
          BY <4>1, <5>1
      <4>2. CASE /\ frame.err = "none" /\ y \in Seq(Nat)
                 /\ Received(frame) = [err |-> "toolarge", msg |-> <<>>]
        BY <4>2
      <4>3. QED
        BY <2>2, <4>1, <4>2
    <3> HIDE DEF frame, y
    <3>2. got'[c] = got[c]
      <4>1. got[c] \o <<>> = got[c]
        BY <1>4, ConcatEmptySeq
      <4>2. got'[c] = got[c] \o <<>>
        BY <1>1, <3>1
      <4>3. QED
        BY <4>1, <4>2
    <3>3. last'[c] \in {"truncated", "toolarge"} /\ down'[c] \in Seq(Nat)
      BY <1>1, <3>1
    <3>4. Reader(c)'
      BY <1>1, <1>4, <1>5, <3>2, <3>3, ReaderStops DEF log
    <3>5. Granted(c)'
      BY <1>1, <1>3, <1>7, <1>11, <3>3 DEF Granted
    <3>6. QED
      BY <1>4, <3>2, <3>4, <3>5 DEF Exchange
  <2>3. CASE /\ frame.err = "none" /\ y \in Seq(Nat)
             /\ i < Len(log)
             /\ Received(frame) = [err |-> "none", msg |-> <<piece>>]
             /\ Ended(log, y, i + 1)
    <3>1. News
      BY <2>3
    <3>2. Ended(log, y, i + 1)
      BY <2>3
    <3> HIDE DEF News, frame, y, piece
    <3>3. /\ Reader(c)' /\ Len(got'[c]) = i + 1 /\ last'[c] = "none" /\ down'[c] = y
          /\ y \in Seq(Nat) /\ got'[c] \in Seq(Piece)
      BY <1>9, <3>1
    <3>4. Ended(Log(c)', Behind(c)', Len(got'[c]))
      BY <1>5, <1>7, <3>2, <3>3
    <3>5. Granted(c)'
      BY <1>1, <1>3, <1>7, <1>11, <3>3, <3>4 DEF Granted
    <3>6. QED
      BY <3>3, <3>5 DEF Exchange
  <2>4. QED
    BY <2>1, <2>2, <2>3
<1>12. QED
  BY <1>3, <1>10, <1>11

-----------------------------------------------------------------------------
\* The invariant of the wire

\* The steps: those of a connection, and those that touch none.
LEMMA NextIs ==
    ASSUME [Next]_vars
    PROVE  \/ \E c \in Conns : StepOf(c)
           \/ UNCHANGED <<clientVars, wireVars, serverVars, pushVars>>
<1>1. CASE UNCHANGED vars
  BY <1>1 DEF vars, requestVars
<1>2. CASE \E m \in Here.local : PublishLocally(m[1], m[2])
  BY <1>2 DEF PublishLocally
<1>3. CASE CloseBroker
  BY <1>3 DEF CloseBroker
<1>4. CASE \E c \in Conns : StepOf(c)
  BY <1>4
<1>5. QED
  BY <1>1, <1>2, <1>3, <1>4 DEF Next, StepOf

\* Every step leaves its connection in order ...
LEMMA StepFine ==
    ASSUME Wire, LogStep, LogsFit, NEW c \in Conns, StepOf(c)
    PROVE  Fine(c)
<1>1. CASE HandlerStep(c)
  BY <1>1, HandlerFine
<1>2. CASE StreamStep(c) \/ WriteFails(c)
  BY <1>2, StreamFine
<1>3. CASE Return(c) /\ UNCHANGED pushVars
  BY <1>3, ReturnFine
<1>4. CASE Pull(c)
  <2>1. Exchange(c)' /\ Reader(c)'
    BY <1>4, PullFine
  <2>2. /\ pc' = pc /\ call' = call /\ result' = result /\ asked' = asked /\ verdict' = verdict
    BY <1>4, PullOf
  <2>3. History(c)'
    BY <2>2, Connection, HistoryStays DEF Wire
  <2>4. QED
    BY <2>1, <2>3 DEF Fine
<1>5. CASE \E k \in Here.calls : Call(c, k) /\ UNCHANGED pushVars
  BY <1>5, CallFine
<1>6. CASE \/ \E header \in Here.forged : Forge(c, header) /\ UNCHANGED pushVars
           \/ \E b \in Noise : Scribble(c, b) /\ UNCHANGED pushVars
           \/ Leave(c) /\ UNCHANGED pushVars
  BY <1>6, ForeignFine
<1>7. QED
  BY <1>1, <1>2, <1>3, <1>4, <1>5, <1>6 DEF StepOf, ClientStep

\* ... and the others.
LEMMA SameFine ==
    ASSUME Wire, LogStep, scenario' = scenario, NEW c \in Conns, Same(c)
    PROVE  Fine(c)
<1>1. Exchange(c)'
  BY Connection, ExchangeStays DEF Wire
<1>2. Reader(c)' /\ History(c)'
  BY Connection, ReaderStays, HistoryStays DEF Same, Wire
<1>3. QED
  BY <1>1, <1>2 DEF Fine

\* Every step keeps every exchange in order.
LEMMA ExchangeNext ==
    ASSUME Wire, LogsFit, [Next]_vars
    PROVE  ExchangeInv'
<1>1. LogStep /\ scenario' = scenario
  BY NextLogs DEF Wire
<1>2. ASSUME NEW d \in Conns PROVE Fine(d)
  <2>1. CASE \E c \in Conns : StepOf(c)
    <3>1. PICK c \in Conns : StepOf(c)
      BY <2>1
    <3>2. CASE c = d
      BY <1>1, <3>1, <3>2, StepFine
    <3>3. CASE c # d
      BY <1>1, <3>1, <3>3, OthersSame, SameFine
    <3>4. QED
      BY <3>2, <3>3
  <2>2. CASE UNCHANGED <<clientVars, wireVars, serverVars, pushVars>>
    BY <1>1, <2>2, AllSame, SameFine
  <2>3. QED
    BY <2>1, <2>2, NextIs
<1>3. QED
  BY <1>2 DEF Fine, ExchangeInv

\* What each connection has one of.
Functions5 ==
    /\ asked = [d \in Conns |-> asked[d]]
    /\ verdict = [d \in Conns |-> verdict[d]]
    /\ result = [d \in Conns |-> result[d]]
    /\ down = [d \in Conns |-> down[d]]
    /\ last = [d \in Conns |-> last[d]]

\* What has a value for each connection still has one after a step.
LEMMA FunctionsNext ==
    ASSUME Functions5, [Next]_vars
    PROVE  Functions5'
<1> USE DEF pushVars, streamVars, poolVars, readerVars, requestVars, brokerVars, clientVars,
            wireVars, serverVars
<1>1. ASSUME NEW c \in Conns, StepOf(c) PROVE Functions5'
  <2>1. CASE Serve(c) /\ UNCHANGED pushVars
    <3> DEFINE frame == ReadFrame(up[c])
               u == Understood(frame.op, frame.payload)
               r == u.request
               a == Decision(u.err, r)
               more == down[c] \o Response(r.op, a.err,
                           IF a.err = "none" THEN ResponseBody(r, a) ELSE <<>>)
    <3>1. /\ asked' = IF u.err = "none" THEN [asked EXCEPT ![c] = r] ELSE asked
          /\ verdict' = [verdict EXCEPT ![c] = a]
          /\ down' = IF r.op = OpPublishNoAck THEN down ELSE [down EXCEPT ![c] = more]
          /\ result' = result /\ last' = last
      BY <2>1 DEF Serve
    <3> HIDE DEF more
    <3> HIDE DEF a
    <3> HIDE DEF r
    <3> HIDE DEF u
    <3>2. asked' = [d \in Conns |-> asked'[d]]
      BY <3>1 DEF Functions5
    <3>3. verdict' = [d \in Conns |-> verdict'[d]]
      BY <3>1 DEF Functions5
    <3>4. down' = [d \in Conns |-> down'[d]]
      BY <3>1 DEF Functions5
    <3>5. QED
      BY <3>1, <3>2, <3>3, <3>4 DEF Functions5
  <2>2. CASE Reject(c) /\ UNCHANGED pushVars
    <3> DEFINE frame == ReadFrame(up[c])
               a == Answer(frame.err)
               more == down[c] \o Response(0, "toolarge", <<>>)
    <3>1. /\ asked' = asked /\ verdict' = [verdict EXCEPT ![c] = a]
          /\ down' = IF frame.err = "toolarge" THEN [down EXCEPT ![c] = more] ELSE down
          /\ result' = result /\ last' = last
      BY <2>2 DEF Reject
    <3> HIDE DEF a, more, frame
    <3>2. verdict' = [d \in Conns |-> verdict'[d]]
      BY <3>1 DEF Functions5
    <3>3. down' = [d \in Conns |-> down'[d]]
      BY <3>1 DEF Functions5
    <3>4. QED
      BY <3>1, <3>2, <3>3 DEF Functions5
  <2>3. CASE Ignore(c) /\ UNCHANGED pushVars
    BY <2>3 DEF Ignore, Functions5
  <2>4. CASE ReadBatch(c) \/ StreamEnds(c) \/ BatchWritten(c) \/ \E h \in Headers : FillHeader(c, h)
    <3>1. asked' = asked /\ verdict' = verdict /\ result' = result /\ down' = down /\ last' = last
      BY <2>4 DEF ReadBatch, StreamEnds, BatchWritten, FillHeader
    <3>2. QED
      BY <3>1 DEF Functions5
  <2>5. CASE RefuseBatch(c) \/ WriteBuffer(c) \/ WriteFails(c)
    <3>1. \E x : down' = [down EXCEPT ![c] = down[c] \o x]
      BY <2>5 DEF RefuseBatch, WriteBuffer, WriteFails
    <3>2. asked' = asked /\ verdict' = verdict /\ result' = result /\ last' = last
      BY <2>5 DEF RefuseBatch, WriteBuffer, WriteFails
    <3>3. down' = [d \in Conns |-> down'[d]]
      BY <3>1 DEF Functions5
    <3>4. QED
      BY <3>2, <3>3 DEF Functions5
  <2>6. CASE Return(c) /\ UNCHANGED pushVars
    <3> DEFINE frame == ReadFrame(down[c])
               y == IF frame.err = "none" THEN AfterFrame(down[c]) ELSE <<>>
               m == Meaning(call[c], frame)
    <3>1. /\ down' = [down EXCEPT ![c] = y] /\ result' = [result EXCEPT ![c] = m]
          /\ asked' = asked /\ verdict' = verdict /\ last' = last
      BY <2>6 DEF Return
    <3> HIDE DEF y, m
    <3>2. down' = [d \in Conns |-> down'[d]]
      BY <3>1 DEF Functions5
    <3>3. result' = [d \in Conns |-> result'[d]]
      BY <3>1 DEF Functions5
    <3>4. QED
      BY <3>1, <3>2, <3>3 DEF Functions5
  <2>7. CASE Pull(c)
    <3> DEFINE frame == ReadFrame(down[c])
               y == IF frame.err = "none" THEN AfterFrame(down[c]) ELSE <<>>
               m == Received(frame).err
    <3>1. /\ down' = [down EXCEPT ![c] = y] /\ last' = [last EXCEPT ![c] = m]
          /\ asked' = asked /\ verdict' = verdict /\ result' = result
      BY <2>7 DEF Pull
    <3> HIDE DEF y, m
    <3>2. down' = [d \in Conns |-> down'[d]]
      BY <3>1 DEF Functions5
    <3>3. last' = [d \in Conns |-> last'[d]]
      BY <3>1 DEF Functions5
    <3>4. QED
      BY <3>1, <3>2, <3>3 DEF Functions5
  <2>8. CASE \E k \in Here.calls : Call(c, k) /\ UNCHANGED pushVars
    <3>1. \E x : result' = [result EXCEPT ![c] = x]
      BY <2>8 DEF Call
    <3>2. asked' = [asked EXCEPT ![c] = NoCall] /\ verdict' = [verdict EXCEPT ![c] = NoAnswer]
          /\ down' = down /\ last' = last
      BY <2>8 DEF Call
    <3>3. result' = [d \in Conns |-> result'[d]]
      BY <3>1 DEF Functions5
    <3>4. asked' = [d \in Conns |-> asked'[d]]
      BY <3>2 DEF Functions5
    <3>5. verdict' = [d \in Conns |-> verdict'[d]]
      BY <3>2 DEF Functions5
    <3>6. QED
      BY <3>2, <3>3, <3>4, <3>5 DEF Functions5
  <2>9. CASE \/ \E header \in Here.forged : Forge(c, header) /\ UNCHANGED pushVars
             \/ \E b \in Noise : Scribble(c, b) /\ UNCHANGED pushVars
             \/ Leave(c) /\ UNCHANGED pushVars
    BY <2>9 DEF Forge, Scribble, Leave, Functions5
  <2>10. QED
    BY <1>1, <2>1, <2>2, <2>3, <2>4, <2>5, <2>6, <2>7, <2>8, <2>9
       DEF StepOf, HandlerStep, StreamStep, ClientStep
<1>2. CASE UNCHANGED <<clientVars, wireVars, serverVars, pushVars>>
  BY <1>2 DEF Functions5
<1>3. QED
  BY <1>1, <1>2, NextIs

\* A step leaves a finite set of topics.
LEMMA TopicsNext ==
    ASSUME LogStep, IsFiniteSet(DOMAIN topics), DOMAIN topics \subseteq Seq(Nat)
    PROVE  IsFiniteSet(DOMAIN topics') /\ DOMAIN topics' \subseteq Seq(Nat)
<1>1. CASE topics' = topics
  BY <1>1
<1>2. ASSUME NEW t \in Seq(Nat),
             topics' = [u \in DOMAIN topics \union {t} |-> IF u = t THEN <<>> ELSE topics[u]]
      PROVE  IsFiniteSet(DOMAIN topics') /\ DOMAIN topics' \subseteq Seq(Nat)
  <2>1. DOMAIN topics' = DOMAIN topics \union {t}
    BY <1>2
  <2>2. IsFiniteSet(DOMAIN topics \union {t})
    BY FS_AddElement
  <2>3. QED
    BY <2>1, <2>2
<1>3. ASSUME NEW t \in DOMAIN topics, NEW payloads, NEW remote,
             topics' = [topics EXCEPT ![t] = @ \o Messages(payloads, remote)]
      PROVE  IsFiniteSet(DOMAIN topics') /\ DOMAIN topics' \subseteq Seq(Nat)
  <2>1. DOMAIN topics' = DOMAIN topics
    BY <1>3
  <2>2. QED
    BY <2>1
<1>4. QED
  BY <1>1, <1>2, <1>3 DEF LogStep

\* A connection that is no stream yet has not begun one.
LEMMA FreshNext ==
    ASSUME Wire, [Next]_vars, NEW d \in Conns, phase'[d] = "request"
    PROVE  step'[d] = "read" /\ cursor'[d] = 0 /\ bufs'[d] = <<>>
<1> USE DEF pushVars, streamVars, poolVars, readerVars, requestVars, brokerVars, clientVars,
            wireVars, serverVars
<1>1. ASSUME phase[d] = "request", step'[d] = step[d], cursor'[d] = cursor[d], bufs'[d] = bufs[d]
      PROVE  step'[d] = "read" /\ cursor'[d] = 0 /\ bufs'[d] = <<>>
  BY <1>1 DEF Wire, ConnsInv
<1>2. CASE UNCHANGED <<clientVars, wireVars, serverVars, pushVars>>
  BY <1>1, <1>2
<1>3. ASSUME NEW c \in Conns, StepOf(c), c # d
      PROVE  step'[d] = "read" /\ cursor'[d] = 0 /\ bufs'[d] = <<>>
  BY <1>1, <1>3, OthersApart DEF Apart
<1>4. CASE StepOf(d)
  <2>1. CASE HandlerStep(d)
    BY <1>1, <2>1, HandlerOf
  <2>2. CASE StreamStep(d) \/ WriteFails(d)
    <3>1. phase'[d] \in {"push", "ended"}
      <4>1. CASE ReadBatch(d) \/ WriteBuffer(d) \/ BatchWritten(d) \/ \E h \in Headers : FillHeader(d, h)
        BY <4>1 DEF ReadBatch, WriteBuffer, BatchWritten, FillHeader
      <4>2. CASE StreamEnds(d) \/ RefuseBatch(d) \/ WriteFails(d)
        BY <4>2, Domains DEF StreamEnds, RefuseBatch, WriteFails, End
      <4>3. QED
        BY <2>2, <4>1, <4>2 DEF StreamStep
    <3>2. QED
      BY <3>1
  <2>3. CASE Return(d) /\ UNCHANGED pushVars
    BY <1>1, <2>3, ReturnOf
  <2>4. CASE Pull(d)
    BY <1>1, <2>4, PullOf
  <2>5. CASE \E k \in Here.calls : Call(d, k) /\ UNCHANGED pushVars
    BY <1>1, <2>5 DEF Call
  <2>6. CASE \/ \E header \in Here.forged : Forge(d, header) /\ UNCHANGED pushVars
             \/ \E b \in Noise : Scribble(d, b) /\ UNCHANGED pushVars
             \/ Leave(d) /\ UNCHANGED pushVars
    BY <1>1, <2>6 DEF Forge, Scribble, Leave
  <2>7. QED
    BY <1>4, <2>1, <2>2, <2>3, <2>4, <2>5, <2>6 DEF StepOf, ClientStep
<1>5. QED
  BY <1>2, <1>3, <1>4, NextIs

\* The header that a stream fills in is one of numbers.
LEMMA HeadsNext ==
    ASSUME Wire, [Next]_vars
    PROVE  head' \in [Headers -> Seq(Nat)]
<1> USE DEF pushVars, streamVars, poolVars, readerVars, requestVars, brokerVars, clientVars,
            wireVars, serverVars
<1>1. head \in [Headers -> Seq(Nat)]
  BY DEF Wire, ConnsInv
<1>2. ASSUME NEW c \in Conns, NEW h \in Headers, FillHeader(c, h)
      PROVE  head' \in [Headers -> Seq(Nat)]
  <2> DEFINE i == Head(todo[c])
             log == topics[subject[c]]
             n == Len(Log(c)[Head(todo[c]) + 1].Payload)
  <2>1. /\ phase[c] = "push" /\ step[c] = "fill"
        /\ head' = [head EXCEPT ![h] = MessageHeader(i, n)]
    BY <1>2 DEF FillHeader
  <2>2. /\ todo[c] \in Seq(Nat) /\ todo[c] # <<>> /\ log \in Seq(Entry)
        /\ \A m \in DOMAIN todo[c] : todo[c][m] < Len(log)
    BY <2>1 DEF Wire, StreamInv, DataInv, Log
  <2>3. i \in Nat /\ i < Len(log) /\ Len(log) \in Nat
    <3>1. 1 \in DOMAIN todo[c] /\ i = todo[c][1]
      BY <2>2
    <3>2. QED
      BY <2>2, <3>1
  <2>4. log[i + 1] \in Entry
    <3> HIDE DEF log, i
    <3>1. i + 1 \in 1 .. Len(log)
      BY <2>3
    <3> DEFINE S == Entry
    <3> HIDE DEF S
    <3>2. log \in Seq(S)
      BY <2>2 DEF S
    <3>3. log[i + 1] \in S
      BY <3>1, <3>2, ElementOfSeq
    <3>4. QED
      BY <3>3 DEF S
  <2>5. n = Len(log[i + 1].Payload) /\ log[i + 1].Payload \in Seq(Nat)
    BY <2>4 DEF Log, Entry
  <2> HIDE DEF log, i, n
  <2>6. MessageHeader(i, n) \in Seq(Nat)
    BY <2>3, <2>5, PushFrameBytes
  <2>7. QED
    BY <1>1, <2>1, <2>6
<1>3. ASSUME NEW c \in Conns, StepOf(c), ~ \E h \in Headers : FillHeader(c, h)
      PROVE  head' = head
  BY <1>3 DEF StepOf, HandlerStep, StreamStep, ClientStep, ReadBatch, StreamEnds, RefuseBatch,
     WriteBuffer, BatchWritten, WriteFails, Pull
<1>4. QED
  BY <1>1, <1>2, <1>3, NextIs

\* What is read are messages.
LEMMA PiecesNext ==
    ASSUME Wire, LogsFit, [Next]_vars
    PROVE  got' \in [Conns -> Seq(Piece)]
<1> USE DEF pushVars, streamVars, poolVars, readerVars, requestVars, brokerVars, clientVars,
            wireVars, serverVars
<1>1. got \in [Conns -> Seq(Piece)]
  BY DEF Wire, ConnsInv
<1>2. ASSUME NEW c \in Conns, Pull(c) PROVE got' \in [Conns -> Seq(Piece)]
  <2> DEFINE x == got[c] \o Received(ReadFrame(down[c])).msg
             S == Seq(Piece)
  <2>1. got' = [got EXCEPT ![c] = x]
    BY <1>2 DEF Pull
  <2>2. got'[c] \in S
    BY <1>2, PullFine
  <2>3. got \in [Conns -> S]
    BY <1>1
  <2> HIDE DEF x, S
  <2>4. got' \in [Conns -> S]
    BY <2>1, <2>2, <2>3
  <2>5. QED
    BY <2>4 DEF S
<1>3. ASSUME NEW c \in Conns, StepOf(c), ~ Pull(c) PROVE got' = got
  BY <1>3 DEF StepOf, HandlerStep, StreamStep, ClientStep, ReadBatch, StreamEnds, RefuseBatch,
     WriteBuffer, BatchWritten, WriteFails, FillHeader
<1>4. QED
  BY <1>1, <1>2, <1>3, NextIs

\* The last call is one of the scenario.
LEMMA CallsNext ==
    ASSUME Wire, [Next]_vars
    PROVE  call' \in [Conns -> Here'.calls \union {NoCall}]
<1> USE DEF pushVars, streamVars, poolVars, readerVars, requestVars, brokerVars, clientVars,
            wireVars, serverVars
<1>1. call \in [Conns -> Here.calls \union {NoCall}] /\ Here' = Here
  BY NextLogs DEF Wire, ConnsInv, Here
<1>2. ASSUME NEW c \in Conns, NEW k \in Here.calls, Call(c, k)
      PROVE  call' \in [Conns -> Here.calls \union {NoCall}]
  <2>1. call' = [call EXCEPT ![c] = k]
    BY <1>2 DEF Call
  <2>2. QED
    BY <1>1, <2>1
<1>3. ASSUME NEW c \in Conns, StepOf(c), ~ \E k \in Here.calls : Call(c, k) PROVE call' = call
  BY <1>3 DEF StepOf, HandlerStep, StreamStep, ClientStep, ReadBatch, StreamEnds, RefuseBatch,
     WriteBuffer, BatchWritten, WriteFails, FillHeader, Pull, Serve, Reject, Ignore, Return,
     Forge, Scribble, Leave
<1>4. QED
  BY <1>1, <1>2, <1>3, NextIs

\* What the connections have keeps its form.
LEMMA ConnsNext ==
    ASSUME Wire, LogsFit, [Next]_vars
    PROVE  ConnsInv'
<1>1. Functions5'
  BY FunctionsNext DEF Wire, ConnsInv, Functions5
<1>2. IsFiniteSet(DOMAIN topics') /\ DOMAIN topics' \subseteq Seq(Nat)
  BY NextLogs, TopicsNext DEF Wire, ConnsInv
<1>3. \A c \in Conns : phase'[c] = "request" => step'[c] = "read" /\ cursor'[c] = 0 /\ bufs'[c] = <<>>
  BY FreshNext
<1>4. /\ call' \in [Conns -> Here'.calls \union {NoCall}]
      /\ got' \in [Conns -> Seq(Piece)]
      /\ head' \in [Headers -> Seq(Nat)]
  BY CallsNext, PiecesNext, HeadsNext
<1>5. QED
  BY <1>1, <1>2, <1>3, <1>4, Zenon DEF ConnsInv, Functions5

\* In the beginning there is no call and no header is in use.
LEMMA WireInit == PushInit => Wire
<1> SUFFICES ASSUME PushInit PROVE Wire
  OBVIOUS
<1>1. DataInv /\ StreamInv /\ PoolInv
  BY DataInit
<1>2. HeadersExclusive
  BY DEF PushInit, HeadersExclusive
<1>3. \A S : <<>> \in Seq(S)
  OBVIOUS
<1>4. ConnsInv
  <2>1. DOMAIN topics = Here.topics /\ scenario \in DOMAIN Scenarios
    BY DEF PushInit, Init
  <2>2. IsFiniteSet(DOMAIN topics) /\ DOMAIN topics \subseteq Seq(Nat)
    BY <2>1, RequestsAssumption, ScenarioData DEF Here
  <2>3. /\ call \in [Conns -> Here.calls \union {NoCall}]
        /\ got \in [Conns -> Seq(Piece)]
        /\ head \in [Headers -> Seq(Nat)]
    BY <1>3 DEF PushInit, Init
  <2>4. Functions5
    BY DEF PushInit, Init, Functions5
  <2>5. \A c \in Conns : phase[c] = "request" => step[c] = "read" /\ cursor[c] = 0 /\ bufs[c] = <<>>
    BY DEF PushInit, Init
  <2>6. QED
    BY <2>2, <2>3, <2>4, <2>5, Zenon DEF ConnsInv, Functions5
<1>5. ASSUME NEW c \in Conns PROVE Exchange(c) /\ Reader(c) /\ History(c)
  <2>1. /\ pc[c] = "idle" /\ phase[c] = "request" /\ up[c] = <<>> /\ down[c] = <<>>
        /\ got[c] = <<>> /\ last[c] = "none" /\ call[c] = NoCall /\ asked[c] = NoCall
        /\ verdict[c] = NoAnswer /\ result[c] = NoAnswer
    BY DEF PushInit, Init
  <2>2. Exchange(c)
    BY <2>1 DEF Exchange, Resting
  <2>3. Reader(c)
    <3>1. Len(got[c]) = 0 /\ DOMAIN got[c] = {}
      BY <2>1
    <3>2. QED
      BY <2>1, <3>1 DEF Reader
  <2>4. NoAnswer.err = "pending" /\ NoAnswer = [err |-> NoAnswer.err, offset |-> NoAnswer.offset,
                                                names |-> NoAnswer.names]
    BY DEF NoAnswer
  <2>5. History(c)
    BY <2>1, <2>4, Zenon DEF History
  <2>6. QED
    BY <2>2, <2>3, <2>5
<1>6. QED
  BY <1>1, <1>2, <1>4, <1>5 DEF Wire, ExchangeInv

-----------------------------------------------------------------------------
\* What a subscriber and a caller are told: the theorems

\* The inductive invariant: what is on the wire is in order as long as every
\* log has offsets that fit in their field.
Inductive ==
    /\ DataInv /\ StreamInv /\ PoolInv /\ HeadersExclusive
    /\ LogsFit => ConnsInv /\ ExchangeInv

\* A log that is too long stays too long.
LEMMA LogsFitBefore ==
    ASSUME DataInv, [Next]_vars, LogsFit'
    PROVE  LogsFit
<1>1. LogStep
  BY NextLogs
<1>2. ASSUME NEW t \in DOMAIN topics PROVE Len(topics[t]) < Power[Len64]
  <2>1. /\ t \in DOMAIN topics' /\ Grows(topics[t], topics'[t])
        /\ topics[t] \in Seq(Entry) /\ topics'[t] \in Seq(Entry)
    BY <1>1, <1>2, LogsGrow DEF DataInv
  <2>2. Len(topics[t]) <= Len(topics'[t])
    BY <2>1 DEF Grows
  <2>3. Len(topics'[t]) < Power[Len64]
    BY <2>1 DEF LogsFit
  <2>4. Power[Len64] \in Nat
    BY Powers, CodecAssumption
  <2>5. QED
    BY <2>1, <2>2, <2>3, <2>4
<1>3. QED
  BY <1>2 DEF LogsFit

\* It holds in the beginning and every step keeps it.
LEMMA InductiveHolds == Spec => []Inductive
<1>1. PushInit => Inductive
  BY WireInit DEF Wire, Inductive
<1>2. Inductive /\ [Next]_vars => Inductive'
  <2> SUFFICES ASSUME Inductive, [Next]_vars PROVE Inductive'
    OBVIOUS
  <2>1. DataInv /\ StreamInv /\ PoolInv /\ HeadersExclusive
    BY DEF Inductive
  <2>2. DataInv' /\ StreamInv' /\ PoolInv' /\ HeadersExclusive'
    BY <2>1, DataNext, StreamNext, PoolNext
  <2>3. ASSUME LogsFit' PROVE ConnsInv' /\ ExchangeInv'
    <3>1. LogsFit
      BY <2>1, <2>3, LogsFitBefore
    <3>2. Wire
      BY <2>1, <3>1 DEF Inductive, Wire
    <3>3. QED
      BY <3>1, <3>2, ConnsNext, ExchangeNext
  <2>4. QED
    BY <2>2, <2>3 DEF Inductive
<1>3. QED
  BY <1>1, <1>2, PTL DEF Spec

\* Nothing left to read and nothing left to write: all of the log has been read.
LEMMA RestIsComplete ==
    ASSUME Wire, NEW c \in Conns, AtRest(c), last[c] = "none"
    PROVE  Len(got[c]) = Len(Log(c))
<1>1. /\ pc[c] = "streaming" /\ phase[c] = "push" /\ down[c] = <<>>
      /\ step[c] = "read" /\ cursor[c] = Len(Log(c))
  BY DEF AtRest
<1> DEFINE i == Len(got[c])
           j == Stand(c)
           log == Log(c)
<1>2. /\ Batch(c) /\ Pushing(log, "read", Behind(c), Pending(c), i, j)
      /\ Behind(c) \in Seq(Nat) /\ Pending(c) \in Seq(Nat)
      /\ log \in Seq(Entry) /\ Len(log) \in Nat /\ i \in Nat /\ j \in Nat
      /\ cursor[c] \in Nat
  BY <1>1, StreamData
<1>3. Behind(c) = <<>>
  BY <1>1 DEF Behind
<1>4. j = Len(log)
  <2>1. todo[c] = <<>>
    BY <1>1, <1>2 DEF Batch
  <2>2. Len(todo[c]) = 0
    BY <2>1
  <2>3. QED
    BY <1>1, <1>2, <2>2 DEF Stand
<1> HIDE DEF i, j, log
<1>5. Pending(c) = <<>> /\ i <= j /\ j <= Len(log)
      /\ Behind(c) \o Pending(c) = Frames(log, i, j)
  BY <1>2 DEF Pushing
<1>6. Frames(log, i, j) = <<>>
  BY <1>3, <1>5
<1>7. ~(i < j)
  BY <1>2, <1>5, <1>6, FramesUnfold
<1>8. i = j
  BY <1>2, <1>5, <1>7
<1>9. QED
  BY <1>4, <1>8 DEF i, log

\* What a call returns is what the two histories say.
LEMMA ResultIsTrue ==
    ASSUME NEW c \in Conns, History(c), pc[c] \in {"idle", "waiting", "streaming"},
           call[c].op # OpPublishNoAck, result[c].err = "none"
    PROVE  verdict[c].err = "none" /\ result[c].offset = verdict[c].offset
<1> DEFINE v == verdict[c]
<1>1. pc[c] # "waiting"
  <2>1. NoAnswer.err = "pending"
    BY DEF NoAnswer
  <2>2. QED
    BY <2>1 DEF History
<1>2. v # NoAnswer
  BY DEF History
<1>3. /\ result[c] = Reported(v)
      /\ v = [err |-> v.err, offset |-> v.offset, names |-> v.names]
  BY <1>1, <1>2 DEF History
<1> HIDE DEF v
<1>4. /\ Reported(v).err = IF v.err \in Sentinels THEN v.err ELSE "text"
      /\ Reported(v).offset = v.offset
  <2> DEFINE e == v.err
             o == v.offset
             n == v.names
  <2> HIDE DEF e, o, n
  <2>1. v = [err |-> e, offset |-> o, names |-> n]
    BY <1>3 DEF e, o, n
  <2>2. /\ [[err |-> e, offset |-> o, names |-> n]
              EXCEPT !.err = IF @ \in Sentinels THEN @ ELSE "text"].err
           = IF e \in Sentinels THEN e ELSE "text"
        /\ [[err |-> e, offset |-> o, names |-> n]
              EXCEPT !.err = IF @ \in Sentinels THEN @ ELSE "text"].offset = o
    OBVIOUS
  <2>3. QED
    BY <2>1, <2>2, Zenon DEF Reported, e, o
<1>5. v.err = "none"
  BY <1>3, <1>4
<1>6. QED
  BY <1>3, <1>4, <1>5 DEF v

\* A call is carried out.
LEMMA HistoryCarries ==
    ASSUME ExchangeInv, DataInv
    PROVE  CallIsCarriedOut
<1>1. ASSUME NEW c \in Conns, pc[c] \notin {"forging", "gone"}
      PROVE  LET k == call[c]
                 publishes == k.op \in {OpPublish, OpPublishBatch}
             IN  /\ asked[c] # NoCall => asked[c] = [k EXCEPT !.lib = TRUE]
                 /\ pc[c] \in {"idle", "streaming"} /\ verdict[c] # NoAnswer /\ k.op # OpPublishNoAck =>
                       result[c] = [verdict[c] EXCEPT !.err = IF @ \in Sentinels THEN @ ELSE "text"]
                 /\ result[c].err = "none" /\ k.op \notin {OpPublishNoAck, OpListTopics} =>
                       k.topic \in DOMAIN topics
                 /\ result[c].err = "none" /\ publishes =>
                       SubSeq(topics[k.topic], result[c].offset + 1,
                              result[c].offset + Len(k.payloads))
                           = Messages(k.payloads, TRUE)
  <2> DEFINE k == call[c]
             v == verdict[c]
  <2>1. History(c) /\ pc[c] \in {"idle", "waiting", "streaming"}
    BY <1>1 DEF ExchangeInv, DataInv
  <2>2. asked[c] # NoCall => asked[c] = [k EXCEPT !.lib = TRUE]
    BY <1>1, <2>1 DEF History
  <2>3. ASSUME pc[c] \in {"idle", "streaming"}, v # NoAnswer, k.op # OpPublishNoAck
        PROVE  result[c] = [v EXCEPT !.err = IF @ \in Sentinels THEN @ ELSE "text"]
    BY <1>1, <2>1, <2>3 DEF History, Reported
  <2>4. ASSUME result[c].err = "none", k.op \notin {OpPublishNoAck, OpListTopics}
        PROVE  k.topic \in DOMAIN topics
    <3>1. v.err = "none"
      BY <2>1, <2>4, ResultIsTrue
    <3>2. QED
      BY <1>1, <2>1, <2>4, <3>1 DEF History
  <2>5. ASSUME result[c].err = "none", k.op \in {OpPublish, OpPublishBatch}
        PROVE  SubSeq(topics[k.topic], result[c].offset + 1, result[c].offset + Len(k.payloads))
                   = Messages(k.payloads, TRUE)
    <3>1. k.op # OpPublishNoAck
      BY <2>5 DEF OpPublish, OpPublishBatch, OpPublishNoAck
    <3>2. v.err = "none" /\ result[c].offset = v.offset
      BY <2>1, <2>5, <3>1, ResultIsTrue
    <3>3. SubSeq(topics[k.topic], v.offset + 1, v.offset + Len(k.payloads))
              = Messages(k.payloads, TRUE)
      BY <1>1, <2>1, <2>5, <3>2 DEF History
    <3>4. QED
      BY <3>2, <3>3
  <2>6. QED
    BY <2>2, <2>3, <2>4, <2>5, Zenon
<1>2. QED
  BY <1>1, Zenon DEF CallIsCarriedOut

\* A subscriber reads the log from its beginning, each message once and in
\* order; a torn frame is an error to it, and what it has read is all there is
\* when nothing is left on the wire (Server.stream, WriteMessageBatch, Subscription.Read).
THEOREM Pushes == Spec => [](LogsFit => PushedIsLog)
<1>1. Inductive => (LogsFit => PushedIsLog)
  <2> SUFFICES ASSUME Inductive, LogsFit PROVE PushedIsLog
    OBVIOUS
  <2>1. Wire
    BY DEF Inductive, Wire
  <2>2. ASSUME NEW c \in Conns
        PROVE  /\ \A i \in DOMAIN got[c] :
                     got[c][i] = [Offset |-> i - 1, Payload |-> Log(c)[i].Payload]
               /\ last[c] \in {"none", "truncated", "toolarge"}
    BY <2>1, Connection DEF Reader
  <2>3. \A c \in Conns : AtRest(c) /\ last[c] = "none" => Len(got[c]) = Len(Log(c))
    BY <2>1, RestIsComplete
  <2>4. QED
    BY <2>2, <2>3 DEF PushedIsLog
<1>2. QED
  BY <1>1, InductiveHolds, PTL

\* A request is understood as it was meant, the caller is told what the server
\* decided, and what it was told is there: the payloads at the offsets of the
\* answer (handleConn, respond, roundTripWriteLocked, remoteError).
THEOREM Carries == Spec => [](LogsFit => CallIsCarriedOut)
<1>1. Inductive => (LogsFit => CallIsCarriedOut)
  BY HistoryCarries DEF Inductive
<1>2. QED
  BY <1>1, InductiveHolds, PTL

-----------------------------------------------------------------------------
\* A topic and its remote subscribers are a broadcast log

RemoteOpen(t) == open \/ \E c \in Conns : Following(c, t)

\* Connection c is to topic t what it was.
Steady(c, t) ==
    /\ StatusOf(c, t)' = StatusOf(c, t) /\ Delivered(c, t)' = Delivered(c, t)
    /\ Following(c, t)' <=> Following(c, t)

\* Its subscribers are what they were, as far as the abstract log shows.
LEMMA RemoteSame ==
    ASSUME NEW t, Content(t)' = Content(t), RemoteOpen(t)' <=> RemoteOpen(t),
           \A c \in Conns : StatusOf(c, t)' = StatusOf(c, t) /\ Delivered(c, t)' = Delivered(c, t)
    PROVE  UNCHANGED RemoteLog(t)!vars
<1>1. [c \in Conns |-> StatusOf(c, t)]' = [c \in Conns |-> StatusOf(c, t)]
  OBVIOUS
<1>2. [c \in Conns |-> Delivered(c, t)]' = [c \in Conns |-> Delivered(c, t)]
  OBVIOUS
<1>3. RemoteOpen(t)' = RemoteOpen(t)
  BY Zenon DEF RemoteOpen
<1>4. QED
  BY <1>1, <1>2, <1>3, Zenon DEF RemoteLog!vars, RemoteOpen

LEMMA SteadyOpen ==
    ASSUME NEW t, open' = open, \A c \in Conns : Steady(c, t)
    PROVE  RemoteOpen(t)' <=> RemoteOpen(t)
BY DEF RemoteOpen, Steady

LEMMA ApartSteady ==
    ASSUME NEW c \in Conns, NEW t, Apart(c)
    PROVE  Steady(c, t)
BY DEF Apart, Steady, StatusOf, Delivered, Following

\* A subscription is followed that was granted.
LEMMA FollowingIsGranted ==
    ASSUME NEW c \in Conns, NEW t, Exchange(c), Following(c, t)
    PROVE  Granted(c) /\ subject[c] = t /\ last[c] = "none"
BY DEF Following, Exchange, Resting, Sent, Answered, Ignored, Rejected, Answer, NoAnswer

LEMMA StreamingFollows ==
    ASSUME NEW c \in Conns, NEW t, Exchange(c), pc[c] = "streaming", subject[c] = t,
           last[c] = "none"
    PROVE  Following(c, t)
BY StreamingIsGranted DEF Granted, Following, Answer, NoAnswer

LEMMA NoPayloads == PayloadsIn(<<>>) = <<>>
BY DEF PayloadsIn

\* A connection that is no stream has been given nothing.
LEMMA NewHasNothing ==
    ASSUME Wire, NEW c \in Conns, NEW t, pc[c] # "streaming"
    PROVE  StatusOf(c, t) = "new" /\ Delivered(c, t) = <<>> /\ got[c] = <<>> /\ last[c] = "none"
<1>1. got[c] = <<>> /\ last[c] = "none"
  BY Connection DEF Reader
<1>2. QED
  BY <1>1, NoPayloads DEF StatusOf, Delivered

\* Nothing is granted behind the close of the broker.
LEMMA GrantNeedsOpen ==
    ASSUME NEW err, NEW r, Decision(err, r).err = "none"
    PROVE  open
<1> SUFFICES ASSUME ~open PROVE FALSE
  OBVIOUS
<1>1. Reason(r) = "closed"
  BY DEF Reason
<1>2. CASE err # "none"
  BY <1>2 DEF Decision, Answer, NoAnswer
<1>3. CASE err = "none" /\ ~Pushable(r.payloads)
  BY <1>3 DEF Decision, Answer, NoAnswer
<1>4. CASE err = "none" /\ Pushable(r.payloads)
  <2>1. Decision(err, r) = Answer("closed")
    BY <1>1, <1>4 DEF Decision
  <2>2. QED
    BY <2>1 DEF Answer, NoAnswer
<1>5. QED
  BY <1>2, <1>3, <1>4

\* The handler: it is a subscription that it may begin, or a publish, as long as
\* the broker is open.
LEMMA HandlerRemote ==
    ASSUME Wire, NEW c \in Conns, NEW t, HandlerStep(c)
    PROVE  /\ StatusOf(c, t)' = StatusOf(c, t) /\ Delivered(c, t)' = Delivered(c, t)
           /\ ~Following(c, t) /\ open' = open
           /\ Following(c, t)' \/ topics' # topics => open
<1>1. /\ phase[c] = "request" /\ pc' = pc /\ got' = got /\ last' = last /\ open' = open
  BY HandlerOf
<1>2. ~Following(c, t)
  BY <1>1 DEF Following
<1>3. pc[c] # "streaming" /\ pc'[c] # "streaming"
  BY <1>1, Connection, StreamingIsGranted DEF Granted
<1>4. StatusOf(c, t) = "new" /\ Delivered(c, t) = <<>> /\ got[c] = <<>> /\ last[c] = "none"
  BY <1>3, NewHasNothing
<1>5. StatusOf(c, t)' = "new"
  BY <1>3 DEF StatusOf
<1>6. Delivered(c, t)' = <<>>
  BY <1>1, <1>4, NoPayloads DEF Delivered
<1>7. ASSUME Following(c, t)' \/ topics' # topics PROVE open
  <2>1. c \in DOMAIN phase /\ c \in DOMAIN verdict
    BY Domains
  <2>2. CASE Serve(c)
    <3> DEFINE understood == Understood(ReadFrame(up[c]).op, ReadFrame(up[c]).payload)
               answer == Decision(understood.err, understood.request)
    <3>1. answer.err # "none" => topics' = topics /\ phase' = phase
      BY <2>2 DEF Serve
    <3>2. phase' = phase => ~Following(c, t)'
      BY <1>1 DEF Following
    <3>3. answer.err = "none"
      BY <1>7, <3>1, <3>2
    <3>4. QED
      BY <3>3, GrantNeedsOpen
  <2>3. CASE Reject(c)
    <3>1. verdict'[c] = Answer(ReadFrame(up[c]).err) /\ ReadFrame(up[c]).err # "none"
          /\ topics' = topics
      BY <2>1, <2>3 DEF Reject, brokerVars
    <3>2. verdict'[c].err # "none"
      BY <3>1 DEF Answer, NoAnswer
    <3>3. QED
      BY <1>7, <3>1, <3>2 DEF Following
  <2>4. CASE Ignore(c)
    BY <1>1, <1>7, <2>4 DEF Ignore, serverVars, brokerVars, Following
  <2>5. QED
    BY <2>2, <2>3, <2>4 DEF HandlerStep
<1>8. QED
  BY <1>1, <1>2, <1>4, <1>5, <1>6, <1>7

\* A stream, also one whose write fails, reads and writes: nobody has seen anything yet.
LEMMA StreamRemote ==
    ASSUME Wire, NEW c \in Conns, NEW t, StreamStep(c) \/ WriteFails(c)
    PROVE  Steady(c, t) /\ topics' = topics /\ open' = open
<1> USE DEF pushVars, streamVars, poolVars, readerVars, requestVars, brokerVars, clientVars,
            wireVars, serverVars
<1>1. /\ pc' = pc /\ got' = got /\ last' = last /\ subject' = subject /\ verdict' = verdict
      /\ topics' = topics /\ open' = open
      /\ phase[c] = "push" /\ phase'[c] # "request"
  <2>1. c \in DOMAIN phase
    BY Domains
  <2>2. CASE ReadBatch(c) \/ StreamEnds(c)
    BY <2>1, <2>2 DEF ReadBatch, StreamEnds, End
  <2>3. CASE RefuseBatch(c) \/ WriteBuffer(c)
    BY <2>1, <2>3 DEF RefuseBatch, WriteBuffer, End
  <2>4. CASE BatchWritten(c) \/ \E h \in Headers : FillHeader(c, h)
    BY <2>1, <2>4 DEF BatchWritten, FillHeader
  <2>5. CASE WriteFails(c)
    BY <2>1, <2>5 DEF WriteFails, End
  <2>6. QED
    BY <2>2, <2>3, <2>4, <2>5 DEF StreamStep
<1>2. QED
  BY <1>1 DEF Steady, StatusOf, Delivered, Following

\* A call, or a peer that is no client, is no subscription.
LEMMA OtherRemote ==
    ASSUME Wire, NEW c \in Conns, NEW t, UNCHANGED pushVars,
           \/ \E k \in Here.calls : Call(c, k)
           \/ \E header \in Here.forged : Forge(c, header)
           \/ \E b \in Noise : Scribble(c, b)
           \/ Leave(c)
    PROVE  Steady(c, t) /\ topics' = topics /\ open' = open
<1> USE DEF pushVars, streamVars, poolVars, readerVars, requestVars, brokerVars, clientVars,
            wireVars, serverVars
<1>1. c \in DOMAIN pc /\ c \in DOMAIN verdict
  BY Domains
<1>2. /\ got' = got /\ last' = last /\ subject' = subject /\ topics' = topics /\ open' = open
      /\ pc[c] \in {"idle", "forging"} /\ pc'[c] \in {"idle", "waiting", "forging", "gone"}
      /\ verdict'[c] = NoAnswer \/ pc'[c] \in {"forging", "gone"}
  <2>1. CASE \E k \in Here.calls : Call(c, k)
    BY <1>1, <2>1 DEF Call
  <2>2. CASE \/ \E header \in Here.forged : Forge(c, header)
             \/ \E b \in Noise : Scribble(c, b)
             \/ Leave(c)
    BY <1>1, <2>2 DEF Forge, Scribble, Leave
  <2>3. QED
    BY <2>1, <2>2
<1>3. ~Following(c, t) /\ ~Following(c, t)'
  BY <1>2 DEF Following, NoAnswer
<1>4. QED
  BY <1>2, <1>3 DEF Steady, StatusOf, Delivered

\* Return: the subscription begins that was granted.
LEMMA ReturnRemote ==
    ASSUME Wire, NEW c \in Conns, NEW t, Return(c), UNCHANGED pushVars
    PROVE  /\ topics' = topics /\ open' = open
           /\ Following(c, t)' <=> Following(c, t)
           /\ Delivered(c, t)' = Delivered(c, t)
           /\ \/ StatusOf(c, t)' = StatusOf(c, t)
              \/ StatusOf(c, t) = "new" /\ StatusOf(c, t)' = "live" /\ Following(c, t)
<1>1. /\ pc[c] = "waiting" /\ pc'[c] \in {"streaming", "idle"}
      /\ topics' = topics /\ phase' = phase /\ subject' = subject /\ verdict' = verdict
      /\ got' = got /\ last' = last
  BY ReturnOf
<1>2. open' = open
  BY DEF Return, brokerVars
<1>3. Exchange(c) /\ Exchange(c)'
  BY Connection, ReturnFine DEF Fine
<1>4. last[c] = "none"
  BY <1>1, NewHasNothing
<1>5. Delivered(c, t)' = Delivered(c, t)
  BY <1>1 DEF Delivered
<1>6. ASSUME Following(c, t) PROVE pc'[c] = "streaming" /\ Following(c, t)'
  <2>1. phase'[c] # "request" /\ verdict'[c] = Answer("none")
    BY <1>1, <1>3, <1>6, FollowingIsGranted DEF Granted, Following
  <2>2. verdict'[c] # Answer("toolarge")
    BY <2>1 DEF Answer, NoAnswer
  <2>3. Granted(c)'
    BY <1>1, <1>3, <2>1, <2>2 DEF Exchange, Resting, Sent, Answered, Ignored, Rejected
  <2>4. pc'[c] = "streaming"
    BY <1>1, <2>3 DEF Granted
  <2>5. QED
    BY <1>1, <1>6, <2>4 DEF Following
<1>7. ASSUME pc'[c] = "streaming", subject[c] = t PROVE Following(c, t)
  <2>1. Granted(c)'
    BY <1>3, <1>7 DEF Exchange, Resting, Sent, Answered, Ignored, Rejected
  <2>2. phase[c] # "request" /\ verdict[c] = Answer("none")
    BY <1>1, <2>1 DEF Granted
  <2>3. QED
    BY <1>1, <1>4, <1>7, <2>2 DEF Following, Answer, NoAnswer
<1>8. Following(c, t)' => Following(c, t)
  BY <1>1, <1>7 DEF Following
<1>9. StatusOf(c, t) = "new"
  BY <1>1 DEF StatusOf
<1>10. CASE pc'[c] = "streaming" /\ subject[c] = t
  <2>1. StatusOf(c, t)' = "live"
    BY <1>1, <1>4, <1>10 DEF StatusOf
  <2>2. QED
    BY <1>1, <1>2, <1>5, <1>6, <1>7, <1>8, <1>9, <1>10, <2>1
<1>11. CASE ~(pc'[c] = "streaming" /\ subject[c] = t)
  <2>1. StatusOf(c, t)' = "new"
    BY <1>1, <1>11 DEF StatusOf
  <2>2. QED
    BY <1>1, <1>2, <1>5, <1>6, <1>8, <1>9, <2>1
<1>12. QED
  BY <1>10, <1>11

\* What is read is one message, or an error.
LEMMA ReceivedIsOne ==
    ASSUME NEW frame
    PROVE  IF Received(frame).err = "none" THEN \E m : Received(frame).msg = <<m>>
           ELSE Received(frame).msg = <<>>
<1>1. \A code : RemoteError(code) # "none"
  BY DEF RemoteError
<1>2. \A p : ErrorIn(p) # "none"
  BY <1>1 DEF ErrorIn
<1>3. IF Pushed(frame).err = "none" THEN \E m : Pushed(frame).msg = <<m>>
      ELSE Pushed(frame).msg = <<>>
  <2>1. CASE DecodeMessage(frame.payload).err # "none"
    BY <2>1 DEF Pushed
  <2>2. CASE DecodeMessage(frame.payload).err = "none"
    BY <2>2 DEF Pushed
  <2>3. QED
    BY <2>1, <2>2
<1>4. CASE frame.err # "none"
  BY <1>4 DEF Received
<1>5. CASE frame.err = "none" /\ frame.op = OpMessage
  <2>1. Received(frame) = Pushed(frame)
    BY <1>5 DEF Received, OpMessage, OpError
  <2>2. QED
    BY <1>3, <2>1
<1>6. CASE frame.err = "none" /\ frame.op = OpError
  <2>1. Received(frame) = [err |-> ErrorIn(frame.payload), msg |-> <<>>]
    BY <1>6 DEF Received, OpMessage, OpError
  <2>2. QED
    BY <1>2, <2>1
<1>7. CASE frame.err = "none" /\ frame.op \notin {OpMessage, OpError}
  BY <1>7 DEF Received
<1>8. QED
  BY <1>4, <1>5, <1>6, <1>7

\* The payloads of a log, and of a part of it from its beginning.
LEMMA PayloadsOf ==
    ASSUME NEW log \in Seq(Entry)
    PROVE  /\ PayloadsIn(log) \in Seq(Seq(Nat)) /\ Len(PayloadsIn(log)) = Len(log)
           /\ Len(log) \in Nat
           /\ \A i \in 1 .. Len(log) : PayloadsIn(log)[i] = log[i].Payload
<1>1. DOMAIN log = 1 .. Len(log) /\ Len(log) \in Nat /\ \A i \in 1 .. Len(log) : log[i] \in Entry
  BY LenProperties, ElementOfSeq
<1>2. \A i \in 1 .. Len(log) : log[i].Payload \in Seq(Nat)
  BY <1>1 DEF Entry
<1>3. PayloadsIn(log) = [i \in 1 .. Len(log) |-> log[i].Payload]
  BY <1>1 DEF PayloadsIn
<1>4. QED
  BY <1>1, <1>2, <1>3

\* What a reader has been given is a part of the log from its beginning.
LEMMA ReadIsPart ==
    ASSUME NEW log \in Seq(Entry), NEW pieces \in Seq(Piece), Len(pieces) <= Len(log),
           \A i \in DOMAIN pieces : pieces[i].Payload = log[i].Payload
    PROVE  /\ PayloadsIn(pieces) = SubSeq(PayloadsIn(log), 1, Len(pieces))
           /\ Len(PayloadsIn(pieces)) = Len(pieces) /\ Len(pieces) \in Nat
<1> DEFINE all == PayloadsIn(log)
           n == Len(pieces)
           part == SubSeq(all, 1, n)
           mine == PayloadsIn(pieces)
<1>1. /\ all \in Seq(Seq(Nat)) /\ Len(all) = Len(log) /\ Len(log) \in Nat
      /\ \A i \in 1 .. Len(log) : all[i] = log[i].Payload
  BY PayloadsOf
<1>2. DOMAIN pieces = 1 .. n /\ n \in Nat /\ \A i \in 1 .. n : pieces[i] \in Piece
  BY LenProperties, ElementOfSeq
<1>3. \A i \in 1 .. n : pieces[i].Payload \in Seq(Nat)
  BY <1>2 DEF Piece
<1>4. mine = [i \in 1 .. n |-> pieces[i].Payload]
  BY <1>2 DEF PayloadsIn
<1>5. mine \in Seq(Seq(Nat)) /\ Len(mine) = n /\ \A i \in 1 .. n : mine[i] = pieces[i].Payload
  <2> HIDE DEF n, mine
  <2>1. QED
    BY <1>2, <1>3, <1>4
<1> HIDE DEF all, part, mine, n
<1>6. part \in Seq(Seq(Nat)) /\ Len(part) = n /\ \A k \in 1 .. n : part[k] = all[k]
  <2>1. 1 \in Nat \ {0} /\ 1 <= n + 1 /\ n <= Len(all) /\ n - 0 = n
    BY <1>1, <1>2 DEF n
  <2>2. part = SubSeq(all, 0 + 1, n)
    BY DEF part
  <2>3. /\ SubSeq(all, 0 + 1, n) \in Seq(Seq(Nat)) /\ Len(SubSeq(all, 0 + 1, n)) = n - 0
        /\ \A k \in 1 .. n - 0 : SubSeq(all, 0 + 1, n)[k] = all[0 + k]
    <3>1. 0 \in Nat /\ 0 <= n
      BY <1>2
    <3>2. QED
      BY <1>1, <1>2, <2>1, <3>1, PartOfSeq
  <2>4. QED
    BY <1>2, <2>2, <2>3
<1>7. \A k \in 1 .. n : part[k] = mine[k]
  <2>1. n <= Len(log) /\ \A k \in 1 .. n : pieces[k].Payload = log[k].Payload
    BY <1>2 DEF n
  <2>2. \A k \in 1 .. n : k \in 1 .. Len(log)
    BY <1>1, <1>2, <2>1
  <2>3. QED
    BY <1>1, <1>5, <1>6, <2>1, <2>2
<1>8. part = mine
  BY <1>5, <1>6, <1>7, SeqEqual
<1>9. QED
  BY <1>2, <1>5, <1>8 DEF part, mine, n, all

\* Pull: a message more of the log, or the end.
LEMMA PullRemote ==
    ASSUME Wire, LogsFit, NEW c \in Conns, NEW t, Pull(c)
    PROVE  /\ topics' = topics /\ open' = open
           /\ \/ Steady(c, t)
              \/ /\ Following(c, t) /\ Following(c, t)' /\ StatusOf(c, t) = "live"
                 /\ StatusOf(c, t)' = "live"
                 /\ Len(Delivered(c, t)) \in Nat /\ Len(Content(t)) \in Nat
                 /\ Len(Delivered(c, t)) + 1 <= Len(Content(t))
                 /\ Delivered(c, t)' = SubSeq(Content(t), 1, Len(Delivered(c, t)) + 1)
              \/ /\ Following(c, t) /\ ~Following(c, t)' /\ StatusOf(c, t) = "live"
                 /\ StatusOf(c, t)' = "gone" /\ Delivered(c, t)' = Delivered(c, t)
<1> DEFINE received == Received(ReadFrame(down[c]))
<1>1. /\ pc[c] = "streaming" /\ last[c] = "none"
      /\ got'[c] = got[c] \o received.msg /\ last'[c] = received.err
      /\ topics' = topics /\ pc' = pc /\ phase' = phase /\ subject' = subject
      /\ verdict' = verdict
  BY PullOf
<1>2. open' = open
  BY DEF Pull, brokerVars
<1>3. CASE subject[c] # t
  <2>1. Steady(c, t)
    BY <1>1, <1>3 DEF Steady, StatusOf, Delivered, Following
  <2>2. QED
    BY <1>1, <1>2, <2>1
<1>4. CASE subject[c] = t
  <2>1. Following(c, t) /\ StatusOf(c, t) = "live" /\ Granted(c)
    BY <1>1, <1>4, Connection, StreamingFollows, StreamingIsGranted DEF StatusOf
  <2>2. /\ Log(c) = topics[t] /\ t \in DOMAIN topics /\ Log(c) \in Seq(Entry) /\ Log(c)' = Log(c)
        /\ Content(t) = PayloadsIn(Log(c))
    BY <1>1, <1>4, <2>1 DEF Log, Granted, Wire, DataInv, Content
  <2>3. /\ got[c] \in Seq(Piece) /\ Len(got[c]) \in Nat /\ Reader(c)
        /\ got'[c] \in Seq(Piece) /\ Reader(c)'
    BY Connection, PullFine
  <2>4. Delivered(c, t) = PayloadsIn(got[c]) /\ Delivered(c, t)' = PayloadsIn(got'[c])
    BY <1>1, <1>4 DEF Delivered
  <2>5. CASE received.err = "none"
    <3>1. PICK m : received.msg = <<m>>
      BY <2>5, ReceivedIsOne
    <3>2. Len(got'[c]) = Len(got[c]) + 1
      <4>1. m \in Piece
        <5> HIDE DEF received
        <5>1. got'[c] = Append(got[c], m)
          BY <1>1, <2>3, <3>1
        <5>2. QED
          BY <2>3, <5>1
      <4> HIDE DEF received
      <4>2. QED
        BY <1>1, <2>3, <3>1, <4>1
    <3>3. /\ Len(got[c]) <= Len(Log(c)) /\ Len(got'[c]) <= Len(Log(c))
          /\ \A i \in DOMAIN got[c] : got[c][i].Payload = Log(c)[i].Payload
          /\ \A i \in DOMAIN got'[c] : got'[c][i].Payload = Log(c)[i].Payload
      <4>1. /\ Len(got[c]) <= Len(Log(c))
            /\ \A i \in DOMAIN got[c] :
                  got[c][i] = [Offset |-> i - 1, Payload |-> Log(c)[i].Payload]
        BY <1>1, <2>3 DEF Reader
      <4>2. /\ Len(got'[c]) <= Len(Log(c)')
            /\ \A i \in DOMAIN got'[c] :
                  got'[c][i] = [Offset |-> i - 1, Payload |-> Log(c)'[i].Payload]
        BY <1>1, <2>3 DEF Reader
      <4>3. /\ Len(got'[c]) <= Len(Log(c))
            /\ \A i \in DOMAIN got'[c] :
                  got'[c][i] = [Offset |-> i - 1, Payload |-> Log(c)[i].Payload]
        BY <2>2, <4>2, Zenon
      <4>4. \A i \in DOMAIN got[c] : got[c][i].Payload = Log(c)[i].Payload
        <5> TAKE i \in DOMAIN got[c]
        <5>1. got[c][i] = [Offset |-> i - 1, Payload |-> Log(c)[i].Payload]
          BY <4>1
        <5>2. QED
          BY <5>1
      <4>5. \A i \in DOMAIN got'[c] : got'[c][i].Payload = Log(c)[i].Payload
        <5> TAKE i \in DOMAIN got'[c]
        <5>1. got'[c][i] = [Offset |-> i - 1, Payload |-> Log(c)[i].Payload]
          BY <4>3
        <5>2. QED
          BY <5>1
      <4>6. QED
        BY <4>1, <4>3, <4>4, <4>5
    <3>4. /\ Len(PayloadsIn(got[c])) = Len(got[c])
          /\ PayloadsIn(got'[c]) = SubSeq(PayloadsIn(Log(c)), 1, Len(got'[c]))
          /\ Len(PayloadsIn(Log(c))) = Len(Log(c)) /\ Len(Log(c)) \in Nat
      BY <2>2, <2>3, <3>3, ReadIsPart, PayloadsOf
    <3>5. last'[c] = "none"
      BY <1>1, <2>5
    <3>6. Following(c, t)' /\ StatusOf(c, t)' = "live"
      BY <1>1, <1>4, <2>1, <3>5 DEF Following, StatusOf
    <3>7. /\ Len(Delivered(c, t)) \in Nat /\ Len(Content(t)) \in Nat
          /\ Len(Delivered(c, t)) + 1 <= Len(Content(t))
          /\ Delivered(c, t)' = SubSeq(Content(t), 1, Len(Delivered(c, t)) + 1)
      BY <2>2, <2>3, <2>4, <3>2, <3>3, <3>4
    <3>8. QED
      BY <1>1, <1>2, <2>1, <3>6, <3>7
  <2>6. CASE received.err # "none"
    <3>1. received.msg = <<>>
      BY <2>6, ReceivedIsOne
    <3>2. got'[c] = got[c] /\ last'[c] # "none"
      <4> HIDE DEF received
      <4>1. QED
        BY <1>1, <2>3, <2>6, <3>1
    <3>3. ~Following(c, t)' /\ StatusOf(c, t)' = "gone"
      BY <1>1, <1>4, <3>2 DEF Following, StatusOf
    <3>4. QED
      BY <1>1, <1>2, <2>1, <2>4, <3>2, <3>3
  <2>7. QED
    BY <2>5, <2>6
<1>5. QED
  BY <1>3, <1>4

\* What a step adds to a topic: nothing, or payloads at its end.
LEMMA ContentGrows ==
    ASSUME DataInv, LogStep, NEW t
    PROVE  /\ Content(t) \in Seq(Seq(Nat)) /\ Len(Content(t)) \in Nat
           /\ \/ Content(t)' = Content(t)
              \/ \E payloads \in Seq(Seq(Nat)) :
                    /\ payloads # <<>> /\ Len(payloads) \in Nat \ {0}
                    /\ Content(t)' = Content(t) \o payloads
                    /\ Added(t) = payloads /\ SubSeq(payloads, 1, Len(payloads)) = payloads
<1>1. Content(t) \in Seq(Seq(Nat)) /\ Len(Content(t)) \in Nat
  <2>1. CASE t \in DOMAIN topics
    BY <2>1, PayloadsOf DEF DataInv, Content
  <2>2. CASE t \notin DOMAIN topics
    BY <2>2 DEF Content
  <2>3. QED
    BY <2>1, <2>2
<1>2. CASE topics' = topics
  BY <1>1, <1>2 DEF Content
<1>3. ASSUME NEW u \in Seq(Nat), u \notin DOMAIN topics,
             topics' = [x \in DOMAIN topics \union {u} |-> IF x = u THEN <<>> ELSE topics[x]]
      PROVE  Content(t)' = Content(t)
  BY <1>3, NoPayloads DEF Content
<1>4. ASSUME NEW u \in DOMAIN topics, NEW payloads \in Seq(Seq(Nat)), NEW remote \in BOOLEAN,
             topics' = [topics EXCEPT ![u] = @ \o Messages(payloads, remote)],
             Content(t)' # Content(t)
      PROVE  /\ payloads # <<>> /\ Len(payloads) \in Nat \ {0}
             /\ Content(t)' = Content(t) \o payloads
             /\ Added(t) = payloads /\ SubSeq(payloads, 1, Len(payloads)) = payloads
  <2> DEFINE more == Messages(payloads, remote)
             log == topics[t]
             q == payloads
  <2>1. more \in Seq(Entry) /\ Len(more) = Len(q)
        /\ \A i \in 1 .. Len(q) : more[i].Payload = q[i]
    <3>1. /\ more \in Seq(Entry) /\ Len(more) = Len(q)
          /\ \A i \in 1 .. Len(q) : more[i] = [Payload |-> q[i], remote |-> remote]
      BY MessagesAreEntries
    <3> HIDE DEF more, q
    <3>2. \A i \in 1 .. Len(q) : more[i].Payload = q[i]
      <4> TAKE i \in 1 .. Len(q)
      <4>1. more[i] = [Payload |-> q[i], remote |-> remote]
        BY <3>1
      <4>2. QED
        BY <4>1
    <3>3. QED
      BY <3>1, <3>2
  <2> HIDE DEF more
  <2>2. topics' = [topics EXCEPT ![u] = @ \o more]
    BY <1>4 DEF more
  <2>3. t = u
    BY <1>4, <2>2 DEF Content
  <2>4. log \in Seq(Entry) /\ q \in Seq(Seq(Nat))
    BY <2>3 DEF DataInv
  <2>5. Content(t) = PayloadsIn(log) /\ Content(t)' = PayloadsIn(log \o more)
    BY <2>2, <2>3 DEF Content
  <2> HIDE DEF log, q
  <2>6. /\ log \o more \in Seq(Entry) /\ Len(log \o more) = Len(log) + Len(more)
        /\ Len(log) \in Nat /\ Len(q) \in Nat
        /\ \A i \in 1 .. Len(log) : (log \o more)[i] = log[i]
        /\ \A i \in 1 .. Len(more) : (log \o more)[Len(log) + i] = more[i]
    <3>1. Len(q) \in Nat /\ Len(log) \in Nat
      BY <2>4, LenProperties
    <3> DEFINE S == Entry
    <3>2. log \in Seq(S) /\ more \in Seq(S)
      BY <2>1, <2>4
    <3> HIDE DEF S
    <3>3. /\ log \o more \in Seq(S) /\ Len(log \o more) = Len(log) + Len(more)
          /\ \A i \in 1 .. Len(log) : (log \o more)[i] = log[i]
          /\ \A i \in 1 .. Len(more) : (log \o more)[Len(log) + i] = more[i]
      BY <3>2, ConcatBytes
    <3>4. QED
      BY <3>1, <3>3 DEF S
  <2> DEFINE old == PayloadsIn(log)
             new == PayloadsIn(log \o more)
             n == Len(log)
             m == Len(q)
  <2>7. old \in Seq(Seq(Nat)) /\ Len(old) = n /\ \A i \in 1 .. n : old[i] = log[i].Payload
    BY <2>4, PayloadsOf
  <2>8. /\ new \in Seq(Seq(Nat)) /\ Len(new) = n + m
        /\ \A i \in 1 .. n + m : new[i] = (log \o more)[i].Payload
    BY <2>1, <2>6, PayloadsOf
  <2>9. /\ old \o q \in Seq(Seq(Nat)) /\ Len(old \o q) = n + m
        /\ \A i \in 1 .. n : (old \o q)[i] = old[i]
        /\ \A i \in 1 .. m : (old \o q)[n + i] = q[i]
    <3> DEFINE S == Seq(Nat)
    <3>1. old \in Seq(S) /\ q \in Seq(S)
      BY <2>4, <2>7
    <3> HIDE DEF old, S
    <3>2. /\ old \o q \in Seq(S) /\ Len(old \o q) = Len(old) + Len(q)
          /\ \A i \in 1 .. Len(old) : (old \o q)[i] = old[i]
          /\ \A i \in 1 .. Len(q) : (old \o q)[Len(old) + i] = q[i]
      BY <3>1, ConcatBytes
    <3>3. QED
      BY <2>7, <3>2 DEF S
  <2>10. \A i \in 1 .. n + m : new[i] = (old \o q)[i]
    <3> SUFFICES ASSUME NEW i \in 1 .. n + m PROVE new[i] = (old \o q)[i]
      OBVIOUS
    <3> HIDE DEF old, new
    <3>1. CASE i \in 1 .. n
      <4>1. new[i] = (log \o more)[i].Payload
        BY <2>8
      <4>2. (log \o more)[i] = log[i]
        BY <3>1, <2>6
      <4>3. (old \o q)[i] = old[i]
        BY <3>1, <2>9
      <4>4. old[i] = log[i].Payload
        BY <3>1, <2>7
      <4>5. QED
        BY <4>1, <4>2, <4>3, <4>4
    <3>2. CASE i \notin 1 .. n
      <4>1. i - n \in 1 .. m /\ n + (i - n) = i
        BY <3>2, <2>6
      <4>2. new[i] = more[i - n].Payload
        BY <4>1, <2>1, <2>6, <2>8
      <4>3. (old \o q)[i] = q[i - n]
        BY <4>1, <2>9
      <4>4. QED
        BY <4>1, <4>2, <4>3, <2>1
    <3>3. QED
      BY <3>1, <3>2
  <2>11. new = old \o q
    <3> HIDE DEF old, new
    <3> DEFINE r == old \o q
    <3>1. r \in Seq(Seq(Nat)) /\ Len(r) = Len(new) /\ \A i \in 1 .. Len(new) : new[i] = r[i]
      BY <2>8, <2>9, <2>10
    <3> HIDE DEF r
    <3>2. new = r
      BY <2>8, <3>1, SeqEqual
    <3>3. QED
      BY <3>2 DEF r
  <2>12. Content(t) = old /\ Content(t)' = old \o q
    BY <2>5, <2>11
  <2>13. Added(t) = q
    <3>1. Added(t) = SubSeq(old \o q, n + 1, n + m)
      BY <2>5, <2>7, <2>8, <2>11 DEF Added
    <3> HIDE DEF old
    <3>2. SubSeq(old \o q, Len(old) + 1, Len(old) + Len(q)) = q
      BY <2>4, <2>7, PartBehind
    <3>3. QED
      BY <2>7, <3>1, <3>2
  <2>14. q # <<>>
    <3> SUFFICES ASSUME q = <<>> PROVE FALSE
      OBVIOUS
    <3> HIDE DEF old
    <3>1. old \o <<>> = old
      BY <2>7, ConcatEmptySeq
    <3>2. QED
      BY <1>4, <2>12, <3>1
  <2>15. m \in Nat \ {0}
    BY <2>4, <2>6, <2>14, EmptySeq
  <2>16. SubSeq(q, 1, m) = q
    BY <2>4, <2>6
  <2>17. QED
    BY <2>12, <2>13, <2>14, <2>15, <2>16 DEF q
<1>5. QED
  BY <1>1, <1>2, <1>3, <1>4 DEF LogStep

\* The steps of the abstract log, from what they do to the topic and its
\* subscribers.
LEMMA IsPublish ==
    ASSUME DataInv, LogStep, NEW t, Content(t)' # Content(t), open, open' = open,
           \A c \in Conns : StatusOf(c, t)' = StatusOf(c, t) /\ Delivered(c, t)' = Delivered(c, t)
    PROVE  RemoteStep(t) /\ Added(t) \in Seq(Seq(Nat))
<1>1. PICK payloads \in Seq(Seq(Nat)) :
          /\ payloads # <<>> /\ Len(payloads) \in Nat \ {0}
          /\ Content(t)' = Content(t) \o payloads
          /\ Added(t) = payloads /\ SubSeq(payloads, 1, Len(payloads)) = payloads
  BY ContentGrows
<1>2. [c \in Conns |-> StatusOf(c, t)]' = [c \in Conns |-> StatusOf(c, t)]
  OBVIOUS
<1>3. [c \in Conns |-> Delivered(c, t)]' = [c \in Conns |-> Delivered(c, t)]
  OBVIOUS
<1>4. Len(payloads) \in 1 .. Len(payloads)
  BY <1>1
<1>5. Content(t)' = Content(t) \o SubSeq(payloads, 1, Len(payloads))
  BY <1>1, Zenon
<1>6. RemoteLog(t)!Publish(payloads)
  <2> DEFINE following == \E c \in Conns : Following(c, t)
  <2>1. (open \/ following) /\ (open \/ following)' = (open \/ following)
    <3> HIDE DEF following
    <3>1. open /\ open'
      OBVIOUS
    <3>2. QED
      BY <3>1
  <2> HIDE DEF following
  <2>2. QED
    BY <1>2, <1>3, <1>4, <1>5, <2>1, Zenon DEF RemoteLog!Publish, following
<1>7. QED
  BY <1>1, <1>6, Zenon DEF RemoteStep

LEMMA IsMove ==
    ASSUME NEW c \in Conns, NEW t, Content(t)' = Content(t), RemoteOpen(t)' <=> RemoteOpen(t),
           Delivered(c, t)' = Delivered(c, t),
           \A d \in Conns : d # c =>
               StatusOf(d, t)' = StatusOf(d, t) /\ Delivered(d, t)' = Delivered(d, t),
           \/ RemoteOpen(t) /\ StatusOf(c, t) = "new" /\ StatusOf(c, t)' = "live"
           \/ StatusOf(c, t) = "live" /\ StatusOf(c, t)' = "gone"
    PROVE  RemoteLog(t)!Join(c) \/ RemoteLog(t)!Leave(c)
<1> DEFINE status == [d \in Conns |-> StatusOf(d, t)]
<1>1. status' = [status EXCEPT ![c] = StatusOf(c, t)'] /\ status[c] = StatusOf(c, t)
  OBVIOUS
<1>2. [d \in Conns |-> Delivered(d, t)]' = [d \in Conns |-> Delivered(d, t)]
  OBVIOUS
<1>3. RemoteOpen(t)' = RemoteOpen(t)
  BY Zenon DEF RemoteOpen
<1>4. CASE RemoteOpen(t) /\ StatusOf(c, t) = "new" /\ StatusOf(c, t)' = "live"
  <2>1. RemoteLog(t)!Join(c)
    BY <1>1, <1>2, <1>3, <1>4, Zenon DEF RemoteLog!Join, RemoteOpen
  <2>2. QED
    BY <2>1
<1>5. CASE StatusOf(c, t) = "live" /\ StatusOf(c, t)' = "gone"
  <2>1. RemoteLog(t)!Leave(c)
    BY <1>1, <1>2, <1>3, <1>5, Zenon DEF RemoteLog!Leave, RemoteOpen
  <2>2. QED
    BY <2>1
<1>6. QED
  BY <1>4, <1>5

LEMMA IsDeliver ==
    ASSUME NEW c \in Conns, NEW t, Content(t)' = Content(t), RemoteOpen(t), RemoteOpen(t)',
           \A d \in Conns : StatusOf(d, t)' = StatusOf(d, t),
           \A d \in Conns : d # c => Delivered(d, t)' = Delivered(d, t),
           StatusOf(c, t) = "live",
           Len(Delivered(c, t)) \in Nat, Len(Content(t)) \in Nat,
           Len(Delivered(c, t)) + 1 <= Len(Content(t)),
           Delivered(c, t)' = SubSeq(Content(t), 1, Len(Delivered(c, t)) + 1)
    PROVE  RemoteLog(t)!Deliver(c)
<1> DEFINE delivered == [d \in Conns |-> Delivered(d, t)]
           status == [d \in Conns |-> StatusOf(d, t)]
<1>1. delivered' = [delivered EXCEPT ![c] = Delivered(c, t)'] /\ delivered[c] = Delivered(c, t)
  OBVIOUS
<1>2. status' = status /\ status[c] = "live"
  OBVIOUS
<1>3. RemoteOpen(t)' = RemoteOpen(t)
  BY Zenon DEF RemoteOpen
<1>4. 1 \in 1 .. Len(Content(t)) - Len(delivered[c])
  BY <1>1
<1>5. delivered' = [delivered EXCEPT ![c] = SubSeq(Content(t), 1, Len(delivered[c]) + 1)]
  BY <1>1, Zenon
<1>6. QED
  BY <1>2, <1>3, <1>4, <1>5, Zenon DEF RemoteLog!Deliver, RemoteOpen

LEMMA IsShut ==
    ASSUME NEW t, Content(t)' = Content(t), RemoteOpen(t), ~RemoteOpen(t)',
           \A d \in Conns : Delivered(d, t)' = Delivered(d, t),
           \A d \in Conns : StatusOf(d, t)' = IF StatusOf(d, t) = "new" THEN "new" ELSE "gone"
    PROVE  RemoteLog(t)!Shut
<1> DEFINE status == [d \in Conns |-> StatusOf(d, t)]
<1>1. status' = [d \in Conns |-> IF status[d] = "new" THEN "new" ELSE "gone"]
  OBVIOUS
<1>2. [d \in Conns |-> Delivered(d, t)]' = [d \in Conns |-> Delivered(d, t)]
  OBVIOUS
<1>3. RemoteOpen(t)' = FALSE
  BY Zenon DEF RemoteOpen
<1>4. QED
  BY <1>1, <1>2, <1>3, Zenon DEF RemoteLog!Shut, RemoteOpen

\* Who is live follows the topic.
LEMMA LiveFollows ==
    ASSUME Wire, NEW c \in Conns, NEW t, ~Following(c, t)
    PROVE  StatusOf(c, t) \in {"new", "gone"}
BY Connection, StreamingFollows DEF StatusOf

\* The step of a connection ...
LEMMA ConnectionRemote ==
    ASSUME Wire, LogsFit, LogStep, NEW t, NEW c \in Conns, StepOf(c)
    PROVE  RemoteStep(t)
<1>1. \A d \in Conns : d # c => Steady(d, t)
  BY OthersApart, ApartSteady
<1>2. topics' = topics => Content(t)' = Content(t)
  BY DEF Content
<1>3. ASSUME open' = open, topics' = topics, Steady(c, t) PROVE RemoteStep(t)
  <2>1. \A d \in Conns : Steady(d, t)
    BY <1>1, <1>3
  <2>2. UNCHANGED RemoteLog(t)!vars
    BY <1>2, <1>3, <2>1, RemoteSame, SteadyOpen DEF Steady
  <2>3. QED
    BY <2>2 DEF RemoteStep
<1>4. CASE HandlerStep(c)
  <2>1. /\ StatusOf(c, t)' = StatusOf(c, t) /\ Delivered(c, t)' = Delivered(c, t)
        /\ ~Following(c, t) /\ open' = open
        /\ Following(c, t)' \/ topics' # topics => open
    BY <1>4, HandlerRemote
  <2>2. \A d \in Conns : StatusOf(d, t)' = StatusOf(d, t) /\ Delivered(d, t)' = Delivered(d, t)
    BY <1>1, <2>1 DEF Steady
  <2>3. CASE Content(t)' # Content(t)
    BY <1>2, <2>1, <2>2, <2>3, IsPublish DEF Wire
  <2>4. CASE Content(t)' = Content(t)
    <3>1. RemoteOpen(t)' <=> RemoteOpen(t)
      <4>1. CASE Following(c, t)'
        BY <2>1, <4>1 DEF RemoteOpen
      <4>2. CASE ~Following(c, t)'
        <5>1. \A d \in Conns : Steady(d, t)
          BY <1>1, <2>1, <4>2 DEF Steady
        <5>2. QED
          BY <2>1, <5>1, SteadyOpen
      <4>3. QED
        BY <4>1, <4>2
    <3>2. UNCHANGED RemoteLog(t)!vars
      BY <2>2, <2>4, <3>1, RemoteSame
    <3>3. QED
      BY <3>2 DEF RemoteStep
  <2>5. QED
    BY <2>3, <2>4
<1>5. CASE StreamStep(c) \/ WriteFails(c)
  BY <1>3, <1>5, StreamRemote
<1>6. CASE \/ \E k \in Here.calls : Call(c, k) /\ UNCHANGED pushVars
           \/ \E header \in Here.forged : Forge(c, header) /\ UNCHANGED pushVars
           \/ \E b \in Noise : Scribble(c, b) /\ UNCHANGED pushVars
           \/ Leave(c) /\ UNCHANGED pushVars
  BY <1>3, <1>6, OtherRemote
<1>7. CASE Return(c) /\ UNCHANGED pushVars
  <2>1. /\ topics' = topics /\ open' = open
        /\ Following(c, t)' <=> Following(c, t)
        /\ Delivered(c, t)' = Delivered(c, t)
        /\ \/ StatusOf(c, t)' = StatusOf(c, t)
           \/ StatusOf(c, t) = "new" /\ StatusOf(c, t)' = "live" /\ Following(c, t)
    BY <1>7, ReturnRemote
  <2>2. CASE StatusOf(c, t)' = StatusOf(c, t)
    BY <1>3, <2>1, <2>2 DEF Steady
  <2>3. CASE StatusOf(c, t) = "new" /\ StatusOf(c, t)' = "live" /\ Following(c, t)
    <3>1. RemoteOpen(t) /\ RemoteOpen(t)'
      BY <2>1, <2>3 DEF RemoteOpen
    <3>2. RemoteLog(t)!Join(c) \/ RemoteLog(t)!Leave(c)
      BY <1>1, <1>2, <2>1, <2>3, <3>1, IsMove DEF Steady
    <3>3. QED
      BY <3>2 DEF RemoteStep
  <2>4. QED
    BY <2>1, <2>2, <2>3
<1>8. CASE Pull(c)
  <2>1. topics' = topics /\ open' = open
    BY <1>8, PullRemote
  <2>2. CASE Steady(c, t)
    BY <1>3, <2>1, <2>2
  <2>3. CASE /\ Following(c, t) /\ Following(c, t)' /\ StatusOf(c, t) = "live"
             /\ StatusOf(c, t)' = "live"
             /\ Len(Delivered(c, t)) \in Nat /\ Len(Content(t)) \in Nat
             /\ Len(Delivered(c, t)) + 1 <= Len(Content(t))
             /\ Delivered(c, t)' = SubSeq(Content(t), 1, Len(Delivered(c, t)) + 1)
    <3>1. RemoteOpen(t) /\ RemoteOpen(t)'
      BY <2>3 DEF RemoteOpen
    <3>2. RemoteLog(t)!Deliver(c)
      <4>1. /\ \A d \in Conns : StatusOf(d, t)' = StatusOf(d, t)
            /\ \A d \in Conns : d # c => Delivered(d, t)' = Delivered(d, t)
        BY <1>1, <2>3 DEF Steady
      <4>2. QED
        BY <1>2, <2>1, <2>3, <3>1, <4>1, IsDeliver
    <3>3. QED
      BY <3>2 DEF RemoteStep
  <2>4. CASE /\ Following(c, t) /\ ~Following(c, t)' /\ StatusOf(c, t) = "live"
             /\ StatusOf(c, t)' = "gone" /\ Delivered(c, t)' = Delivered(c, t)
    <3>1. RemoteOpen(t)
      BY <2>4 DEF RemoteOpen
    <3>2. CASE RemoteOpen(t)'
      <4>1. RemoteLog(t)!Join(c) \/ RemoteLog(t)!Leave(c)
        BY <1>1, <1>2, <2>1, <2>4, <3>1, <3>2, IsMove DEF Steady
      <4>2. QED
        BY <4>1 DEF RemoteStep
    <3>3. CASE ~RemoteOpen(t)'
      <4>1. \A d \in Conns : Delivered(d, t)' = Delivered(d, t)
        BY <1>1, <2>4 DEF Steady
      <4>2. \A d \in Conns : d # c => StatusOf(d, t) \in {"new", "gone"}
        BY <1>1, <3>3, LiveFollows DEF RemoteOpen, Steady
      <4>3. \A d \in Conns : StatusOf(d, t)' = IF StatusOf(d, t) = "new" THEN "new" ELSE "gone"
        BY <1>1, <2>4, <4>2 DEF Steady
      <4>4. RemoteLog(t)!Shut
        BY <1>2, <2>1, <3>1, <3>3, <4>1, <4>3, IsShut
      <4>5. QED
        BY <4>4 DEF RemoteStep
    <3>4. QED
      BY <3>2, <3>3
  <2>5. QED
    BY <1>8, <2>2, <2>3, <2>4, PullRemote
<1>9. QED
  BY <1>4, <1>5, <1>6, <1>7, <1>8 DEF StepOf, ClientStep

\* ... and every other.
LEMMA NextRemote ==
    ASSUME Wire, LogsFit, [Next]_vars, NEW t
    PROVE  RemoteStep(t)
<1>1. LogStep
  BY NextLogs DEF Wire
<1>2. CASE \E c \in Conns : StepOf(c)
  BY <1>1, <1>2, ConnectionRemote
<1>3. CASE UNCHANGED <<clientVars, wireVars, serverVars, pushVars>>
  <2>1. \A c \in Conns : Steady(c, t)
    BY <1>3, AllSame DEF Same, Steady, StatusOf, Delivered, Following
  <2>2. \A c \in Conns : StatusOf(c, t)' = StatusOf(c, t) /\ Delivered(c, t)' = Delivered(c, t)
    BY <2>1 DEF Steady
  <2>3. CASE open' = open /\ Content(t)' = Content(t)
    <3>1. UNCHANGED RemoteLog(t)!vars
      BY <2>1, <2>2, <2>3, RemoteSame, SteadyOpen
    <3>2. QED
      BY <3>1 DEF RemoteStep
  <2>4. CASE \E m \in Here.local : PublishLocally(m[1], m[2])
    <3>1. open /\ open' = open
      BY <2>4 DEF PublishLocally
    <3>2. QED
      BY <1>1, <2>2, <2>3, <3>1, IsPublish DEF Wire
  <2>5. CASE CloseBroker
    <3>1. open /\ ~open' /\ topics' = topics
      BY <2>5 DEF CloseBroker
    <3>2. Content(t)' = Content(t)
      BY <3>1 DEF Content
    <3>3. CASE \E c \in Conns : Following(c, t)
      <4>1. RemoteOpen(t) /\ RemoteOpen(t)'
        BY <2>1, <3>3 DEF RemoteOpen, Steady
      <4>2. UNCHANGED RemoteLog(t)!vars
        BY <2>2, <3>2, <4>1, RemoteSame
      <4>3. QED
        BY <4>2 DEF RemoteStep
    <3>4. CASE ~\E c \in Conns : Following(c, t)
      <4>1. RemoteOpen(t) /\ ~RemoteOpen(t)'
        BY <2>1, <3>1, <3>4 DEF RemoteOpen, Steady
      <4>2. \A c \in Conns : StatusOf(c, t)' = IF StatusOf(c, t) = "new" THEN "new" ELSE "gone"
        BY <2>2, <3>4, LiveFollows
      <4>3. RemoteLog(t)!Shut
        BY <2>2, <3>2, <4>1, <4>2, IsShut
      <4>4. QED
        BY <4>3 DEF RemoteStep
    <3>5. QED
      BY <3>3, <3>4
  <2>6. CASE UNCHANGED vars
    <3>1. open' = open /\ topics' = topics
      BY <2>6 DEF vars, requestVars, brokerVars
    <3>2. QED
      BY <2>3, <3>1 DEF Content
  <2>7. CASE \E c \in Conns : StepOf(c)
    BY <1>2, <2>7
  <2>8. QED
    BY <2>4, <2>5, <2>6, <2>7 DEF Next, StepOf
<1>4. QED
  BY <1>2, <1>3, NextIs

\* In the beginning every topic is empty, and nobody follows it.
LEMMA InitRemote ==
    ASSUME PushInit, NEW t
    PROVE  RemoteLog(t)!Init
<1>1. Content(t) = <<>>
  BY NoPayloads DEF PushInit, Init, Content
<1>2. \A c \in Conns : StatusOf(c, t) = "new" /\ Delivered(c, t) = <<>>
  BY NoPayloads DEF PushInit, Init, StatusOf, Delivered
<1>3. open = TRUE
  BY DEF PushInit, Init
<1>4. [c \in Conns |-> StatusOf(c, t)] = [c \in Conns |-> "new"]
  BY <1>2
<1>5. [c \in Conns |-> Delivered(c, t)] = [c \in Conns |-> <<>>]
  BY <1>2
<1>6. (open \/ \E c \in Conns : Following(c, t)) = TRUE
  BY <1>3
<1>7. QED
  BY <1>1, <1>4, <1>5, <1>6 DEF RemoteLog!Init

\* What is added to a topic is a batch.
LEMMA AddedIsBatch ==
    ASSUME DataInv, LogStep, NEW t
    PROVE  Added(t) \in Seq(Seq(Nat))
<1>1. Content(t) \in Seq(Seq(Nat)) /\ Len(Content(t)) \in Nat
  BY ContentGrows
<1>2. CASE Content(t)' = Content(t)
  <2> DEFINE n == Len(Content(t))
             S == Seq(Nat)
  <2>1. Added(t) = SubSeq(Content(t), n + 1, n)
    BY <1>2 DEF Added
  <2>2. Content(t) \in Seq(S) /\ n \in Nat /\ n <= n /\ n <= Len(Content(t))
    BY <1>1
  <2> HIDE DEF n, S
  <2>3. SubSeq(Content(t), n + 1, n) \in Seq(S)
    BY <2>2, PartOfSeq
  <2>4. QED
    BY <2>1, <2>3 DEF S
<1>3. CASE Content(t)' # Content(t)
  BY <1>3, ContentGrows
<1>4. QED
  BY <1>2, <1>3

\* Between its remote subscribers and the server every topic is one broadcast
\* log, as long as its offsets fit in their field (Server.stream,
\* WriteMessageBatch, Subscription.Read).
THEOREM RemoteRefinement == Spec /\ []LogsFit => RemoteIsOneLog
<1>1. PushInit => \A t \in DOMAIN topics : RemoteLog(t)!Init
  BY InitRemote
<1>2. Inductive /\ LogsFit /\ [Next]_vars =>
        [\A t \in DOMAIN topics \union DOMAIN topics' : RemoteStep(t)]_vars
  BY NextRemote DEF Inductive, Wire
<1>3. QED
  BY <1>1, <1>2, InductiveHolds, PTL DEF Spec, RemoteIsOneLog

\* The same of any one topic, whether it is ever created or not, against the
\* whole abstract specification.
THEOREM RemoteTopic ==
    ASSUME NEW t
    PROVE  Spec /\ []LogsFit => RemoteLog(t)!Spec
<1>1. PushInit => RemoteLog(t)!Init
  BY InitRemote
<1>2. Inductive /\ LogsFit /\ [Next]_vars => [RemoteLog(t)!Next]_(RemoteLog(t)!vars)
  <2> SUFFICES ASSUME Inductive, LogsFit, [Next]_vars
               PROVE  RemoteLog(t)!Next \/ UNCHANGED RemoteLog(t)!vars
    OBVIOUS
  <2>1. Wire /\ LogStep
    BY NextLogs DEF Inductive, Wire
  <2>2. RemoteStep(t) /\ Added(t) \in Seq(Seq(Nat))
    BY <2>1, NextRemote, AddedIsBatch DEF Wire
  <2>3. QED
    BY <2>2, Zenon DEF RemoteStep, RemoteLog!Next
<1>3. QED
  BY <1>1, <1>2, InductiveHolds, PTL DEF Spec, RemoteLog!Spec

=============================================================================

------------------------------ MODULE Requests ------------------------------
(***************************************************************************)
(* The path of one request: the checks of the client (network/client.go),  *)
(* the frame, its decoding and the checks of handleConn (network/server.go)*)
(* the decision of the broker, and the way of the answer back.             *)
(*                                                                         *)
(* Here it is the data that is followed, byte by byte.  A connection makes *)
(* one call after the other, and a broker operation is one step: threads   *)
(* are in Client.tla, Server.tla, Broker.tla.                              *)
(***************************************************************************)
EXTENDS Codec, FiniteSets

CONSTANTS
    Conns,
    Scenarios,         \* bound: what may happen in a behaviour, see ScenarioType
    MaxTopicNameLen,
    Control,           \* bytes that are ASCII control characters
    Noise,             \* bytes that follow a forged header
    MaxTopics,         \* WithMaxTopics, 0: no limit
    MaxCalls           \* bound: calls of one connection

Name == Seq(Byte)
Payload == Seq(Byte)
NoAnswer == [err |-> "pending", offset |-> 0, names |-> <<>>]
Answer(err) == [NoAnswer EXCEPT !.err = err]

\* A call of the client's methods, or of a peer that is not this client (~lib)
\* and checks nothing.  Fields that an operation has no use for are empty.
CallType == [lib : BOOLEAN, op : Nat, topic : Name, payloads : Seq(Payload)]
ScenarioType ==
    [conns : SUBSET Conns,              \* connections there are
     calls : SUBSET CallType,           \* calls they make
     forged : SUBSET Seq(Byte),         \* headers, or what is none, of other peers
     topics : SUBSET Name,              \* topics there are from the beginning
     local : SUBSET (Name \X Payload)]  \* publishes in the server's own process

ASSUME RequestsAssumption ==
    /\ \A s \in DOMAIN Scenarios : Scenarios[s] \in ScenarioType
    /\ Control \subseteq Byte /\ Noise \subseteq Byte
    /\ MaxTopicNameLen \in Nat /\ MaxTopics \in Nat /\ MaxCalls \in Nat
    /\ \A s \in DOMAIN Scenarios : \A k \in Scenarios[s].calls :
          k.op \in {OpPublish, OpPublishNoAck} => Len(k.payloads) = 1
    /\ \A s \in DOMAIN Scenarios : \A k \in Scenarios[s].calls :
          /\ k.op \notin {OpPublish, OpPublishNoAck, OpPublishBatch} => k.payloads = <<>>
          /\ k.op = OpListTopics => k.topic = <<>>
    /\ \A s \in DOMAIN Scenarios : \A header \in Scenarios[s].forged : Len(header) <= IntMax
    /\ \A s \in DOMAIN Scenarios : IsFiniteSet(Scenarios[s].topics)

VARIABLES
    scenario,   \* the name of the scenario: never changes
    topics,     \* Broker.topics: the log of each topic that exists
    open,       \* the broker has not been closed
    pc,         \* pc[c]: idle, waiting, streaming, or forging, gone
    call,       \* call[c]: the last call
    calls,      \* calls[c]: how many there were
    up,         \* up[c]: bytes on the way to the server
    down,       \* down[c]: bytes on the way to the client
    phase,      \* phase[c]: what the handler does: request, push, ended
    subject,    \* subject[c]: the topic of the subscription
    asked,      \* asked[c]: the request as the server understood it (history)
    verdict,    \* verdict[c]: its answer (history)
    result      \* result[c]: what the call returned

brokerVars == <<topics, open>>
clientVars == <<pc, call, calls, result>>
wireVars == <<up, down>>
serverVars == <<phase, subject, asked, verdict>>
requestVars == <<scenario, brokerVars, clientVars, wireVars, serverVars>>

Here == Scenarios[scenario]
NoCall == [lib |-> TRUE, op |-> 0, topic |-> <<>>, payloads |-> <<>>]

Init ==
    /\ scenario \in DOMAIN Scenarios
    /\ topics = [t \in Here.topics |-> <<>>]
    /\ open = TRUE
    /\ pc = [c \in Conns |-> "idle"]
    /\ call = [c \in Conns |-> NoCall]
    /\ calls = [c \in Conns |-> 0]
    /\ up = [c \in Conns |-> <<>>]
    /\ down = [c \in Conns |-> <<>>]
    /\ phase = [c \in Conns |-> "request"]
    /\ subject = [c \in Conns |-> <<>>]
    /\ asked = [c \in Conns |-> NoCall]
    /\ verdict = [c \in Conns |-> NoAnswer]
    /\ result = [c \in Conns |-> NoAnswer]

-----------------------------------------------------------------------------
\* Checks that both sides make

ValidateTopicName(name) ==
    CASE name = <<>> -> "empty"
      [] Len(name) > MaxTopicNameLen -> "toolong"
      [] name # <<>> /\ Len(name) <= MaxTopicNameLen ->
            IF \E i \in DOMAIN name : name[i] \in Control THEN "invalid" ELSE "none"

AcceptsAll(payloads) == TRUE
Pushable(payloads) == \A i \in DOMAIN payloads : Len(payloads[i]) <= MaxMessage

-----------------------------------------------------------------------------
\* The client

Body(k) ==
    CASE k.op \in {OpPublish, OpPublishNoAck} -> EncodePublish(k.topic, k.payloads[1])
      [] k.op = OpPublishBatch -> EncodePublishBatch(k.topic, k.payloads)
      [] OTHER -> k.topic

\* A peer that checks nothing still makes frames that say how long they are.
ASSUME FramesAssumption ==
    \A s \in DOMAIN Scenarios : \A k \in Scenarios[s].calls : Len(Body(k)) < Power[Len32]

\* Why the client refuses a call itself, in the order of its checks.
Refusal(k) ==
    CASE ~k.lib \/ k.op = OpListTopics -> "none"
      [] k.lib /\ k.op = OpPublishBatch /\ k.payloads = <<>> -> "emptybatch"
      [] k.lib /\ k.op # OpListTopics /\ ~(k.op = OpPublishBatch /\ k.payloads = <<>>) ->
            IF ValidateTopicName(k.topic) # "none" THEN ValidateTopicName(k.topic)
            ELSE IF ~Pushable(k.payloads) \/ ~Fits(Body(k)) THEN "toolarge" ELSE "none"

\* remoteError: the sentinel behind a code.
RemoteError(code) ==
    CASE code = 1 -> "closed"
      [] code = 2 -> "exists"
      [] code = 3 -> "notfound"
      [] code = 4 -> "empty"
      [] code = 5 -> "toolarge"
      [] code = 6 -> "overloaded"
      [] code = 7 -> "toolong"
      [] code = 8 -> "invalid"
      [] code = 9 -> "toomany"
      [] OTHER -> "text"

\* The body of an OpError, as the client sees it.
ErrorIn(payload) ==
    IF DecodeError(payload).err # "none" THEN "malformed"
    ELSE RemoteError(At(payload, 0, Len16))

\* What roundTripWriteLocked and its callers make of the answer to k.
Meaning(k, frame) ==
    CASE frame.err # "none" -> Answer(frame.err)
      [] frame.err = "none" /\ frame.op = OpError -> Answer(ErrorIn(frame.payload))
      [] frame.err = "none" /\ frame.op \notin {OpError, k.op} -> Answer("unexpected")
      [] frame.err = "none" /\ frame.op = k.op /\ k.op # OpError ->
            CASE k.op \in {OpCreateTopic, OpSubscribe} -> Answer("none")
              [] k.op = OpPublish ->
                    [Answer(UnmarshalOffset(frame.payload).err)
                        EXCEPT !.offset = At(frame.payload, 0, Len64)]
              [] k.op = OpPublishBatch ->
                    IF /\ DecodePublishAck(frame.payload).err = "none"
                       /\ ToInt(At(frame.payload, Len64, Len32)) = Len(k.payloads)
                    THEN [Answer("none") EXCEPT !.offset = At(frame.payload, 0, Len64)]
                    ELSE Answer("malformed")
              [] k.op = OpListTopics ->
                    [Answer(DecodeTopics(frame.payload).err)
                        EXCEPT !.names = DecodeTopics(frame.payload).fields]

\* A call begins: it is refused, or its frame is written.  PublishAsync is
\* over then.
Call(c, k) ==
    /\ c \in Here.conns
    /\ pc[c] = "idle" /\ phase[c] = "request"
    /\ up[c] = <<>> /\ down[c] = <<>>
    /\ calls[c] < MaxCalls
    /\ k \in Here.calls
    /\ calls' = [calls EXCEPT ![c] = @ + 1]
    /\ call' = [call EXCEPT ![c] = k]
    /\ asked' = [asked EXCEPT ![c] = NoCall]
    /\ verdict' = [verdict EXCEPT ![c] = NoAnswer]
    /\ IF Refusal(k) # "none"
       THEN /\ result' = [result EXCEPT ![c] = Answer(Refusal(k))]
            /\ UNCHANGED <<up, pc>>
       ELSE /\ up' = [up EXCEPT ![c] = EncodeFrame(k.op, Body(k))]
            /\ IF k.op = OpPublishNoAck
               THEN result' = [result EXCEPT ![c] = Answer("none")] /\ UNCHANGED pc
               ELSE /\ pc' = [pc EXCEPT ![c] = "waiting"]
                    /\ result' = [result EXCEPT ![c] = NoAnswer]
    /\ UNCHANGED <<scenario, brokerVars, down, phase, subject>>

\* The answer is read, or the end of the connection is.
Return(c) ==
    LET frame == ReadFrame(down[c])
    IN  /\ pc[c] = "waiting"
        /\ frame.err = "truncated" => phase[c] = "ended"
        /\ result' = [result EXCEPT ![c] = Meaning(call[c], frame)]
        /\ pc' = [pc EXCEPT ![c] =
              IF call[c].op = OpSubscribe /\ result'[c].err = "none" THEN "streaming" ELSE "idle"]
        /\ down' = [down EXCEPT ![c] = IF frame.err = "none" THEN AfterFrame(@) ELSE <<>>]
        /\ UNCHANGED <<scenario, brokerVars, call, calls, up, serverVars>>

-----------------------------------------------------------------------------
\* A peer that is no client of this protocol

Forge(c, header) ==
    /\ c \in Here.conns
    /\ calls[c] = 0 /\ pc[c] = "idle"
    /\ header \in Here.forged
    /\ pc' = [pc EXCEPT ![c] = "forging"]
    /\ up' = [up EXCEPT ![c] = header]
    /\ UNCHANGED <<scenario, brokerVars, call, calls, result, down, serverVars>>

Scribble(c, b) ==
    /\ pc[c] = "forging" /\ phase[c] = "request" /\ up[c] # <<>>
    /\ ReadHeader(up[c]).err = "none" /\ ReadFrame(up[c]).err = "truncated"
    /\ up' = [up EXCEPT ![c] = Append(@, b)]
    /\ UNCHANGED <<scenario, brokerVars, clientVars, down, serverVars>>

Leave(c) ==
    /\ pc[c] = "forging"
    /\ pc' = [pc EXCEPT ![c] = "gone"]
    /\ UNCHANGED <<scenario, brokerVars, call, calls, result, wireVars, serverVars>>

-----------------------------------------------------------------------------
\* The broker's decision

\* sort.Strings
Before(s, t) ==
    \/ IsStrictPrefix(s, t)
    \/ \E i \in DOMAIN s \intersect DOMAIN t :
          s[i] < t[i] /\ SubSeq(s, 1, i - 1) = SubSeq(t, 1, i - 1)
Sorted(names) ==
    CHOOSE list \in [1 .. Cardinality(names) -> names] :
        \A i, j \in DOMAIN list : i < j => Before(list[i], list[j])

\* The first reason to refuse request r.
Reason(r) ==
    CASE ~open -> "closed"
      [] open /\ r.op = OpCreateTopic ->
            IF ValidateTopicName(r.topic) # "none" THEN ValidateTopicName(r.topic)
            ELSE IF r.topic \in DOMAIN topics THEN "exists"
            ELSE IF MaxTopics > 0 /\ Cardinality(DOMAIN topics) >= MaxTopics THEN "toomany"
            ELSE "none"
      [] open /\ r.op \in {OpPublish, OpPublishBatch, OpPublishNoAck, OpSubscribe} ->
            IF r.topic \in DOMAIN topics THEN "none" ELSE "notfound"
      [] open /\ r.op = OpListTopics -> "none"

\* The answer to a request that is not refused.  A batch of none, which only a peer
\* that checks nothing sends, is answered with offset 0 wherever the log ends
\* (partition.go:63).
Grant(r) ==
    CASE r.op \in {OpPublish, OpPublishBatch, OpPublishNoAck} ->
            [Answer("none") EXCEPT !.offset =
                IF r.payloads = <<>> THEN 0 ELSE Len(topics[r.topic])]
      [] r.op = OpListTopics ->
            [Answer("none") EXCEPT !.names = Sorted(DOMAIN topics)]
      [] r.op \in {OpCreateTopic, OpSubscribe} -> Answer("none")

\* What it does to the topics.
Messages(payloads, remote) ==
    [i \in DOMAIN payloads |-> [Payload |-> payloads[i], remote |-> remote]]
Effect(r) ==
    CASE r.op = OpCreateTopic ->
            [t \in DOMAIN topics \union {r.topic} |-> IF t = r.topic THEN <<>> ELSE topics[t]]
      [] r.op \in {OpPublish, OpPublishBatch, OpPublishNoAck} ->
            [topics EXCEPT ![r.topic] = @ \o Messages(r.payloads, TRUE)]
      [] r.op \in {OpListTopics, OpSubscribe} -> topics

-----------------------------------------------------------------------------
\* The server

\* errorCode: the code of a sentinel; the codec's errors have none.
ErrorCode(err) ==
    CASE err = "closed" -> 1
      [] err = "exists" -> 2
      [] err = "notfound" -> 3
      [] err = "empty" -> 4
      [] err = "toolong" -> 7
      [] err = "invalid" -> 8
      [] err = "toomany" -> 9
      [] err = "toolarge" -> 5
      [] OTHER -> 0

\* The text of an error: its wording does not matter here.
Text == <<0>>

\* The codes have room in 16 bits, and an error in a frame.
ASSUME ErrorsAssumption == 9 < Power[Len16] /\ Len16 + Len32 + Len(Text) <= MaxPayload

\* respond (and what it would be without the codes)
TextOnly(op, err, body) ==
    IF err # "none" THEN EncodeFrame(OpError, EncodeError(0, Text))
    ELSE EncodeFrame(op, body)
Response(op, err, body) ==
    IF err # "none" THEN EncodeFrame(OpError, EncodeError(ErrorCode(err), Text))
    ELSE EncodeFrame(op, body)

\* The request in a frame of the given opcode.
Understood(op, payload) ==
    LET publish == DecodePublish(payload)
        batch == DecodePublishBatch(payload)
        Request(err, topic, payloads) ==
            [err |-> err, request |-> [lib |-> TRUE, op |-> op, topic |-> topic, payloads |-> payloads]]
    IN  CASE op \in {OpCreateTopic, OpSubscribe} -> Request("none", payload, <<>>)
          [] op \in {OpPublish, OpPublishNoAck} ->
                IF publish.err # "none" THEN Request(publish.err, <<>>, <<>>)
                ELSE Request("none", publish.fields[1], <<publish.fields[2]>>)
          [] op = OpPublishBatch ->
                IF batch.err # "none" THEN Request(batch.err, <<>>, <<>>)
                ELSE Request("none", batch.fields[1], Tail(batch.fields))
          [] op = OpListTopics -> Request("none", <<>>, <<>>)

ResponseBody(r, answer) ==
    CASE r.op \in {OpCreateTopic, OpSubscribe} -> <<>>
      [] r.op = OpPublish -> MarshalOffset(answer.offset)
      [] r.op = OpPublishBatch -> EncodePublishAck(answer.offset, Len(r.payloads))
      [] r.op = OpListTopics -> EncodeTopics(answer.names)

\* The decision of handleConn, with its limits before and behind the broker's.
Decision(err, r) ==
    CASE err # "none" -> Answer(err)
      [] err = "none" /\ ~Pushable(r.payloads) -> Answer("toolarge")
      [] err = "none" /\ Pushable(r.payloads) ->
            IF Reason(r) # "none" THEN Answer(Reason(r))
            ELSE IF r.op = OpListTopics /\ ~Fits(ResponseBody(r, Grant(r))) THEN Answer("toolarge")
            ELSE Grant(r)

\* A frame that cannot be read ends the connection, after a last word if it
\* was too long.
Reject(c) ==
    LET frame == ReadFrame(up[c])
    IN  /\ phase[c] = "request"
        /\ frame.err # "none"
        /\ frame.err = "truncated" => pc[c] = "gone"
        /\ phase' = [phase EXCEPT ![c] = "ended"]
        /\ up' = [up EXCEPT ![c] = <<>>]
        /\ down' = IF frame.err = "toolarge"
                   THEN [down EXCEPT ![c] = @ \o Response(0, "toolarge", <<>>)] ELSE down
        /\ verdict' = [verdict EXCEPT ![c] = Answer(frame.err)]
        /\ UNCHANGED <<scenario, brokerVars, clientVars, subject, asked>>

\* Opcodes that are no requests are ignored.
Ignore(c) ==
    LET frame == ReadFrame(up[c])
    IN  /\ phase[c] = "request" /\ frame.err = "none"
        /\ frame.op \notin {OpCreateTopic, OpPublish, OpSubscribe, OpPublishBatch,
                            OpPublishNoAck, OpListTopics}
        /\ up' = [up EXCEPT ![c] = AfterFrame(@)]
        /\ UNCHANGED <<scenario, brokerVars, clientVars, down, serverVars>>

\* A request is decided, carried out and answered.  A subscription that the
\* broker grants makes the connection a stream.
Serve(c) ==
    LET frame == ReadFrame(up[c])
        understood == Understood(frame.op, frame.payload)
        r == understood.request
        answer == Decision(understood.err, r)
    IN  /\ phase[c] = "request" /\ frame.err = "none"
        /\ frame.op \in {OpCreateTopic, OpPublish, OpSubscribe, OpPublishBatch,
                         OpPublishNoAck, OpListTopics}
        /\ asked' = IF understood.err = "none" THEN [asked EXCEPT ![c] = r] ELSE asked
        /\ verdict' = [verdict EXCEPT ![c] = answer]
        /\ topics' = IF answer.err = "none" THEN Effect(r) ELSE topics
        /\ up' = [up EXCEPT ![c] = AfterFrame(@)]
        /\ down' = IF r.op = OpPublishNoAck THEN down
                   ELSE [down EXCEPT ![c] = @ \o Response(r.op, answer.err, 
                            IF answer.err = "none" THEN ResponseBody(r, answer) ELSE <<>>)]
        /\ IF r.op = OpSubscribe /\ answer.err = "none"
           THEN /\ phase' = [phase EXCEPT ![c] = "push"]
                /\ subject' = [subject EXCEPT ![c] = r.topic]
           ELSE UNCHANGED <<phase, subject>>
        /\ UNCHANGED <<scenario, open, clientVars>>

=============================================================================

------------------------------ MODULE PushProps ------------------------------
(***************************************************************************)
(* What the wire must guarantee: Codec.tla, Requests.tla and Push.tla.     *)
(***************************************************************************)
EXTENDS Push

\* The payload that a forging peer has sent so far, whatever its length says.
Draft(c) == SubSeq(up[c], HeaderLen + 1, Len(up[c]))

\* A scan of p succeeds exactly on what the encoder makes, and on more behind it.
Exact(p, scan, encoded) == scan.err = "none" => IsPrefix(encoded, p)

\* Whatever bytes come, no decoder leaves its input (which Go answers with a
\* panic), takes a negative length, reserves room for more entries than the
\* input could hold, or finds a field that is not there (fuzz_test.go, frame.go:92).
NothingMisread ==
    \A c \in Conns : pc[c] \in {"forging", "gone"} =>
        LET p == Draft(c)
            publish == DecodePublish(p)
            batch == DecodePublishBatch(p)
            names == DecodeTopics(p)
            message == DecodeMessage(p)
            error == DecodeError(p)
        IN  /\ ReadFrame(up[c]).err # "panic"
            /\ \A scan \in {publish, batch, names, message, error} :
                  scan.err # "panic" /\ scan.pos <= Len(p) /\ scan.room <= Len(p)
            /\ Exact(p, publish, EncodePublish(publish.fields[1], publish.fields[2]))
            /\ Exact(p, batch, EncodePublishBatch(batch.fields[1], Tail(batch.fields)))
            /\ Exact(p, names, EncodeTopics(names.fields))
            /\ Exact(p, message, EncodeMessage(At(p, 0, Len64), message.fields[1]))
            /\ Exact(p, error, EncodeError(At(p, 0, Len16), error.fields[1]))

\* The errors that remain themselves on the wire.
Sentinels == {"none", "closed", "exists", "notfound", "empty", "toolong", "invalid",
              "toomany", "toolarge"}

\* A call that returns was understood as it was meant, is told what the server
\* decided, error for error, and when it is told that something was stored or
\* created, that is there: the caller's own bytes at the offsets it was given.
CallIsCarriedOut ==
    \A c \in Conns : pc[c] \notin {"forging", "gone"} =>
        LET k == call[c]
            publishes == k.op \in {OpPublish, OpPublishBatch}
        IN  /\ asked[c] # NoCall => asked[c] = [k EXCEPT !.lib = TRUE]
            /\ pc[c] \in {"idle", "streaming"} /\ verdict[c] # NoAnswer /\ k.op # OpPublishNoAck =>
                  result[c] = [verdict[c] EXCEPT !.err = IF @ \in Sentinels THEN @ ELSE "text"]
            /\ result[c].err = "none" /\ k.op \notin {OpPublishNoAck, OpListTopics} =>
                  k.topic \in DOMAIN topics
            /\ result[c].err = "none" /\ publishes =>
                  SubSeq(topics[k.topic], result[c].offset + 1, result[c].offset + Len(k.payloads))
                      = Messages(k.payloads, TRUE)

\* A message that was accepted over the network can be pushed: its frame is
\* within the limit, for any peer and any length of topic (frame.go:24).
StoredFitsPush ==
    \A t \in DOMAIN topics : \A i \in DOMAIN topics[t] :
        topics[t][i].remote => Fits(EncodeMessage(i - 1, topics[t][i].Payload))

\* A stream and its reader have nothing left to do.
AtRest(c) ==
    /\ pc[c] = "streaming" /\ phase[c] = "push" /\ down[c] = <<>>
    /\ step[c] = "read" /\ cursor[c] = Len(Log(c))

\* What a subscriber has decoded is the log from its beginning, each message
\* once and in order, whatever streams run beside its own and wherever a write
\* is cut off: no torn frame is delivered.  At rest it is all of the log, unless
\* the reader was told an error: nothing is passed over in silence (Server.stream).
PushedIsLog ==
    \A c \in Conns :
        /\ \A i \in DOMAIN got[c] :
              got[c][i] = [Offset |-> i - 1, Payload |-> Log(c)[i].Payload]
        /\ last[c] \in {"none", "truncated", "toolarge"}
        /\ AtRest(c) /\ last[c] = "none" => Len(got[c]) = Len(Log(c))

\* A header is in the pool or in one batch, and one that is still to be written
\* is in the batch that writes it: no other stream can fill it (msgHeaderPool).
HeadersExclusive ==
    /\ \A c, d \in Conns : c # d => hdrs[c] \intersect hdrs[d] = {}
    /\ \A c \in Conns :
          /\ hdrs[c] \intersect free = {}
          /\ \A i \in DOMAIN bufs[c] : bufs[c][i].head \in hdrs[c] \union {NoHeader}

-----------------------------------------------------------------------------
\* The topics as their remote subscribers see them

\* Connection c was granted a subscription of t, and has not been told its end.
Following(c, t) ==
    /\ pc[c] \in {"waiting", "streaming"} /\ phase[c] # "request" /\ subject[c] = t
    /\ verdict[c].err = "none" /\ last[c] = "none"

PayloadsIn(list) == [i \in DOMAIN list |-> list[i].Payload]
Content(t) == IF t \in DOMAIN topics THEN PayloadsIn(topics[t]) ELSE <<>>
StatusOf(c, t) ==
    IF pc[c] # "streaming" \/ subject[c] # t THEN "new"
    ELSE IF last[c] = "none" THEN "live" ELSE "gone"
Delivered(c, t) == IF subject[c] = t THEN PayloadsIn(got[c]) ELSE <<>>

\* Topic t from the two ends of the wire: what the server has stored, and what
\* Subscription.Read has returned in the clients.  A subscription begins when
\* the client has the answer to it.  What was on the wire when the broker
\* closed is still read: the log is shut when nobody is left to read it.
RemoteLog(t) == INSTANCE BroadcastLog WITH
    Payloads <- Seq(Nat), Subs <- Conns, Batches <- Seq(Seq(Nat)), StoreMayFail <- FALSE,
    content <- Content(t),
    open <- open \/ \E c \in Conns : Following(c, t),
    status <- [c \in Conns |-> StatusOf(c, t)],
    delivered <- [c \in Conns |-> Delivered(c, t)]

\* What a step adds to topic t.
Added(t) == SubSeq(Content(t)', Len(Content(t)) + 1, Len(Content(t)'))

RemoteStep(t) ==
    \/ UNCHANGED RemoteLog(t)!vars
    \/ RemoteLog(t)!Publish(Added(t))
    \/ \E c \in Conns : RemoteLog(t)!Join(c) \/ RemoteLog(t)!Leave(c) \/ RemoteLog(t)!Deliver(c)
    \/ RemoteLog(t)!Shut

\* To its remote subscribers a topic is the broadcast log that it is in the
\* server's own process, in spite of the frames, the pool, torn writes and the
\* close of the broker: a batch that was published over the network enters it in
\* one piece, a subscriber reads it from its beginning without gap or repetition
\* whatever others do, and nothing comes behind the end it was told
\* (Server.stream, Subscription.Read).
RemoteIsOneLog ==
    /\ \A t \in DOMAIN topics : RemoteLog(t)!Init
    /\ [][\A t \in DOMAIN topics \union DOMAIN topics' : RemoteStep(t)]_vars

=============================================================================

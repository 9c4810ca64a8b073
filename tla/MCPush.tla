------------------------------- MODULE MCPush -------------------------------
(***************************************************************************)
(* Small instances of Push.tla for TLC.                                    *)
(***************************************************************************)
EXTENDS PushProps, TLC

CONSTANTS c1, c2, h1, h2, h3, h4

a == <<1>>
z == <<2>>
long == <<3, 1, 2>>
Times(n, b) == [i \in 1 .. n |-> b]
Names == {a, z, <<>>, <<1, 0>>, long, Times(4, 1)}
Small == <<5>>
Largest == Times(MaxMessage, 6)
TooLarge == Times(MaxMessage + 1, 6)

Do(op, topic, payloads) == [lib |-> TRUE, op |-> op, topic |-> topic, payloads |-> payloads]
Raw(op, topic, payloads) == [lib |-> FALSE, op |-> op, topic |-> topic, payloads |-> payloads]

LibraryCalls ==
    { Do(op, n, <<>>) : op \in {OpCreateTopic, OpSubscribe}, n \in Names } \union
    { Do(op, n, <<p>>) : op \in {OpPublish, OpPublishNoAck}, n \in Names,
                         p \in {<<>>, Small, Largest, TooLarge} } \union
    { Do(OpPublishBatch, a, ps) : ps \in {<<>>, <<Small, <<>>>>, <<Largest>>, <<TooLarge>>,
                                          <<Small, Largest>>} } \union
    { Do(OpPublishBatch, z, <<Small>>), Do(OpListTopics, <<>>, <<>>) }

\* Nothing is checked before it is sent.
RawCalls ==
    { Raw(op, n, <<p>>) : op \in {OpPublish, OpPublishNoAck}, n \in {a, <<>>},
                          p \in {Small, TooLarge} } \union
    { Raw(OpCreateTopic, n, <<>>) : n \in Names } \union
    { Raw(OpPublishBatch, a, <<>>), Raw(OpMessage, a, <<>>) }

Forged ==
    { Header(OpPublish, n) : n \in 0 .. 6 } \union
    { Header(OpPublishBatch, n) : n \in 0 .. 6 } \union
    { Header(OpPublish, n) : n \in {MaxPayload + 1, IntMax + 1, Power[Len32] - 1} } \union
    { <<Version, Magic, OpPublish, 0, 0>>, <<Magic, Version + 1, OpPublish, 0, 0>>,
      <<Magic, Version>>, Header(9, 0) }

Calls == [conns |-> {c1}, calls |-> LibraryCalls \union RawCalls, forged |-> {},
          topics |-> {a}, local |-> {}]
Crowded == [conns |-> {c1}, calls |-> LibraryCalls, forged |-> {},
            topics |-> {a, z, <<2, 3>>, <<2, 1>>}, local |-> {}]
Strangers == [conns |-> {c1}, calls |-> {}, forged |-> Forged, topics |-> {a}, local |-> {}]
Streams == [conns |-> {c1, c2}, calls |-> {Do(OpSubscribe, a, <<>>)}, forged |-> {},
            topics |-> {a}, local |-> {<<a, <<8, 9>>>>, <<a, TooLarge>>}]
Mixed == [conns |-> {c1, c2}, forged |-> {}, topics |-> {a}, local |-> {},
          calls |-> {Do(OpSubscribe, a, <<>>), Do(OpPublishBatch, a, <<Small, <<>>>>)}]

\* Pooled headers differ in nothing but their names.
MCSymmetry == Permutations(Headers)

MCScenarios ==
    [calls |-> Calls, crowded |-> Crowded, strangers |-> Strangers, streams |-> Streams,
     mixed |-> Mixed]

=============================================================================

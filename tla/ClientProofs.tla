---------------------------- MODULE ClientProofs ----------------------------
(***************************************************************************)
(* Proofs about Client.tla for any callers and publications, any number of *)
(* frames under way, and any combination of time-outs.                     *)
(***************************************************************************)
EXTENDS ClientProps, SequenceTheorems, TLAPS

-----------------------------------------------------------------------------
\* The inductive invariant

\* A call is where its request can bring it.
CallInv ==
    \A c \in Callers :
        /\ pc[c] = "lock" => req[c] # Quit
        /\ pc[c] = "close" => req[c] = Quit
        /\ pc[c] \in {"write", "read"} => req[c] \in Publishes \union {List, Sub}
        /\ pc[c] \in {"pull", "more"} => req[c] \in {Pull, PullMany}

\* Who writes, reads an answer or waits for a push holds the lock, so that there
\* is at most one of them; requests only get it before the client streams, and a
\* streaming client has no read deadline.
LockInv ==
    /\ \A c \in Callers :
          /\ pc[c] \in {"write", "read", "pull"} => mu = c
          /\ pc[c] \in {"write", "read"} => ~streaming
          /\ pc[c] # "idle" /\ req[c] \in {Pull, PullMany} => streaming
    /\ streaming => ~deadline

\* A call that began after Close gets no further than the lock, and has nothing.
LateInv ==
    /\ ~socket \/ closeDone => closed
    /\ \A c \in Callers :
          late[c] =>
              /\ closeDone /\ pc[c] \in {"idle", "lock", "close"}
              /\ pc[c] # "idle" => result[c] = "none"

\* Without a read time-out no frame is torn; without any the writer fails with the
\* connection.
NoTimeoutInv ==
    /\ ~ReadTimeout => ~deadline /\ toClient \in Seq(Frames \ {Torn})
    /\ timeouts = {} => (broken => closed \/ phase = "ended")

\* The server answers one subscription, before the first push.  Until the client has
\* that answer it has read no push; from then on all that comes are pushes, from
\* where it has got to, without a gap as long as the server can go on.
StreamInv ==
    /\ phase = "request" =>
          /\ ~streaming /\ cursor = 0
          /\ \A i \in 1 .. Len(toClient) : toClient[i].op \notin {"subscribe", "message"}
    /\ ~streaming =>
          /\ got = <<>>
          /\ \A i \in 1 .. Len(toClient) :
                toClient[i].op = "subscribe" =>
                    /\ Len(toClient) <= i + cursor
                    /\ phase = "push" /\ socket => Len(toClient) = i + cursor
                    /\ \A j \in i + 1 .. Len(toClient) : toClient[j] = Message(j - i)
    /\ streaming =>
          /\ Len(got) + Len(toClient) <= cursor
          /\ phase = "push" /\ socket => Len(got) + Len(toClient) = cursor
          /\ \A j \in 1 .. Len(toClient) : toClient[j] = Message(Len(got) + j)

\* Without a read time-out a connection carries one round trip at a time: only requests
\* that are not answered; behind them the one whose caller waits; or its answer.
OneRoundTrip ==
    phase = "request" /\ socket =>
        \/ toClient = <<>> /\ \A i \in 1 .. Len(toServer) : toServer[i].op = "async"
        \/ \E c \in Callers :
              /\ pc[c] = "read" /\ toClient = <<>>
              /\ toServer # <<>> /\ toServer[Len(toServer)] = req[c]
              /\ \A i \in 1 .. Len(toServer) - 1 : toServer[i].op = "async"
        \/ \E c \in Callers : pc[c] = "read" /\ toServer = <<>> /\ Len(toClient) = 1

\* The answer to a publication comes first in the stream, and its caller is there.
AnswerIsOwn ==
    \A i \in 1 .. Len(toClient) :
        toClient[i].op \in {"publish", "batch"} =>
            /\ i = 1
            /\ \E c \in Callers : pc[c] = "read" /\ Holds(req[c], toClient[i].base)

RoundTripInv == ~ReadTimeout => OneRoundTrip /\ AnswerIsOwn /\ AckIsOwn

InductiveInv ==
    /\ TypeOK
    /\ CallInv
    /\ LockInv
    /\ IdlePullStays
    /\ LateInv
    /\ NoTimeoutInv
    /\ StreamInv
    /\ StreamIsPrefix
    /\ RoundTripInv

-----------------------------------------------------------------------------

\* What calls, the lock and the deadline have to do with one another.
TogetherInv == CallInv /\ LockInv /\ IdlePullStays

-----------------------------------------------------------------------------
\* What sequences and requests are made of

\* Payloads that are published are payloads; a publication has at least one.
LEMMA PublicationsHavePayloads ==
    ASSUME NEW r \in Publishes
    PROVE  /\ r.payloads \in Seq(Payloads) /\ Len(r.payloads) \in Nat
           /\ r.op \in {"publish", "batch", "async"}
  BY ClientAssumption, LenProperties

\* Other connections publish payloads, too.
LEMMA ForeignArePayloads == Foreign \subseteq Payloads
  BY DEF Payloads

\* The calls that read pushes are no publications, and no other requests.
LEMMA PullsAreNoRequests ==
    /\ Pull \notin Publishes \union {List, Sub} /\ PullMany \notin Publishes \union {List, Sub}
    /\ Quit \notin Publishes \union {List, Sub} /\ Quit # Pull /\ Quit # PullMany
<1>1. Pull \notin Publishes /\ PullMany \notin Publishes /\ Quit \notin Publishes
  BY PublicationsHavePayloads DEF Pull, PullMany, Quit
<1>2. QED
  BY <1>1 DEF Pull, PullMany, Quit, List, Sub

\* What is left of the frames to the client when one of them is taken or torn.
LEMMA FramesOff ==
    ASSUME NEW S, toClient \in Seq(S), toClient # <<>>
    PROVE  /\ Head(toClient) \in S /\ Tail(toClient) \in Seq(S)
           /\ Torn \in S => <<Torn>> \o Tail(toClient) \in Seq(S)
<1>1. Head(toClient) \in S /\ Tail(toClient) \in Seq(S)
  BY HeadTailProperties
<1>2. ASSUME Torn \in S PROVE <<Torn>> \o Tail(toClient) \in Seq(S)
  <2>1. <<Torn>> \in Seq(S)
    BY <1>2
  <2>2. QED
    BY <1>1, <2>1, ConcatProperties
<1>3. QED
  BY <1>1, <1>2

\* What an attempt to read the remains of a torn frame leaves.
LEMMA FramesAfterTorn ==
    ASSUME NEW S, toClient \in Seq(S), toClient # <<>>, Head(toClient) = Torn
    PROVE  AfterTorn \subseteq Seq(S)
<1>1. Head(toClient) \in S /\ Tail(toClient) \in Seq(S)
  BY FramesOff
<1>2. ASSUME Len(toClient) > 1 PROVE <<Torn>> \o Tail(Tail(toClient)) \in Seq(S)
  <2>1. Len(Tail(toClient)) = Len(toClient) - 1 /\ Len(toClient) \in Nat
    BY HeadTailProperties, LenProperties
  <2>2. Tail(toClient) # <<>>
    <3>1. Len(Tail(toClient)) # 0
      BY <1>2, <2>1
    <3>2. QED
      BY <3>1, EmptySeq
  <2>3. Tail(Tail(toClient)) \in Seq(S)
    BY <1>1, <2>2, HeadTailProperties
  <2>4. <<Torn>> \in Seq(S)
    BY <1>1
  <2>5. QED
    BY <2>3, <2>4, ConcatProperties
<1>3. QED
  BY <1>1, <1>2 DEF AfterTorn

\* What the server adds to them.
LEMMA FramesOn ==
    ASSUME NEW S, toClient \in Seq(S), NEW f \in S, Respond(f)
    PROVE  toClient' \in Seq(S)
  BY AppendProperties DEF Respond

\* The server sends whole frames.
LEMMA AnswersAreWhole ==
    ASSUME NEW op \in {"publish", "batch", "list", "subscribe", "message", "error"},
           NEW base \in Nat, NEW body \in Nat \union Payloads
    PROVE  Answer(op, base, body) \in Frames \ {Torn}
  BY DEF Answer, Torn, Frames

\* So is every push of a message that is in the log.
LEMMA MessagesAreWhole ==
    ASSUME NEW i \in Nat \ {0}, log[i] \in Payloads
    PROVE  Message(i) \in Frames \ {Torn}
<1>1. i - 1 \in Nat
  OBVIOUS
<1>2. Answer("message", i - 1, log[i]) \in Frames \ {Torn}
  BY <1>1, AnswersAreWhole
<1>3. QED
  BY <1>2 DEF Message

\* And an error.
LEMMA ErrorIsWhole == Error \in Frames \ {Torn} /\ Torn \in Frames
  BY AnswersAreWhole DEF Error, Answer, Torn, Frames

\* Every frame that the handler adds is a whole one.
LEMMA HandlerFrames ==
    ASSUME TypeOK, HandlerStep, NEW S, Frames \ {Torn} \subseteq S, toClient \in Seq(S)
    PROVE  toClient' \in Seq(S)
<1>1. CASE ServePublish
  <2> DEFINE r == Head(toServer)
  <2>1. \/ toClient' = toClient
        \/ r.op # "async" /\ Respond(Answer(r.op, Len(log), Len(r.payloads)))
        \/ Respond(Error)
    BY <1>1 DEF ServePublish
  <2>2. /\ r.op \in {"publish", "batch", "async"}
        /\ Len(r.payloads) \in Nat /\ Len(log) \in Nat
    BY <1>1, PublicationsHavePayloads, LenProperties DEF ServePublish, TypeOK
  <2>3. r.op # "async" => Answer(r.op, Len(log), Len(r.payloads)) \in S
    BY <2>2, AnswersAreWhole
  <2>4. QED
    BY <2>1, <2>3, ErrorIsWhole, FramesOn
<1>2. CASE ServeList
  <2>1. Respond(Answer("list", 0, 0)) \/ Respond(Error)
    BY <1>2 DEF ServeList
  <2>2. Answer("list", 0, 0) \in S
    BY AnswersAreWhole
  <2>3. QED
    BY <2>1, <2>2, ErrorIsWhole, FramesOn
<1>3. CASE ServeSubscribe
  <2>1. Respond(Answer("subscribe", 0, 0)) \/ Respond(Error)
    BY <1>3 DEF ServeSubscribe
  <2>2. Answer("subscribe", 0, 0) \in S
    BY AnswersAreWhole
  <2>3. QED
    BY <2>1, <2>2, ErrorIsWhole, FramesOn
<1>4. CASE Push
  <2>1. cursor \in Nat /\ cursor + 1 \in 1 .. Len(log) /\ Respond(Message(cursor + 1))
    BY <1>4, LenProperties DEF Push, TypeOK
  <2>2. log[cursor + 1] \in Payloads
    BY <2>1, ElementOfSeq DEF TypeOK
  <2>3. Message(cursor + 1) \in S
    <3>1. cursor + 1 \in Nat \ {0}
      BY <2>1
    <3>2. QED
      BY <2>2, <3>1, MessagesAreWhole
  <2>4. QED
    BY <2>1, <2>3, FramesOn
<1>5. QED
  BY <1>1, <1>2, <1>3, <1>4 DEF HandlerStep

\* Every step gives every variable a value of its type.
LEMMA TypeInductive ==
    InductiveInv /\ [Next]_vars => TypeOK'
<1> SUFFICES ASSUME InductiveInv, [Next]_vars PROVE TypeOK'
  OBVIOUS
<1> USE DEF InductiveInv, TypeOK, Results, Goto, Return, Finish, Outcome,
       vars, clientVars, callVars, serverVars, history
<1>1. ASSUME NEW c \in Callers, Refused(c) PROVE TypeOK'
  BY <1>1 DEF Refused, LockFree, SeesClosed
<1>2. ASSUME NEW c \in Callers, Lock(c) PROVE TypeOK'
  BY <1>2 DEF Lock, LockFree, SeesClosed
<1>3. ASSUME NEW c \in Callers, Write(c) PROVE TypeOK'
  <2>1. req[c] \in Publishes \union {List, Sub}
    BY <1>3 DEF Write, CallInv
  <2>2. toServer' \in Seq(Publishes \union {List, Sub})
    BY <1>3, <2>1, AppendProperties DEF Write
  <2>3. /\ deadline' \in BOOLEAN /\ mu' \in Callers \union {None}
        /\ pc' \in [Callers -> {"idle", "lock", "write", "read", "pull", "more", "close"}]
        /\ result' \in [Callers -> Results]
    <3>1. CASE req[c].op = "async"
      BY <1>3, <3>1 DEF Write
    <3>2. CASE req[c].op # "async"
      <4>1. deadline' = ("read" \in timeouts)
        BY <1>3, <3>2 DEF Write, ArmDeadline, ReadTimeout
      <4>2. deadline' \in BOOLEAN
        BY <4>1
      <4>3. QED
        BY <1>3, <3>2, <4>2 DEF Write
    <3>3. QED
      BY <3>1, <3>2
  <2>4. UNCHANGED <<timeouts, streaming, closed, closer, socket, broken, req, late, toClient,
                    serverVars, log, history>>
    BY <1>3 DEF Write
  <2>5. QED
    BY <2>2, <2>3, <2>4
<1>4. ASSUME NEW c \in Callers, WriteFails(c) PROVE TypeOK'
  BY <1>4 DEF WriteFails, Failure
<1>5. ASSUME NEW c \in Callers, Read(c) PROVE TypeOK'
  <2> DEFINE f == Head(toClient)
  <2>1. f \in Frames /\ toClient' \in Seq(Frames)
    BY <1>5, FramesOff DEF Read
  <2>2. /\ mu' = None
        /\ pc' \in [Callers -> {"idle", "lock", "write", "read", "pull", "more", "close"}]
        /\ result' \in [Callers -> Results]
    BY <1>5 DEF Read
  <2>3. streaming' \in BOOLEAN /\ deadline' \in BOOLEAN
    BY <1>5 DEF Read, ClearDeadline
  <2>4. acked' \subseteq [request : Publishes, base : Nat]
    <3>1. f.base \in Nat
      BY <2>1 DEF Frames
    <3>2. \/ acked' = acked
          \/ /\ req[c] \in Publishes
             /\ acked' = acked \union {[request |-> req[c], base |-> f.base]}
      BY <1>5 DEF Read
    <3>3. QED
      BY <3>1, <3>2
  <2>5. UNCHANGED <<timeouts, closed, closer, socket, broken, req, late, toServer, serverVars,
                    log, called, got, closeDone>>
    BY <1>5 DEF Read
  <2>6. QED
    BY <2>1, <2>2, <2>3, <2>4, <2>5
<1>6. ASSUME NEW c \in Callers, ReadFails(c) PROVE TypeOK'
  <2>1. toClient' \in Seq(Frames)
    BY <1>6, FramesAfterTorn, EmptySeq DEF ReadFails
  <2>2. QED
    BY <1>6, <2>1 DEF ReadFails, EndPull, Failure
<1>7. ASSUME NEW c \in Callers, ReadExpires(c) PROVE TypeOK'
  <2>1. toClient' \in Seq(Frames)
    BY <1>7, FramesOff, ErrorIsWhole DEF ReadExpires
  <2>2. \E how \in Results : Finish(c, how)
    BY <1>7 DEF ReadExpires, EndPull, Results
  <2>3. UNCHANGED <<timeouts, streaming, closed, closer, socket, broken, deadline, req, late,
                    toServer, serverVars, log, history>>
    BY <1>7 DEF ReadExpires
  <2>4. QED
    BY <2>1, <2>2, <2>3
<1>8. ASSUME NEW c \in Callers, ReadPush(c) PROVE TypeOK'
  <2> DEFINE f == Head(toClient)
  <2>1. f \in Frames /\ toClient' \in Seq(Frames)
    BY <1>8, FramesOff DEF ReadPush
  <2>2. got' \in Seq([Offset : Nat, Payload : Nat \union Payloads])
    <3>1. [Offset |-> f.base, Payload |-> f.body]
             \in [Offset : Nat, Payload : Nat \union Payloads]
      BY <2>1 DEF Frames
    <3>2. got' = got \/ got' = Append(got, [Offset |-> f.base, Payload |-> f.body])
      BY <1>8 DEF ReadPush
    <3>3. Append(got, [Offset |-> f.base, Payload |-> f.body])
             \in Seq([Offset : Nat, Payload : Nat \union Payloads])
      BY <3>1, AppendProperties
    <3>4. QED
      BY <3>2, <3>3
  <2>3. /\ mu' = None
        /\ pc' \in [Callers -> {"idle", "lock", "write", "read", "pull", "more", "close"}]
        /\ result' \in [Callers -> Results]
    BY <1>8 DEF ReadPush, EndPull
  <2>4. UNCHANGED <<timeouts, streaming, closed, closer, socket, broken, deadline, req, late,
                    toServer, serverVars, log, called, acked, closeDone>>
    BY <1>8 DEF ReadPush
  <2>5. QED
    BY <2>1, <2>2, <2>3, <2>4
<1>9. ASSUME NEW c \in Callers, MoreOrDone(c) PROVE TypeOK'
  BY <1>9, ZenonT(30) DEF MoreOrDone
<1>10. ASSUME NEW c \in Callers, CloseMarks(c) PROVE TypeOK'
  BY <1>10 DEF CloseMarks, MarkFirst
<1>11. ASSUME NEW c \in Callers, CloseHangsUp(c) PROVE TypeOK'
  BY <1>11 DEF CloseHangsUp, CloseSocket
<1>12. ASSUME NEW c \in Callers, CloseAgain(c) PROVE TypeOK'
  BY <1>12 DEF CloseAgain
<1>13. ASSUME NEW c \in Callers, NEW r \in Requests, Call(c, r) PROVE TypeOK'
  BY <1>13, ZenonT(30) DEF Call, MayCall, RefusedAtOnce
<1>14. CASE ServePublish
  <2> DEFINE r == Head(toServer)
  <2>1. r \in Publishes /\ toServer # <<>> /\ toServer' = Tail(toServer)
        /\ UNCHANGED <<clientVars, callVars, serverVars, history>>
    BY <1>14 DEF ServePublish
  <2>2. toServer' \in Seq(Publishes \union {List, Sub})
    BY <2>1, HeadTailProperties
  <2>3. /\ r.payloads \in Seq(Payloads) /\ Len(r.payloads) \in Nat
        /\ r.op \in {"publish", "batch", "async"} /\ Len(log) \in Nat
    BY <2>1, PublicationsHavePayloads, LenProperties
  <2>4. /\ log \o r.payloads \in Seq(Payloads)
        /\ Len(log \o r.payloads) = Len(log) + Len(r.payloads)
    BY <2>3, ConcatProperties
  <2>5. log' \in Seq(Payloads) /\ cursor' \in 0 .. Len(log')
    <3>1. log' = log \/ log' = log \o r.payloads
      BY <1>14 DEF ServePublish
    <3>2. cursor' = cursor /\ cursor \in 0 .. Len(log)
      BY <2>1
    <3>3. CASE log' = log
      BY <3>2, <3>3
    <3>4. CASE log' = log \o r.payloads
      BY <2>3, <2>4, <3>2, <3>4
    <3>5. QED
      BY <3>1, <3>3, <3>4
  <2>6. toClient' \in Seq(Frames)
    BY <1>14, HandlerFrames DEF HandlerStep
  <2>7. QED
    BY <2>1, <2>2, <2>5, <2>6
<1>15. CASE ServeList
  <2>1. toServer' \in Seq(Publishes \union {List, Sub})
    BY <1>15, HeadTailProperties DEF ServeList
  <2>4. toClient' \in Seq(Frames)
    BY <1>15, HandlerFrames DEF HandlerStep
  <2>5. UNCHANGED <<clientVars, callVars, serverVars, log, history>>
    BY <1>15 DEF ServeList
  <2>6. QED
    BY <2>1, <2>4, <2>5
<1>16. CASE ServeSubscribe
  <2>1. toServer' \in Seq(Publishes \union {List, Sub})
    <3>1. Tail(toServer) \in Seq(Publishes \union {List, Sub})
      BY <1>16, HeadTailProperties DEF ServeSubscribe
    <3>2. <<>> \in Seq(Publishes \union {List, Sub})
      BY EmptySeq
    <3>3. toServer' = Tail(toServer) \/ toServer' = <<>>
      BY <1>16 DEF ServeSubscribe
    <3>4. QED
      BY <3>1, <3>2, <3>3
  <2>4. toClient' \in Seq(Frames)
    BY <1>16, HandlerFrames DEF HandlerStep
  <2>5. /\ phase' \in {"request", "push", "ended"}
        /\ UNCHANGED <<clientVars, callVars, cursor, log, history>>
    BY <1>16 DEF ServeSubscribe
  <2>6. QED
    BY <2>1, <2>4, <2>5
<1>17. CASE Push
  <2>1. /\ cursor \in Nat /\ cursor < Len(log) /\ Len(log) \in Nat
        /\ cursor' = cursor + 1 /\ Respond(Message(cursor + 1))
        /\ UNCHANGED <<clientVars, callVars, toServer, phase, log, history>>
    BY <1>17, LenProperties DEF Push
  <2>4. toClient' \in Seq(Frames)
    BY <1>17, HandlerFrames DEF HandlerStep
  <2>5. cursor' \in 0 .. Len(log')
    BY <2>1
  <2>6. QED
    BY <2>1, <2>4, <2>5
<1>18. CASE ServerEnds
  BY <1>18 DEF ServerEnds
<1>19. ASSUME NEW m \in Foreign, PublishElsewhere(m) PROVE TypeOK'
  <2>1. log' = Append(log, m) /\ m \in Payloads
        /\ UNCHANGED <<clientVars, callVars, toServer, toClient, serverVars, history>>
    BY <1>19, ForeignArePayloads DEF PublishElsewhere
  <2>2. log' \in Seq(Payloads) /\ Len(log') = Len(log) + 1 /\ Len(log) \in Nat
    BY <2>1, AppendProperties, LenProperties
  <2>3. cursor' \in 0 .. Len(log')
    BY <2>1, <2>2
  <2>4. QED
    BY <2>1, <2>2, <2>3
<1>20. CASE UNCHANGED vars
  BY <1>20
<1>21. QED
  BY <1>1, <1>2, <1>3, <1>4, <1>5, <1>6, <1>7, <1>8, <1>9, <1>10, <1>11,
     <1>12, <1>13, <1>14, <1>15, <1>16, <1>17, <1>18, <1>19, <1>20 DEF Next,
     CallStep, HandlerStep

\* Every step keeps calls and the lock together.
LEMMA CallsInductive ==
    InductiveInv /\ [Next]_vars => TogetherInv'
<1> SUFFICES ASSUME InductiveInv, [Next]_vars PROVE TogetherInv'
  OBVIOUS
<1> USE DEF InductiveInv, TypeOK, TogetherInv, CallInv, LockInv,
       IdlePullStays, Goto, Return, Finish, Outcome, vars, clientVars, callVars,
       serverVars, history
<1>1. ASSUME NEW c \in Callers, Refused(c) PROVE TogetherInv'
  BY <1>1 DEF Refused, LockFree, SeesClosed
<1>2. ASSUME NEW c \in Callers, Lock(c) PROVE TogetherInv'
  BY <1>2, ClientAssumption, PullsAreNoRequests DEF Lock, LockFree, SeesClosed, Requests
<1>3. ASSUME NEW c \in Callers, Write(c) PROVE TogetherInv'
  BY <1>3 DEF Write, ArmDeadline, ReadTimeout
<1>4. ASSUME NEW c \in Callers, WriteFails(c) PROVE TogetherInv'
  BY <1>4 DEF WriteFails, Failure
<1>5. ASSUME NEW c \in Callers, Read(c) PROVE TogetherInv'
  BY <1>5 DEF Read, Answers, ClearDeadline
<1>6. ASSUME NEW c \in Callers, ReadFails(c) PROVE TogetherInv'
  BY <1>6 DEF ReadFails, EndPull, Failure
<1>7. ASSUME NEW c \in Callers, ReadExpires(c) PROVE TogetherInv'
  BY <1>7, PullsAreNoRequests DEF ReadExpires, EndPull
<1>8. ASSUME NEW c \in Callers, ReadPush(c) PROVE TogetherInv'
  BY <1>8 DEF ReadPush, EndPull
<1>9. ASSUME NEW c \in Callers, MoreOrDone(c) PROVE TogetherInv'
  BY <1>9, ClientAssumption, PullsAreNoRequests DEF MoreOrDone
<1>10. ASSUME NEW c \in Callers, CloseMarks(c) PROVE TogetherInv'
  BY <1>10 DEF CloseMarks, MarkFirst
<1>11. ASSUME NEW c \in Callers, CloseHangsUp(c) PROVE TogetherInv'
  BY <1>11 DEF CloseHangsUp, CloseSocket
<1>12. ASSUME NEW c \in Callers, CloseAgain(c) PROVE TogetherInv'
  BY <1>12 DEF CloseAgain
<1>13. ASSUME NEW c \in Callers, NEW r \in Requests, Call(c, r) PROVE TogetherInv'
  BY <1>13 DEF Call, MayCall, RefusedAtOnce
<1>14. CASE ServePublish
  BY <1>14 DEF ServePublish, Respond
<1>15. CASE ServeList
  BY <1>15 DEF ServeList, Respond
<1>16. CASE ServeSubscribe
  BY <1>16 DEF ServeSubscribe, Respond
<1>17. CASE Push
  BY <1>17 DEF Push, Respond
<1>18. CASE ServerEnds
  BY <1>18 DEF ServerEnds
<1>19. ASSUME NEW m \in Foreign, PublishElsewhere(m) PROVE TogetherInv'
  BY <1>19 DEF PublishElsewhere
<1>20. CASE UNCHANGED vars
  BY <1>20
<1>21. QED
  BY <1>1, <1>2, <1>3, <1>4, <1>5, <1>6, <1>7, <1>8, <1>9, <1>10, <1>11,
     <1>12, <1>13, <1>14, <1>15, <1>16, <1>17, <1>18, <1>19, <1>20 DEF Next,
     CallStep, HandlerStep

\* Every step keeps late calls out.
LEMMA LateInductive ==
    InductiveInv /\ [Next]_vars => LateInv'
<1> SUFFICES ASSUME InductiveInv, [Next]_vars PROVE LateInv'
  OBVIOUS
<1> USE DEF InductiveInv, TypeOK, CallInv, LateInv, Goto, Return, Finish, Outcome,
       vars, clientVars, callVars, serverVars, history
<1>1. ASSUME NEW c \in Callers, Refused(c) PROVE LateInv'
  BY <1>1 DEF Refused, LockFree, SeesClosed
<1>2. ASSUME NEW c \in Callers, Lock(c) PROVE LateInv'
  BY <1>2 DEF Lock, LockFree, SeesClosed
<1>3. ASSUME NEW c \in Callers, Write(c) PROVE LateInv'
  BY <1>3 DEF Write, ArmDeadline, ReadTimeout
<1>4. ASSUME NEW c \in Callers, WriteFails(c) PROVE LateInv'
  BY <1>4 DEF WriteFails, Failure
<1>5. ASSUME NEW c \in Callers, Read(c) PROVE LateInv'
  BY <1>5 DEF Read, Answers, ClearDeadline
<1>6. ASSUME NEW c \in Callers, ReadFails(c) PROVE LateInv'
  BY <1>6 DEF ReadFails, EndPull, Failure
<1>7. ASSUME NEW c \in Callers, ReadExpires(c) PROVE LateInv'
  BY <1>7 DEF ReadExpires, EndPull
<1>8. ASSUME NEW c \in Callers, ReadPush(c) PROVE LateInv'
  BY <1>8 DEF ReadPush, EndPull
<1>9. ASSUME NEW c \in Callers, MoreOrDone(c) PROVE LateInv'
  BY <1>9 DEF MoreOrDone
<1>10. ASSUME NEW c \in Callers, CloseMarks(c) PROVE LateInv'
  BY <1>10 DEF CloseMarks, MarkFirst
<1>11. ASSUME NEW c \in Callers, CloseHangsUp(c) PROVE LateInv'
  BY <1>11 DEF CloseHangsUp, CloseSocket
<1>12. ASSUME NEW c \in Callers, CloseAgain(c) PROVE LateInv'
  BY <1>12 DEF CloseAgain
<1>13. ASSUME NEW c \in Callers, NEW r \in Requests, Call(c, r) PROVE LateInv'
  BY <1>13 DEF Call, MayCall, RefusedAtOnce
<1>14. CASE ServePublish
  BY <1>14 DEF ServePublish, Respond
<1>15. CASE ServeList
  BY <1>15 DEF ServeList, Respond
<1>16. CASE ServeSubscribe
  BY <1>16 DEF ServeSubscribe, Respond
<1>17. CASE Push
  BY <1>17 DEF Push, Respond
<1>18. CASE ServerEnds
  BY <1>18 DEF ServerEnds
<1>19. ASSUME NEW m \in Foreign, PublishElsewhere(m) PROVE LateInv'
  BY <1>19 DEF PublishElsewhere
<1>20. CASE UNCHANGED vars
  BY <1>20
<1>21. QED
  BY <1>1, <1>2, <1>3, <1>4, <1>5, <1>6, <1>7, <1>8, <1>9, <1>10, <1>11,
     <1>12, <1>13, <1>14, <1>15, <1>16, <1>17, <1>18, <1>19, <1>20 DEF Next,
     CallStep, HandlerStep

\* No step tears a frame unless there are time-outs.
LEMMA NoTimeoutInductive ==
    InductiveInv /\ [Next]_vars => NoTimeoutInv'
<1> SUFFICES ASSUME InductiveInv, [Next]_vars PROVE NoTimeoutInv'
  OBVIOUS
<1> USE DEF ReadTimeout, InductiveInv, TypeOK, LateInv, NoTimeoutInv, Goto, Return, Finish, Outcome,
       vars, clientVars, callVars, serverVars, history
<1>1. ASSUME NEW c \in Callers, Refused(c) PROVE NoTimeoutInv'
  BY <1>1 DEF Refused, LockFree, SeesClosed
<1>2. ASSUME NEW c \in Callers, Lock(c) PROVE NoTimeoutInv'
  BY <1>2 DEF Lock, LockFree, SeesClosed
<1>3. ASSUME NEW c \in Callers, Write(c) PROVE NoTimeoutInv'
  BY <1>3 DEF Write, ArmDeadline, ReadTimeout
<1>4. ASSUME NEW c \in Callers, WriteFails(c) PROVE NoTimeoutInv'
  BY <1>4 DEF WriteFails, WriteTimeout
<1>5. ASSUME NEW c \in Callers, Read(c) PROVE NoTimeoutInv'
  <2>1. ~ReadTimeout => toClient' \in Seq(Frames \ {Torn})
    BY <1>5, FramesOff, EmptySeq DEF Read
  <2>2. QED
    BY <1>5, <2>1 DEF Read, ClearDeadline
<1>6. ASSUME NEW c \in Callers, ReadFails(c) PROVE NoTimeoutInv'
  <2>1. ~ReadTimeout => toClient' \in Seq(Frames \ {Torn})
    BY <1>6, FramesAfterTorn, EmptySeq DEF ReadFails
  <2>2. QED
    BY <1>6, <2>1 DEF ReadFails
<1>7. ASSUME NEW c \in Callers, ReadExpires(c) PROVE NoTimeoutInv'
  BY <1>7 DEF ReadExpires, EndPull
<1>8. ASSUME NEW c \in Callers, ReadPush(c) PROVE NoTimeoutInv'
  <2>1. ~ReadTimeout => toClient' \in Seq(Frames \ {Torn})
    BY <1>8, FramesOff, EmptySeq DEF ReadPush
  <2>2. QED
    BY <1>8, <2>1 DEF ReadPush
<1>9. ASSUME NEW c \in Callers, MoreOrDone(c) PROVE NoTimeoutInv'
  BY <1>9 DEF MoreOrDone
<1>10. ASSUME NEW c \in Callers, CloseMarks(c) PROVE NoTimeoutInv'
  BY <1>10 DEF CloseMarks, MarkFirst
<1>11. ASSUME NEW c \in Callers, CloseHangsUp(c) PROVE NoTimeoutInv'
  BY <1>11 DEF CloseHangsUp, CloseSocket
<1>12. ASSUME NEW c \in Callers, CloseAgain(c) PROVE NoTimeoutInv'
  BY <1>12 DEF CloseAgain
<1>13. ASSUME NEW c \in Callers, NEW r \in Requests, Call(c, r) PROVE NoTimeoutInv'
  BY <1>13 DEF Call, MayCall, RefusedAtOnce
<1>14. CASE ServePublish
  <2>1. ~ReadTimeout => toClient' \in Seq(Frames \ {Torn})
    BY <1>14, HandlerFrames DEF HandlerStep
  <2>2. QED
    BY <1>14, <2>1 DEF ServePublish
<1>15. CASE ServeList
  <2>1. ~ReadTimeout => toClient' \in Seq(Frames \ {Torn})
    BY <1>15, HandlerFrames DEF HandlerStep
  <2>2. QED
    BY <1>15, <2>1 DEF ServeList
<1>16. CASE ServeSubscribe
  <2>1. ~ReadTimeout => toClient' \in Seq(Frames \ {Torn})
    BY <1>16, HandlerFrames DEF HandlerStep
  <2>2. QED
    BY <1>16, <2>1 DEF ServeSubscribe
<1>17. CASE Push
  <2>1. ~ReadTimeout => toClient' \in Seq(Frames \ {Torn})
    BY <1>17, HandlerFrames DEF HandlerStep
  <2>2. QED
    BY <1>17, <2>1 DEF Push
<1>18. CASE ServerEnds
  BY <1>18 DEF ServerEnds
<1>19. ASSUME NEW m \in Foreign, PublishElsewhere(m) PROVE NoTimeoutInv'
  BY <1>19 DEF PublishElsewhere
<1>20. CASE UNCHANGED vars
  BY <1>20
<1>21. QED
  BY <1>1, <1>2, <1>3, <1>4, <1>5, <1>6, <1>7, <1>8, <1>9, <1>10, <1>11,
     <1>12, <1>13, <1>14, <1>15, <1>16, <1>17, <1>18, <1>19, <1>20 DEF Next,
     CallStep, HandlerStep

-----------------------------------------------------------------------------
\* The log and the streams, index by index

\* The log only grows.
LEMMA LogGrows ==
    ASSUME InductiveInv, [Next]_vars
    PROVE  /\ Len(log) \in Nat /\ Len(log') \in Nat /\ Len(log) <= Len(log')
           /\ \A i \in 1 .. Len(log) : log'[i] = log[i]
<1>1. log \in Seq(Payloads) /\ Len(log) \in Nat
  BY LenProperties DEF InductiveInv, TypeOK
<1>2. CASE log' = log
  BY <1>1, <1>2
<1>3. CASE \E x \in Seq(Payloads) : log' = log \o x
  BY <1>1, <1>3, ConcatProperties, LenProperties
<1>4. ASSUME NEW m \in Foreign, PublishElsewhere(m) PROVE log' = Append(log, m) /\ m \in Payloads
  BY <1>4, ForeignArePayloads DEF PublishElsewhere
<1>5. (\E m \in Payloads : log' = Append(log, m)) => \E x \in Seq(Payloads) : log' = log \o x
  <2> SUFFICES ASSUME NEW m \in Payloads, log' = Append(log, m)
               PROVE  <<m>> \in Seq(Payloads) /\ log' = log \o <<m>>
    OBVIOUS
  <2>1. <<m>> \in Seq(Payloads)
    OBVIOUS
  <2>2. QED
    BY <1>1, <2>1, AppendIsConcat
<1>6. ServePublish => log' = log \/ \E x \in Seq(Payloads) : log' = log \o x
  BY PublicationsHavePayloads DEF ServePublish
<1>7. ASSUME NEW c \in Callers, CallStep(c) \/ \E r \in Requests : Call(c, r) PROVE log' = log
  BY <1>7 DEF CallStep, Call, Refused, Lock, Write, WriteFails, Read, ReadFails, ReadExpires,
     ReadPush, MoreOrDone, CloseMarks, CloseHangsUp, CloseAgain
<1>8. ServeList \/ ServeSubscribe \/ Push \/ ServerEnds \/ UNCHANGED vars => log' = log
  BY DEF ServeList, ServeSubscribe, Push, ServerEnds, vars
<1>9. QED
  BY <1>2, <1>3, <1>4, <1>5, <1>6, <1>7, <1>8 DEF Next, HandlerStep

\* So a push says the same for ever, and what is in the log stays there.
LEMMA PushesStay ==
    ASSUME InductiveInv, [Next]_vars
    PROVE  /\ cursor \in Nat /\ cursor <= Len(log)
           /\ \A i \in 1 .. cursor : log'[i] = log[i] /\ Message(i)' = Message(i)
<1>1. cursor \in Nat /\ cursor <= Len(log) /\ Len(log) \in Nat
  BY LenProperties DEF InductiveInv, TypeOK
<1>2. \A i \in 1 .. cursor : log'[i] = log[i]
  BY <1>1, LogGrows
<1>3. QED
  BY <1>1, <1>2 DEF Message, Answer

\* Holds in the next state, of a publication and an offset of this one.
HoldsNext(r, base) ==
    \A i \in 1 .. Len(r.payloads) :
        base + i <= Len(log') /\ log'[base + i] = r.payloads[i]

\* A publication is where it is for ever.
LEMMA HoldsStays ==
    ASSUME InductiveInv, [Next]_vars, NEW r \in Requests, NEW base \in Nat, Holds(r, base)
    PROVE  HoldsNext(r, base)
<1>1. Len(r.payloads) \in Nat
  <2>1. Len(<<>>) \in Nat
    OBVIOUS
  <2>2. QED
    BY <2>1, PublicationsHavePayloads DEF Requests, List, Sub, Pull, PullMany, Quit
<1>2. ASSUME NEW i \in 1 .. Len(r.payloads)
      PROVE  base + i <= Len(log') /\ log'[base + i] = r.payloads[i]
  BY <1>1, LogGrows DEF Holds
<1>3. QED
  BY <1>2 DEF HoldsNext

\* The frames under way, by index, and those left when one is taken or torn.
LEMMA FramesIndexed ==
    ASSUME TypeOK
    PROVE  /\ Len(toClient) \in Nat
           /\ toClient # <<>> =>
                /\ Len(toClient) >= 1 /\ Head(toClient) = toClient[1]
                /\ Len(Tail(toClient)) = Len(toClient) - 1
                /\ \A i \in 1 .. Len(toClient) - 1 : Tail(toClient)[i] = toClient[i + 1]
                /\ Len(<<Torn>> \o Tail(toClient)) = Len(toClient)
                /\ (<<Torn>> \o Tail(toClient))[1] = Torn
                /\ \A i \in 2 .. Len(toClient) :
                      (<<Torn>> \o Tail(toClient))[i] = toClient[i]
<1>1. toClient \in Seq(Frames) /\ Len(toClient) \in Nat
  BY LenProperties DEF TypeOK
<1>2. SUFFICES ASSUME toClient # <<>>
               PROVE /\ Len(toClient) >= 1 /\ Head(toClient) = toClient[1]
                     /\ Len(Tail(toClient)) = Len(toClient) - 1
                     /\ \A i \in 1 .. Len(toClient) - 1 : Tail(toClient)[i] = toClient[i + 1]
                     /\ Len(<<Torn>> \o Tail(toClient)) = Len(toClient)
                     /\ (<<Torn>> \o Tail(toClient))[1] = Torn
                     /\ \A i \in 2 .. Len(toClient) :
                           (<<Torn>> \o Tail(toClient))[i] = toClient[i]
  BY <1>1
<1>3. /\ Len(toClient) >= 1 /\ Head(toClient) = toClient[1]
      /\ Tail(toClient) \in Seq(Frames) /\ Len(Tail(toClient)) = Len(toClient) - 1
      /\ \A i \in 1 .. Len(toClient) - 1 : Tail(toClient)[i] = toClient[i + 1]
  BY <1>1, <1>2, EmptySeq, HeadTailProperties
<1>4. <<Torn>> \in Seq(Frames) /\ Len(<<Torn>>) = 1 /\ <<Torn>>[1] = Torn
  BY ErrorIsWhole
<1>5. QED
  BY <1>1, <1>3, <1>4, ConcatProperties

\* What the server adds comes behind them.
LEMMA RespondIndexed ==
    ASSUME TypeOK, NEW f \in Frames, Respond(f)
    PROVE  /\ ~socket => toClient' = toClient
           /\ socket => /\ Len(toClient') = Len(toClient) + 1
                        /\ toClient'[Len(toClient) + 1] = f
                        /\ \A i \in 1 .. Len(toClient) : toClient'[i] = toClient[i]
  BY AppendProperties DEF Respond, TypeOK

-----------------------------------------------------------------------------
\* The stream of pushes

StreamGoal == StreamInv /\ StreamIsPrefix

\* A push is no answer.
LEMMA PushesAreMessages == \A i : Message(i).op = "message" /\ Message(i) # Error
  BY DEF Message, Answer, Error

\* The frames after a torn one that took the beginning of the next with it.
LEMMA TornIndexed ==
    ASSUME TypeOK, Len(toClient) > 1
    PROVE  LET rest == <<Torn>> \o Tail(Tail(toClient))
           IN  /\ Len(rest) = Len(toClient) - 1 /\ rest[1] = Torn
               /\ \A i \in 2 .. Len(toClient) - 1 : rest[i] = toClient[i + 1]
<1> DEFINE t == Tail(toClient)
<1>1. toClient \in Seq(Frames) /\ Len(toClient) \in Nat
  BY LenProperties DEF TypeOK
<1>2. toClient # <<>>
  BY <1>1, EmptySeq
<1>3. /\ t \in Seq(Frames) /\ Len(t) = Len(toClient) - 1
      /\ \A i \in 1 .. Len(toClient) - 1 : t[i] = toClient[i + 1]
  BY <1>1, <1>2, HeadTailProperties
<1>4. t # <<>>
  BY <1>1, <1>3, EmptySeq
<1> HIDE DEF t
<1>5. /\ Tail(t) \in Seq(Frames) /\ Len(Tail(t)) = Len(toClient) - 2
      /\ \A i \in 1 .. Len(toClient) - 2 : Tail(t)[i] = t[i + 1]
  BY <1>1, <1>3, <1>4, HeadTailProperties
<1>6. <<Torn>> \in Seq(Frames) /\ Len(<<Torn>>) = 1 /\ <<Torn>>[1] = Torn
  BY ErrorIsWhole
<1>7. /\ Len(<<Torn>> \o Tail(t)) = Len(toClient) - 1
      /\ (<<Torn>> \o Tail(t))[1] = Torn
      /\ \A i \in 2 .. Len(toClient) - 1 : (<<Torn>> \o Tail(t))[i] = Tail(t)[i - 1]
  BY <1>1, <1>5, <1>6, ConcatProperties
<1>8. ASSUME NEW i \in 2 .. Len(toClient) - 1 PROVE Tail(t)[i - 1] = toClient[i + 1]
  <2>1. i - 1 \in 1 .. Len(toClient) - 2 /\ i \in 1 .. Len(toClient) - 1
        /\ (i - 1) + 1 = i
    BY <1>1
  <2>2. QED
    BY <1>3, <1>5, <2>1
<1>9. QED
  BY <1>7, <1>8 DEF t

\* Steps that leave the stream to the client alone.
LEMMA StreamSame ==
    ASSUME InductiveInv, [Next]_vars, UNCHANGED <<streaming, got, cursor, toClient>>,
           phase' \in {phase, "ended"}, socket' => socket
    PROVE  StreamGoal'
<1> USE DEF InductiveInv
<1>1. /\ cursor \in Nat /\ Len(toClient) \in Nat /\ Len(got) \in Nat
      /\ \A i \in 1 .. cursor : log'[i] = log[i] /\ Message(i)' = Message(i)
  BY PushesStay, LenProperties DEF TypeOK
<1>2. Len(got) <= cursor
  <2>1. Len(<<>>) = 0
    OBVIOUS
  <2>2. QED
    BY <1>1, <2>1 DEF StreamInv, TypeOK
<1>3. StreamIsPrefix'
  BY <1>1, <1>2 DEF StreamIsPrefix
<1>4. StreamInv'
  BY <1>1 DEF StreamInv
<1>5. QED
  BY <1>3, <1>4 DEF StreamGoal

\* The client that does not stream takes, drops or tears the first frame, or two, or
\* loses all.
LEMMA StreamDrops ==
    ASSUME InductiveInv, [Next]_vars, UNCHANGED <<streaming, got, cursor, phase, socket>>,
           ~streaming,
           \/ toClient' = toClient
           \/ toClient # <<>> /\ toClient' = Tail(toClient)
           \/ toClient # <<>> /\ toClient' = <<Torn>> \o Tail(toClient)
           \/ Len(toClient) > 1 /\ toClient' = <<Torn>> \o Tail(Tail(toClient))
           \/ toClient' = <<>>
    PROVE  StreamGoal'
<1> USE DEF InductiveInv
<1>1. /\ cursor \in Nat /\ Len(toClient) \in Nat /\ got = <<>>
      /\ \A i \in 1 .. cursor : log'[i] = log[i] /\ Message(i)' = Message(i)
  BY PushesStay, LenProperties DEF TypeOK, StreamInv
<1>2. StreamIsPrefix'
  BY <1>1 DEF StreamIsPrefix
<1>3. Torn.op = "torn" /\ Len(<<>>) = 0
  BY DEF Torn, Answer
<1>4. ASSUME toClient' = toClient PROVE StreamInv'
  BY <1>1, <1>4 DEF StreamInv
<1>5. ASSUME toClient # <<>>, toClient' = Tail(toClient) PROVE StreamInv'
  <2>1. /\ Len(toClient') = Len(toClient) - 1
        /\ \A i \in 1 .. Len(toClient) - 1 : toClient'[i] = toClient[i + 1]
    BY <1>5, FramesIndexed
  <2>2. ASSUME NEW i \in 1 .. Len(toClient')
        PROVE  /\ toClient'[i] = toClient[i + 1]
               /\ i + 1 \in 1 .. Len(toClient) /\ i \in Nat
    BY <1>1, <2>1
  <2>3. ASSUME phase = "request", NEW i \in 1 .. Len(toClient')
        PROVE  toClient'[i].op \notin {"subscribe", "message"}
    BY <2>2, <2>3 DEF StreamInv
  <2>4. ASSUME NEW i \in 1 .. Len(toClient'), toClient'[i].op = "subscribe"
        PROVE  /\ Len(toClient') <= i + cursor
               /\ phase = "push" /\ socket => Len(toClient') = i + cursor
               /\ \A j \in i + 1 .. Len(toClient') : toClient'[j] = Message(j - i)'
    <3>1. /\ Len(toClient) <= (i + 1) + cursor
          /\ phase = "push" /\ socket => Len(toClient) = (i + 1) + cursor
          /\ \A j \in (i + 1) + 1 .. Len(toClient) : toClient[j] = Message(j - (i + 1))
      BY <2>2, <2>4 DEF StreamInv
    <3>2. ASSUME NEW j \in i + 1 .. Len(toClient') PROVE toClient'[j] = Message(j - i)'
      <4>1. /\ j \in 1 .. Len(toClient') /\ j + 1 \in (i + 1) + 1 .. Len(toClient)
            /\ j - i \in 1 .. cursor
        BY <1>1, <2>1, <2>2, <3>1
      <4>2. (j + 1) - (i + 1) = j - i
        BY <2>2, <4>1
      <4>3. toClient[j + 1] = Message(j - i)
        BY <3>1, <4>1, <4>2
      <4>4. QED
        BY <1>1, <2>2, <4>1, <4>3
    <3>3. QED
      BY <1>1, <2>1, <2>2, <3>1, <3>2
  <2>5. QED
    BY <1>1, <2>3, <2>4 DEF StreamInv
<1>6. ASSUME toClient # <<>>, toClient' = <<Torn>> \o Tail(toClient) PROVE StreamInv'
  <2>1. /\ Len(toClient') = Len(toClient) /\ toClient'[1] = Torn
        /\ \A i \in 2 .. Len(toClient) : toClient'[i] = toClient[i]
    BY <1>6, FramesIndexed
  <2>2. \A i \in 1 .. Len(toClient') :
            toClient'[i].op # "torn" => i > 1 /\ toClient'[i] = toClient[i]
    BY <1>1, <1>3, <2>1
  <2>3. ASSUME phase = "request", NEW i \in 1 .. Len(toClient')
        PROVE  toClient'[i].op \notin {"subscribe", "message"}
    BY <2>1, <2>2, <2>3 DEF StreamInv
  <2>4. ASSUME NEW i \in 1 .. Len(toClient'), toClient'[i].op = "subscribe"
        PROVE  /\ Len(toClient') <= i + cursor
               /\ phase = "push" /\ socket => Len(toClient') = i + cursor
               /\ \A j \in i + 1 .. Len(toClient') : toClient'[j] = Message(j - i)'
    <3>1. /\ i \in 2 .. Len(toClient) /\ toClient'[i] = toClient[i]
          /\ Len(toClient) <= i + cursor
          /\ phase = "push" /\ socket => Len(toClient) = i + cursor
          /\ \A j \in i + 1 .. Len(toClient) : toClient[j] = Message(j - i)
      BY <2>1, <2>2, <2>4 DEF StreamInv
    <3>2. ASSUME NEW j \in i + 1 .. Len(toClient') PROVE toClient'[j] = Message(j - i)'
      <4>1. j \in 2 .. Len(toClient) /\ j \in i + 1 .. Len(toClient) /\ j - i \in 1 .. cursor
        BY <1>1, <2>1, <3>1
      <4>2. QED
        BY <1>1, <2>1, <3>1, <4>1
    <3>3. QED
      BY <2>1, <3>1, <3>2
  <2>5. QED
    BY <1>1, <2>3, <2>4 DEF StreamInv
<1>7. ASSUME toClient' = <<>> PROVE StreamInv'
  BY <1>1, <1>3, <1>7 DEF StreamInv
<1>8. ASSUME Len(toClient) > 1, toClient' = <<Torn>> \o Tail(Tail(toClient))
      PROVE  StreamInv'
  <2>1. /\ Len(toClient') = Len(toClient) - 1 /\ toClient'[1] = Torn
        /\ \A i \in 2 .. Len(toClient) - 1 : toClient'[i] = toClient[i + 1]
    BY <1>8, TornIndexed
  <2>2. ASSUME NEW i \in 1 .. Len(toClient'), toClient'[i].op # "torn"
        PROVE  /\ toClient'[i] = toClient[i + 1] /\ i > 1
               /\ i + 1 \in 1 .. Len(toClient) /\ i \in Nat
    BY <1>1, <1>3, <2>1, <2>2
  <2>3. ASSUME phase = "request", NEW i \in 1 .. Len(toClient')
        PROVE  toClient'[i].op \notin {"subscribe", "message"}
    BY <2>2, <2>3 DEF StreamInv
  <2>4. ASSUME NEW i \in 1 .. Len(toClient'), toClient'[i].op = "subscribe"
        PROVE  /\ Len(toClient') <= i + cursor
               /\ phase = "push" /\ socket => Len(toClient') = i + cursor
               /\ \A j \in i + 1 .. Len(toClient') : toClient'[j] = Message(j - i)'
    <3>1. i > 1 /\ i \in Nat /\ i + 1 \in 1 .. Len(toClient) /\ toClient[i + 1].op = "subscribe"
      BY <2>2, <2>4
    <3>2. /\ Len(toClient) <= (i + 1) + cursor
          /\ phase = "push" /\ socket => Len(toClient) = (i + 1) + cursor
          /\ \A j \in (i + 1) + 1 .. Len(toClient) : toClient[j] = Message(j - (i + 1))
      BY <3>1 DEF StreamInv
    <3>3. ASSUME NEW j \in i + 1 .. Len(toClient') PROVE toClient'[j] = Message(j - i)'
      <4>1. /\ j \in 2 .. Len(toClient) - 1 /\ j + 1 \in (i + 1) + 1 .. Len(toClient)
            /\ j - i \in 1 .. cursor
        BY <1>1, <2>1, <3>1, <3>2
      <4>2. (j + 1) - (i + 1) = j - i
        BY <3>1, <4>1
      <4>3. toClient[j + 1] = Message(j - i)
        BY <3>2, <4>1, <4>2
      <4>4. QED
        BY <1>1, <2>1, <4>1, <4>3
    <3>4. QED
      BY <1>1, <2>1, <3>1, <3>2, <3>3
  <2>5. QED
    BY <1>1, <2>3, <2>4 DEF StreamInv
<1>9. QED
  BY <1>2, <1>4, <1>5, <1>6, <1>7, <1>8 DEF StreamGoal

\* All is lost to a client that streams, because it has hung up or the server has.
LEMMA StreamEnds ==
    ASSUME InductiveInv, [Next]_vars, UNCHANGED <<streaming, got, cursor, phase, socket>>,
           streaming, ~socket \/ phase = "ended", toClient' = <<>>
    PROVE  StreamGoal'
<1> USE DEF InductiveInv
<1>1. /\ cursor \in Nat /\ Len(toClient) \in Nat /\ Len(got) \in Nat
      /\ \A i \in 1 .. cursor : log'[i] = log[i]
  BY PushesStay, LenProperties DEF TypeOK
<1>2. Len(got) <= cursor /\ Len(<<>>) = 0
  BY <1>1 DEF StreamInv
<1>3. StreamIsPrefix'
  BY <1>1, <1>2 DEF StreamIsPrefix
<1>4. StreamInv'
  BY <1>1, <1>2 DEF StreamInv
<1>5. QED
  BY <1>3, <1>4 DEF StreamGoal

\* The answer to the subscription is read: behind it are pushes, the first one first.
LEMMA StreamStarts ==
    ASSUME InductiveInv, [Next]_vars, UNCHANGED <<got, cursor, phase, socket>>,
           ~streaming, streaming', toClient # <<>>, toClient[1].op = "subscribe",
           toClient' = Tail(toClient)
    PROVE  StreamGoal'
<1> USE DEF InductiveInv
<1>1. /\ cursor \in Nat /\ Len(toClient) \in Nat /\ got = <<>>
      /\ \A i \in 1 .. cursor : Message(i)' = Message(i)
  BY PushesStay, LenProperties DEF TypeOK, StreamInv
<1>2. /\ Len(toClient) >= 1 /\ Len(toClient') = Len(toClient) - 1
      /\ \A i \in 1 .. Len(toClient) - 1 : toClient'[i] = toClient[i + 1]
  BY FramesIndexed
<1>3. /\ phase # "request"
      /\ Len(toClient) <= 1 + cursor
      /\ phase = "push" /\ socket => Len(toClient) = 1 + cursor
      /\ \A j \in 1 + 1 .. Len(toClient) : toClient[j] = Message(j - 1)
  <2>1. 1 \in 1 .. Len(toClient)
    BY <1>1, <1>2
  <2>2. QED
    BY <2>1 DEF StreamInv
<1>4. ASSUME NEW j \in 1 .. Len(toClient') PROVE toClient'[j] = Message(j)'
  <2>1. /\ j \in 1 .. Len(toClient) - 1 /\ j \in 1 .. cursor
        /\ j + 1 \in 1 + 1 .. Len(toClient)
    <3>1. Len(toClient) <= 1 + cursor
      BY <1>3
    <3>2. QED
      BY <1>1, <1>2, <3>1
  <2>2. toClient[j + 1] = Message((j + 1) - 1)
    BY <1>3, <2>1
  <2>3. (j + 1) - 1 = j
    BY <2>1
  <2>4. toClient[j + 1] = Message(j)
    BY <2>2, <2>3
  <2>5. QED
    BY <1>1, <1>2, <2>1, <2>4
<1>5. Len(got') = 0 /\ \A j \in 1 .. Len(toClient') : Len(got') + j = j
  BY <1>1
<1>6. \A j \in 1 .. Len(toClient') : toClient'[j] = Message(Len(got) + j)'
  <2>1. ASSUME NEW j \in 1 .. Len(toClient') PROVE Message(Len(got) + j)' = Message(j)'
    BY <1>5, <2>1 DEF Message
  <2>2. QED
    BY <1>4, <2>1
<1>7. Len(got') + Len(toClient') = Len(toClient) - 1
  BY <1>1, <1>2, <1>5
<1>8. StreamInv'
  <2>1. Len(got') + Len(toClient') <= cursor'
    <3>1. Len(toClient) <= 1 + cursor
      BY <1>3
    <3>2. QED
      BY <1>1, <1>7, <3>1
  <2>2. ASSUME phase' = "push", socket' PROVE Len(got') + Len(toClient') = cursor'
    <3>1. Len(toClient) = 1 + cursor
      BY <1>3, <2>2
    <3>2. QED
      BY <1>1, <1>7, <3>1
  <2>3. phase' # "request"
    BY <1>3
  <2>4. QED
    BY <1>6, <2>1, <2>2, <2>3 DEF StreamInv
<1>9. StreamIsPrefix'
  BY <1>5 DEF StreamIsPrefix
<1>10. QED
  BY <1>8, <1>9 DEF StreamGoal

\* A push is read: it is the next one.
LEMMA StreamGoesOn ==
    ASSUME InductiveInv, [Next]_vars, UNCHANGED <<streaming, cursor, phase, socket>>,
           streaming, toClient # <<>>, toClient' = Tail(toClient),
           got' = Append(got, [Offset |-> Head(toClient).base,
                               Payload |-> Head(toClient).body])
    PROVE  StreamGoal'
<1> USE DEF InductiveInv
<1> DEFINE n == Len(got)
<1>1. /\ cursor \in Nat /\ Len(toClient) \in Nat /\ n \in Nat
      /\ Len(toClient') = Len(toClient) - 1 /\ Len(toClient) >= 1
      /\ Head(toClient) = toClient[1] /\ toClient[1] \in Frames
      /\ \A i \in 1 .. Len(toClient) - 1 : toClient'[i] = toClient[i + 1]
      /\ \A i \in 1 .. cursor : log'[i] = log[i] /\ Message(i)' = Message(i)
  BY PushesStay, FramesIndexed, FramesOff, LenProperties DEF TypeOK
<1>2. /\ n + Len(toClient) <= cursor /\ phase # "request"
      /\ phase = "push" /\ socket => n + Len(toClient) = cursor
      /\ \A j \in 1 .. Len(toClient) : toClient[j] = Message(n + j)
  BY DEF StreamInv
<1>3. Head(toClient) = Answer("message", n, log[n + 1])
  BY <1>1, <1>2 DEF Message
<1>4. /\ Len(got') = n + 1 /\ got'[n + 1] = [Offset |-> n, Payload |-> log[n + 1]]
      /\ \A i \in 1 .. n : got'[i] = got[i]
  <2>1. [Offset |-> Head(toClient).base, Payload |-> Head(toClient).body]
          \in [Offset : Nat, Payload : Nat \union Payloads]
    BY <1>1 DEF Frames
  <2>2. QED
    BY <1>3, <2>1, AppendProperties DEF Answer, TypeOK
<1>5. ASSUME NEW i \in 1 .. Len(got')
      PROVE  got'[i] = [Offset |-> i - 1, Payload |-> log'[i]]
  <2>1. CASE i = n + 1
    <3>1. i - 1 = n /\ i \in 1 .. cursor
      BY <1>1, <1>2, <2>1
    <3>2. QED
      BY <1>1, <1>4, <2>1, <3>1
  <2>2. CASE i # n + 1
    <3>1. i \in 1 .. n /\ i \in 1 .. cursor
      BY <1>1, <1>2, <1>4, <2>2
    <3>2. QED
      BY <1>1, <1>4, <3>1 DEF StreamIsPrefix
  <2>3. QED
    BY <2>1, <2>2
<1>6. ASSUME NEW j \in 1 .. Len(toClient') PROVE toClient'[j] = Message(Len(got) + j)'
  <2>1. /\ j \in 1 .. Len(toClient) - 1 /\ j + 1 \in 1 .. Len(toClient)
        /\ (n + 1) + j \in 1 .. cursor
    BY <1>1, <1>2
  <2>2. n + (j + 1) = (n + 1) + j
    BY <1>1, <2>1
  <2>3. toClient[j + 1] = Message(n + (j + 1))
    BY <1>2, <2>1
  <2>4. toClient'[j] = Message((n + 1) + j)
    BY <1>1, <2>1, <2>2, <2>3
  <2>5. Message(Len(got) + j)' = Answer("message", (Len(got') + j) - 1, log'[Len(got') + j])
    BY DEF Message, Answer
  <2>6. Message((n + 1) + j) = Answer("message", ((n + 1) + j) - 1, log[(n + 1) + j])
    BY DEF Message
  <2>7. log'[(n + 1) + j] = log[(n + 1) + j]
    BY <1>1, <2>1
  <2>8. QED
    BY <1>4, <2>4, <2>5, <2>6, <2>7
<1>7. StreamInv'
  <2>1. /\ Len(got') + Len(toClient') <= cursor
        /\ phase = "push" /\ socket => Len(got') + Len(toClient') = cursor
    <3>1. /\ n + Len(toClient) <= cursor
          /\ phase = "push" /\ socket => n + Len(toClient) = cursor
      BY <1>2
    <3>2. Len(got') = n + 1
      BY <1>4
    <3>3. QED
      BY <1>1, <3>1, <3>2
  <2>2. QED
    BY <1>2, <1>6, <2>1 DEF StreamInv
<1>8. StreamIsPrefix'
  BY <1>5 DEF StreamIsPrefix
<1>9. QED
  BY <1>7, <1>8 DEF StreamGoal

\* Before the subscription the server answers with what is neither a push nor the
\* answer to it.
LEMMA StreamAnswers ==
    ASSUME InductiveInv, [Next]_vars, UNCHANGED <<streaming, got, cursor, phase, socket>>,
           phase = "request", NEW f \in Frames, f.op \notin {"subscribe", "message"},
           Respond(f)
    PROVE  StreamGoal'
<1> USE DEF InductiveInv
<1>1. CASE toClient' = toClient
  BY <1>1, StreamSame
<1>2. CASE socket
  <2>1. /\ Len(toClient) \in Nat /\ ~streaming /\ got = <<>> /\ cursor = 0
        /\ Len(toClient') = Len(toClient) + 1 /\ toClient'[Len(toClient) + 1] = f
        /\ \A i \in 1 .. Len(toClient) : toClient'[i] = toClient[i]
        /\ \A i \in 1 .. Len(toClient) : toClient[i].op \notin {"subscribe", "message"}
    BY <1>2, RespondIndexed, LenProperties DEF TypeOK, StreamInv
  <2>2. \A i \in 1 .. Len(toClient') : toClient'[i].op \notin {"subscribe", "message"}
    BY <2>1
  <2>3. StreamInv' /\ StreamIsPrefix'
    BY <2>1, <2>2 DEF StreamInv, StreamIsPrefix
  <2>4. QED
    BY <2>3 DEF StreamGoal
<1>3. QED
  BY <1>1, <1>2, RespondIndexed

\* The subscription is answered, nothing pushed yet.
LEMMA StreamOpens ==
    ASSUME InductiveInv, [Next]_vars, UNCHANGED <<streaming, got, cursor, socket>>,
           phase = "request", phase' = "push", NEW f \in Frames, f.op = "subscribe",
           Respond(f)
    PROVE  StreamGoal'
<1> USE DEF InductiveInv
<1>1. /\ Len(toClient) \in Nat /\ ~streaming /\ got = <<>> /\ cursor = 0
      /\ \A i \in 1 .. Len(toClient) : toClient[i].op \notin {"subscribe", "message"}
      /\ ~socket => toClient' = toClient
      /\ socket => /\ Len(toClient') = Len(toClient) + 1
                   /\ \A i \in 1 .. Len(toClient) : toClient'[i] = toClient[i]
  BY RespondIndexed, LenProperties DEF TypeOK, StreamInv
<1>2. \A i \in 1 .. Len(toClient') :
          toClient'[i].op = "subscribe" => socket /\ i = Len(toClient')
  BY <1>1
<1>3. StreamInv' /\ StreamIsPrefix'
  BY <1>1, <1>2 DEF StreamInv, StreamIsPrefix
<1>4. QED
  BY <1>3 DEF StreamGoal

\* The next message is pushed.
LEMMA StreamGrows ==
    ASSUME InductiveInv, [Next]_vars, Push
    PROVE  StreamGoal'
<1> USE DEF InductiveInv
<1>1. /\ UNCHANGED <<streaming, got, socket, phase>> /\ phase = "push" /\ socket
      /\ cursor' = cursor + 1 /\ cursor + 1 \in 1 .. Len(log) /\ log' = log
      /\ cursor \in Nat /\ Len(toClient) \in Nat /\ Len(got) \in Nat
  BY LenProperties DEF Push, TypeOK, clientVars, history
<1>2. Message(cursor + 1) \in Frames
  <2>1. log[cursor + 1] \in Payloads /\ cursor + 1 \in Nat \ {0}
    BY <1>1, ElementOfSeq DEF TypeOK
  <2>2. QED
    BY <2>1, MessagesAreWhole
<1>3. /\ Len(toClient') = Len(toClient) + 1
      /\ toClient'[Len(toClient) + 1] = Message(cursor + 1)
      /\ \A i \in 1 .. Len(toClient) : toClient'[i] = toClient[i]
  BY <1>1, <1>2, RespondIndexed DEF Push
<1>4. \A i : Message(i)' = Message(i)
  BY <1>1 DEF Message, Answer
<1>5. StreamIsPrefix'
  BY <1>1 DEF StreamIsPrefix
<1>6. CASE streaming
  <2>1. /\ Len(got) + Len(toClient) = cursor
        /\ \A j \in 1 .. Len(toClient) : toClient[j] = Message(Len(got) + j)
    BY <1>1, <1>6 DEF StreamInv
  <2>2. ASSUME NEW j \in 1 .. Len(toClient') PROVE toClient'[j] = Message(Len(got) + j)'
    <3>1. Message(Len(got) + j)' = Message(Len(got) + j)
      BY <1>1 DEF Message, Answer
    <3>2. CASE j = Len(toClient) + 1
      <4>1. Len(got) + j = cursor + 1
        BY <1>1, <2>1, <3>2
      <4>2. QED
        BY <1>3, <3>1, <3>2, <4>1
    <3>3. CASE j # Len(toClient) + 1
      <4>1. j \in 1 .. Len(toClient)
        BY <1>1, <1>3, <3>3
      <4>2. QED
        BY <1>3, <2>1, <3>1, <4>1
    <3>4. QED
      BY <3>2, <3>3
  <2>3. Len(got') + Len(toClient') = cursor'
    BY <1>1, <1>3, <2>1
  <2>4. StreamInv'
    BY <1>1, <1>6, <2>2, <2>3 DEF StreamInv
  <2>5. QED
    BY <1>5, <2>4 DEF StreamGoal
<1>7. CASE ~streaming
  <2>1. ASSUME NEW i \in 1 .. Len(toClient'), toClient'[i].op = "subscribe"
        PROVE  /\ Len(toClient') = i + cursor'
               /\ \A j \in i + 1 .. Len(toClient') : toClient'[j] = Message(j - i)'
    <3>1. i # Len(toClient) + 1
      BY <1>3, <2>1, PushesAreMessages
    <3>2. i \in 1 .. Len(toClient) /\ toClient[i].op = "subscribe"
      BY <1>1, <1>3, <2>1, <3>1
    <3>3. /\ Len(toClient) = i + cursor
          /\ \A j \in i + 1 .. Len(toClient) : toClient[j] = Message(j - i)
      BY <1>1, <1>7, <3>2 DEF StreamInv
    <3>4. ASSUME NEW j \in i + 1 .. Len(toClient') PROVE toClient'[j] = Message(j - i)'
      <4>1. CASE j = Len(toClient) + 1
        <5>1. j - i = cursor + 1
          BY <1>1, <3>2, <3>3, <4>1
        <5>2. QED
          BY <1>3, <1>4, <4>1, <5>1
      <4>2. CASE j # Len(toClient) + 1
        <5>1. j \in i + 1 .. Len(toClient) /\ j \in 1 .. Len(toClient)
          BY <1>1, <1>3, <3>2, <4>2
        <5>2. QED
          BY <1>3, <1>4, <3>3, <5>1
      <4>3. QED
        BY <4>1, <4>2
    <3>5. QED
      BY <1>1, <1>3, <3>2, <3>3, <3>4
  <2>2. /\ Len(toClient') \in Nat /\ cursor' \in Nat
        /\ \A i \in 1 .. Len(toClient') : i + cursor' \in Nat
    BY <1>1, <1>3
  <2>3. got = <<>>
    BY <1>7 DEF StreamInv
  <2>4. StreamInv'
    BY <1>1, <1>7, <2>1, <2>2, <2>3 DEF StreamInv
  <2>5. QED
    BY <1>5, <2>4 DEF StreamGoal
<1>8. QED
  BY <1>6, <1>7

\* Every step keeps the stream as it must be.
LEMMA StreamInductive ==
    InductiveInv /\ [Next]_vars => StreamGoal'
<1> SUFFICES ASSUME InductiveInv, [Next]_vars PROVE StreamGoal'
  OBVIOUS
<1> USE DEF clientVars, serverVars, history, vars
<1>1. ASSUME NEW c \in Callers,
             \/ Refused(c) \/ Lock(c) \/ Write(c) \/ WriteFails(c) \/ MoreOrDone(c)
             \/ CloseMarks(c) \/ CloseAgain(c) \/ \E r \in Requests : Call(c, r)
      PROVE  StreamGoal'
  <2>1. UNCHANGED <<streaming, got, cursor, toClient, phase, socket>>
    BY <1>1 DEF Refused, Lock, Write, WriteFails, MoreOrDone, CloseMarks, MarkFirst,
       CloseAgain, Call
  <2>2. QED
    BY <2>1, StreamSame
<1>2. ASSUME NEW c \in Callers, CloseHangsUp(c) PROVE StreamGoal'
  <2>1. UNCHANGED <<streaming, got, cursor, toClient, phase>> /\ ~socket'
    BY <1>2 DEF CloseHangsUp, CloseSocket
  <2>2. QED
    BY <2>1, StreamSame
<1>3. ASSUME NEW c \in Callers, Read(c) PROVE StreamGoal'
  <2>1. /\ UNCHANGED <<got, cursor, phase, socket>> /\ ~streaming
        /\ toClient # <<>> /\ toClient' = Tail(toClient)
    BY <1>3 DEF Read, InductiveInv, LockInv
  <2>2. CASE streaming' = streaming
    BY <2>1, <2>2, StreamDrops
  <2>3. CASE streaming' # streaming
    <3>1. streaming' /\ Head(toClient).op = Sub.op
      BY <1>3, <2>3 DEF Read, Answers
    <3>2. toClient[1].op = "subscribe"
      BY <2>1, <3>1, FramesIndexed DEF Sub, InductiveInv
    <3>3. QED
      BY <2>1, <3>1, <3>2, StreamStarts
  <2>4. QED
    BY <2>2, <2>3
<1>4. ASSUME NEW c \in Callers, ReadFails(c) PROVE StreamGoal'
  <2>1. /\ UNCHANGED <<streaming, got, cursor, phase, socket>>
        /\ \/ (~socket \/ phase = "ended") /\ toClient' = <<>>
           \/ /\ toClient # <<>> /\ Head(toClient) = Torn
              /\ \/ toClient' = toClient \/ toClient' = Tail(toClient)
                 \/ Len(toClient) > 1 /\ toClient' = <<Torn>> \o Tail(Tail(toClient))
    BY <1>4 DEF ReadFails, AfterTorn
  <2>2. CASE ~streaming
    BY <2>1, <2>2, StreamDrops
  <2>3. CASE streaming
    <3>1. toClient # <<>> => Head(toClient) # Torn
      <4>1. SUFFICES ASSUME toClient # <<>> PROVE Head(toClient).op = "message"
        BY DEF Torn, Answer
      <4>2. 1 \in 1 .. Len(toClient) /\ Head(toClient) = toClient[1]
        BY <4>1, FramesIndexed DEF InductiveInv
      <4>3. QED
        BY <2>3, <4>2, PushesAreMessages DEF InductiveInv, StreamInv
    <3>2. QED
      BY <2>1, <2>3, <3>1, StreamEnds
  <2>4. QED
    BY <2>2, <2>3
<1>5. ASSUME NEW c \in Callers, ReadExpires(c) PROVE StreamGoal'
  <2>1. /\ UNCHANGED <<streaming, got, cursor, phase, socket>> /\ ~streaming
        /\ \/ toClient' = toClient
           \/ toClient # <<>> /\ toClient' = <<Torn>> \o Tail(toClient)
    BY <1>5 DEF ReadExpires, InductiveInv, LockInv
  <2>2. QED
    BY <2>1, StreamDrops
<1>6. ASSUME NEW c \in Callers, ReadPush(c) PROVE StreamGoal'
  <2>1. /\ UNCHANGED <<streaming, cursor, phase, socket>> /\ streaming
        /\ toClient # <<>> /\ toClient' = Tail(toClient)
    BY <1>6 DEF ReadPush, InductiveInv, CallInv, LockInv
  <2>2. Head(toClient).op = "message"
    <3>1. Len(toClient) \in Nat /\ Len(toClient) >= 1 /\ Head(toClient) = toClient[1]
      BY <2>1, FramesIndexed DEF InductiveInv
    <3>2. 1 \in 1 .. Len(toClient)
      BY <3>1
    <3>3. QED
      BY <2>1, <3>1, <3>2, PushesAreMessages DEF InductiveInv, StreamInv
  <2>3. got' = Append(got, [Offset |-> Head(toClient).base,
                            Payload |-> Head(toClient).body])
    BY <1>6, <2>2 DEF ReadPush
  <2>4. QED
    BY <2>1, <2>3, StreamGoesOn
<1>7. CASE ServePublish
  <2>1. UNCHANGED <<streaming, got, cursor, phase, socket>> /\ phase = "request"
    BY <1>7 DEF ServePublish
  <2>2. \/ toClient' = toClient
        \/ \E f \in Frames : f.op \notin {"subscribe", "message"} /\ Respond(f)
    <3> DEFINE r == Head(toServer)
    <3>1. \/ toClient' = toClient
          \/ r.op # "async" /\ Respond(Answer(r.op, Len(log), Len(r.payloads)))
          \/ Respond(Error)
      BY <1>7 DEF ServePublish
    <3>2. /\ r.op \in {"publish", "batch", "async"}
          /\ Len(r.payloads) \in Nat /\ Len(log) \in Nat
      BY <1>7, PublicationsHavePayloads, LenProperties DEF ServePublish, InductiveInv, TypeOK
    <3>3. r.op # "async" => Answer(r.op, Len(log), Len(r.payloads)) \in Frames
      BY <3>2, AnswersAreWhole
    <3>4. /\ Answer(r.op, Len(log), Len(r.payloads)).op = r.op
          /\ Error.op = "error" /\ Error \in Frames
      BY ErrorIsWhole DEF Answer, Error
    <3>5. QED
      BY <3>1, <3>2, <3>3, <3>4
  <2>3. QED
    BY <2>1, <2>2, StreamSame, StreamAnswers
<1>8. CASE ServeList
  <2>1. UNCHANGED <<streaming, got, cursor, phase, socket>> /\ phase = "request"
    BY <1>8 DEF ServeList
  <2>2. \E f \in Frames : f.op \notin {"subscribe", "message"} /\ Respond(f)
    <3>1. Answer("list", 0, 0) \in Frames /\ Answer("list", 0, 0).op = "list"
      BY AnswersAreWhole DEF Answer
    <3>2. Error \in Frames /\ Error.op = "error"
      BY ErrorIsWhole DEF Error, Answer
    <3>3. QED
      BY <1>8, <3>1, <3>2 DEF ServeList
  <2>3. QED
    BY <2>1, <2>2, StreamAnswers
<1>9. CASE ServeSubscribe
  <2>1. UNCHANGED <<streaming, got, cursor, socket>> /\ phase = "request"
    BY <1>9 DEF ServeSubscribe
  <2>2. CASE phase' = "push" /\ Respond(Answer("subscribe", 0, 0))
    <3>1. Answer("subscribe", 0, 0) \in Frames /\ Answer("subscribe", 0, 0).op = "subscribe"
      BY AnswersAreWhole DEF Answer
    <3>2. QED
      BY <2>1, <2>2, <3>1, StreamOpens
  <2>3. CASE phase' = phase /\ Respond(Error)
    <3>1. Error \in Frames /\ Error.op = "error"
      BY ErrorIsWhole DEF Error, Answer
    <3>2. QED
      BY <2>1, <2>3, <3>1, StreamAnswers
  <2>4. QED
    BY <1>9, <2>2, <2>3 DEF ServeSubscribe
<1>10. CASE ServerEnds \/ UNCHANGED vars \/ \E m \in Foreign : PublishElsewhere(m)
  <2>1. /\ UNCHANGED <<streaming, got, cursor, toClient, socket>>
        /\ phase' \in {phase, "ended"}
    BY <1>10 DEF ServerEnds, PublishElsewhere
  <2>2. QED
    BY <2>1, StreamSame
<1>11. QED
  BY <1>1, <1>2, <1>3, <1>4, <1>5, <1>6, <1>7, <1>8, <1>9, <1>10, StreamGrows
     DEF Next, CallStep, HandlerStep

-----------------------------------------------------------------------------
\* Round trips

RoundTripGoal == OneRoundTrip /\ AnswerIsOwn /\ AckIsOwn

\* Callers that wait for an answer go on doing so.
ReadersStay ==
    \A c \in Callers : pc[c] = "read" => pc'[c] = "read" /\ req'[c] = req[c]

\* What RoundTripInv says in the next state.
AnswerIsOwnNext ==
    \A i \in 1 .. Len(toClient') :
        toClient'[i].op \in {"publish", "batch"} =>
            /\ i = 1
            /\ \E c \in Callers : pc'[c] = "read" /\ HoldsNext(req'[c], toClient'[i].base)

LEMMA AnswersNext == AnswerIsOwnNext => AnswerIsOwn'
  BY DEF AnswerIsOwnNext, AnswerIsOwn, Holds, HoldsNext

\* There is but one caller that writes a request or waits for the answer.
LEMMA OneReader ==
    ASSUME InductiveInv, NEW c \in Callers, NEW d \in Callers,
           pc[c] \in {"write", "read", "pull"}, pc[d] \in {"write", "read", "pull"}
    PROVE  c = d
  BY DEF InductiveInv, LockInv

\* Publications that were acknowledged stay where they are.
LEMMA AcksStay ==
    ASSUME InductiveInv, [Next]_vars, AckIsOwn, acked' = acked
    PROVE  AckIsOwn'
<1>1. ASSUME NEW a \in acked PROVE HoldsNext(a.request, a.base)
  <2>1. a.request \in Requests /\ a.base \in Nat /\ Holds(a.request, a.base)
    BY DEF InductiveInv, TypeOK, AckIsOwn, Requests
  <2>2. QED
    BY <2>1, HoldsStays
<1>2. QED
  BY <1>1 DEF AckIsOwn, Holds, HoldsNext

\* So do those whose answer is under way.
LEMMA AnswerStays ==
    ASSUME InductiveInv, [Next]_vars, AnswerIsOwn, ReadersStay,
           NEW i \in 1 .. Len(toClient), toClient[i].op \in {"publish", "batch"}
    PROVE  /\ i = 1
           /\ \E c \in Callers : pc'[c] = "read" /\ HoldsNext(req'[c], toClient[i].base)
<1>1. PICK c \in Callers : i = 1 /\ pc[c] = "read" /\ Holds(req[c], toClient[i].base)
  BY DEF AnswerIsOwn
<1>2. toClient[i].base \in Nat /\ req[c] \in Requests
  <2>1. toClient[i] \in Frames
    BY ElementOfSeq DEF InductiveInv, TypeOK
  <2>2. QED
    BY <2>1 DEF Frames, InductiveInv, TypeOK
<1>3. HoldsNext(req[c], toClient[i].base)
  BY <1>1, <1>2, HoldsStays
<1>4. QED
  BY <1>1, <1>3 DEF ReadersStay

\* Steps that have nothing to do with a round trip.
LEMMA RoundTripSame ==
    ASSUME InductiveInv, [Next]_vars, RoundTripGoal, ReadersStay,
           UNCHANGED <<toServer, toClient, acked>>, phase' \in {phase, "ended"},
           socket' => socket
    PROVE  RoundTripGoal'
<1>1. AnswerIsOwn'
  BY AnswerStays, AnswersNext DEF RoundTripGoal, AnswerIsOwnNext
<1>2. OneRoundTrip'
  BY DEF RoundTripGoal, OneRoundTrip, ReadersStay
<1>3. QED
  BY <1>1, <1>2, AcksStay DEF RoundTripGoal

\* The stream of requests, by index.
LEMMA RequestsIndexed ==
    ASSUME TypeOK
    PROVE  /\ Len(toServer) \in Nat /\ (toServer = <<>> <=> Len(toServer) = 0)
           /\ toServer # <<>> =>
                /\ Len(toServer) >= 1 /\ Head(toServer) = toServer[1]
                /\ Len(Tail(toServer)) = Len(toServer) - 1
                /\ Tail(toServer) = <<>> <=> Len(toServer) = 1
                /\ \A i \in 1 .. Len(toServer) - 1 : Tail(toServer)[i] = toServer[i + 1]
<1> DEFINE S == Publishes \union {List, Sub}
<1>1. toServer \in Seq(S) /\ Len(toServer) \in Nat /\ (toServer = <<>> <=> Len(toServer) = 0)
  BY LenProperties, EmptySeq DEF TypeOK
<1> HIDE DEF S
<1>2. ASSUME toServer # <<>>
      PROVE  /\ Len(toServer) >= 1 /\ Head(toServer) = toServer[1]
             /\ Tail(toServer) \in Seq(S) /\ Len(Tail(toServer)) = Len(toServer) - 1
             /\ \A i \in 1 .. Len(toServer) - 1 : Tail(toServer)[i] = toServer[i + 1]
  BY <1>1, <1>2, HeadTailProperties
<1>3. ASSUME toServer # <<>> PROVE Tail(toServer) = <<>> <=> Len(toServer) = 1
  <2>1. Tail(toServer) = <<>> <=> Len(Tail(toServer)) = 0
    BY <1>2, <1>3, EmptySeq
  <2>2. QED
    BY <1>1, <1>2, <1>3, <2>1
<1>4. QED
  BY <1>1, <1>2, <1>3

\* A request is written when none is outstanding.
LEMMA RoundTripWrite ==
    ASSUME InductiveInv, [Next]_vars, RoundTripGoal, NEW c \in Callers, Write(c)
    PROVE  RoundTripGoal'
<1>1. /\ pc[c] = "write" /\ UNCHANGED <<toClient, acked, phase, socket, req>>
      /\ toServer' = Append(toServer, req[c])
      /\ req[c].op # "async" => pc'[c] = "read"
  BY DEF Write, InductiveInv, TypeOK, Goto, serverVars, history
<1>2. \A d \in Callers : pc[d] # "read"
  BY <1>1, OneReader
<1>3. AnswerIsOwn'
  <2>1. ReadersStay
    BY <1>2 DEF ReadersStay
  <2>2. QED
    BY <1>1, <2>1, AnswerStays, AnswersNext DEF RoundTripGoal, AnswerIsOwnNext
<1>4. OneRoundTrip'
  <2> SUFFICES ASSUME phase = "request", socket PROVE OneRoundTrip'
    BY <1>1 DEF OneRoundTrip
  <2>1. toClient = <<>> /\ \A i \in 1 .. Len(toServer) : toServer[i].op = "async"
    BY <1>2 DEF RoundTripGoal, OneRoundTrip
  <2>2. /\ Len(toServer) \in Nat /\ Len(toServer') = Len(toServer) + 1
        /\ toServer'[Len(toServer) + 1] = req[c]
        /\ \A i \in 1 .. Len(toServer) : toServer'[i] = toServer[i]
    <3>1. toServer \in Seq(Publishes \union {List, Sub})
          /\ req[c] \in Publishes \union {List, Sub}
      BY <1>1 DEF InductiveInv, TypeOK, CallInv
    <3>2. QED
      BY <1>1, <3>1, LenProperties, AppendProperties
  <2>3. CASE req[c].op = "async"
    <3>1. \A i \in 1 .. Len(toServer') : toServer'[i].op = "async"
      BY <2>1, <2>2, <2>3
    <3>2. QED
      BY <1>1, <2>1, <3>1 DEF OneRoundTrip
  <2>4. CASE req[c].op # "async"
    <3>1. toServer' # <<>>
      BY <2>2
    <3>2. toServer'[Len(toServer')] = req'[c]
      BY <1>1, <2>2
    <3>3. \A i \in 1 .. Len(toServer') - 1 : toServer'[i].op = "async"
      BY <2>1, <2>2
    <3>4. QED
      BY <1>1, <2>1, <2>4, <3>1, <3>2, <3>3 DEF OneRoundTrip
  <2>5. QED
    BY <2>3, <2>4
<1>5. QED
  BY <1>1, <1>3, <1>4, AcksStay DEF RoundTripGoal

\* Its caller reads the answer: what is acknowledged is its own.
LEMMA RoundTripRead ==
    ASSUME InductiveInv, [Next]_vars, RoundTripGoal, NEW c \in Callers, Read(c)
    PROVE  RoundTripGoal'
<1> DEFINE f == Head(toClient)
           r == req[c]
<1>1. /\ pc[c] = "read" /\ toClient # <<>> /\ toClient' = Tail(toClient)
      /\ UNCHANGED <<toServer, phase, socket>>
  BY DEF Read, serverVars
<1>2. /\ Len(toClient) \in Nat /\ Len(toClient) >= 1 /\ f = toClient[1]
      /\ Len(toClient') = Len(toClient) - 1
      /\ \A i \in 1 .. Len(toClient) - 1 : toClient'[i] = toClient[i + 1]
  BY <1>1, FramesIndexed DEF InductiveInv
<1>3. AnswerIsOwn'
  <2>1. ASSUME NEW i \in 1 .. Len(toClient')
        PROVE  toClient'[i].op \notin {"publish", "batch"}
    <3>1. /\ toClient'[i] = toClient[i + 1] /\ i + 1 \in 1 .. Len(toClient)
          /\ i + 1 # 1
      BY <1>2
    <3>2. QED
      BY <3>1 DEF RoundTripGoal, AnswerIsOwn
  <2>2. QED
    BY <2>1 DEF AnswerIsOwn
<1>4. OneRoundTrip'
  <2> SUFFICES ASSUME phase = "request", socket PROVE OneRoundTrip'
    BY <1>1 DEF OneRoundTrip
  <2>1. toServer = <<>> /\ Len(toClient) = 1
    BY <1>1 DEF RoundTripGoal, OneRoundTrip
  <2>2. toClient' = <<>>
    <3>1. toClient' \in Seq(Frames)
      BY <1>1, HeadTailProperties DEF InductiveInv, TypeOK
    <3>2. QED
      BY <1>2, <2>1, <3>1, EmptySeq
  <2>3. \A i \in 1 .. Len(toServer') : toServer'[i].op = "async"
    BY <1>1, <2>1
  <2>4. QED
    BY <2>2, <2>3 DEF OneRoundTrip
<1>5. AckIsOwn'
  <2>1. CASE acked' = acked
    BY <2>1, AcksStay DEF RoundTripGoal
  <2>2. CASE acked' # acked
    <3>1. /\ acked' = acked \union {[request |-> r, base |-> f.base]}
          /\ f.op = r.op /\ r \in Publishes
      BY <2>2 DEF Read, Answers
    <3>2. f \in Frames
      BY <1>1, FramesOff DEF InductiveInv, TypeOK
    <3>3. f.op \in {"publish", "batch"} /\ f.base \in Nat
      BY <3>1, <3>2, PublicationsHavePayloads DEF Frames
    <3>4. 1 \in 1 .. Len(toClient)
      BY <1>2
    <3>5. PICK d \in Callers : pc[d] = "read" /\ Holds(req[d], f.base)
      BY <1>2, <3>3, <3>4 DEF RoundTripGoal, AnswerIsOwn
    <3>6. Holds(r, f.base)
      BY <1>1, <3>5, OneReader
    <3>7. HoldsNext(r, f.base)
      BY <3>1, <3>3, <3>6, HoldsStays DEF Requests
    <3>8. ASSUME NEW a \in acked PROVE HoldsNext(a.request, a.base)
      <4>1. a.request \in Requests /\ a.base \in Nat /\ Holds(a.request, a.base)
        BY DEF InductiveInv, TypeOK, RoundTripGoal, AckIsOwn, Requests
      <4>2. QED
        BY <4>1, HoldsStays
    <3>9. \A a \in acked' : HoldsNext(a.request, a.base)
      BY <3>1, <3>7, <3>8
    <3>10. QED
      BY <3>9 DEF AckIsOwn, Holds, HoldsNext
  <2>3. QED
    BY <2>1, <2>2
<1>6. QED
  BY <1>3, <1>4, <1>5 DEF RoundTripGoal

\* The answer of the server to the request that comes first.
LEMMA RoundTripAnswer ==
    ASSUME InductiveInv, [Next]_vars, RoundTripGoal, NEW f \in Frames, Respond(f),
           UNCHANGED <<pc, req, acked, socket>>, phase = "request", phase' = phase,
           toServer # <<>>, toServer' = Tail(toServer), Head(toServer).op # "async",
           f.op \in {"publish", "batch"} => HoldsNext(Head(toServer), f.base)
    PROVE  RoundTripGoal'
<1>1. CASE ~socket
  <2>1. toClient' = toClient
    BY <1>1 DEF Respond
  <2>2. AnswerIsOwn'
    BY <2>1, AnswerStays, AnswersNext DEF RoundTripGoal, AnswerIsOwnNext, ReadersStay
  <2>3. QED
    BY <1>1, <2>2, AcksStay DEF RoundTripGoal, OneRoundTrip
<1>2. CASE socket
  <2>1. /\ Len(toServer) \in Nat /\ Len(toServer) >= 1 /\ Head(toServer) = toServer[1]
        /\ toServer' = <<>> <=> Len(toServer) = 1
    BY RequestsIndexed DEF InductiveInv
  <2>2. 1 \in 1 .. Len(toServer)
    BY <2>1
  <2>3. PICK c \in Callers :
            /\ pc[c] = "read" /\ toClient = <<>> /\ toServer[Len(toServer)] = req[c]
            /\ \A i \in 1 .. Len(toServer) - 1 : toServer[i].op = "async"
    BY <1>2, <2>1, <2>2 DEF RoundTripGoal, OneRoundTrip
  <2>4. Len(toServer) = 1
    <3>1. 1 \notin 1 .. Len(toServer) - 1
      BY <2>1, <2>3
    <3>2. QED
      BY <2>1, <3>1
  <2>5. Len(toClient') = 1 /\ toClient'[1] = f
    <3>1. /\ Len(toClient') = Len(toClient) + 1 /\ toClient'[Len(toClient) + 1] = f
      BY <1>2, RespondIndexed DEF InductiveInv
    <3>2. Len(toClient) = 0
      BY <2>3
    <3>3. QED
      BY <3>1, <3>2
  <2>6. OneRoundTrip'
    BY <2>1, <2>3, <2>4, <2>5 DEF OneRoundTrip
  <2>7. AnswerIsOwnNext
    <3>1. Head(toServer) = req'[c] /\ pc'[c] = "read"
      BY <2>1, <2>3, <2>4
    <3>2. \A i \in 1 .. Len(toClient') : i = 1
      BY <2>5
    <3>3. QED
      BY <2>5, <3>1, <3>2 DEF AnswerIsOwnNext
  <2>8. QED
    BY <2>6, <2>7, AnswersNext, AcksStay DEF RoundTripGoal
<1>3. QED
  BY <1>1, <1>2

\* There is no number from 1 to 0.
LEMMA NothingUpToZero ==
    ASSUME NEW n, n = 0
    PROVE  1 .. n = {}
OBVIOUS

\* A request is served that asks for no answer.
LEMMA RoundTripSilent ==
    ASSUME InductiveInv, [Next]_vars, RoundTripGoal,
           UNCHANGED <<pc, req, acked, socket, toClient>>, phase = "request", phase' = phase,
           toServer # <<>>, toServer' = Tail(toServer), Head(toServer).op = "async"
    PROVE  RoundTripGoal'
<1>1. AnswerIsOwn'
  BY AnswerStays, AnswersNext DEF RoundTripGoal, AnswerIsOwnNext, ReadersStay
<1>2. OneRoundTrip'
  <2> SUFFICES ASSUME socket PROVE OneRoundTrip'
    BY DEF OneRoundTrip
  <2>0. Len(toServer) \in Nat /\ Len(toServer') = Len(toServer) - 1
    BY RequestsIndexed DEF InductiveInv
  <2>1. /\ Len(toServer) \in Nat /\ Len(toServer) >= 1 /\ Head(toServer) = toServer[1]
        /\ Len(toServer') = Len(toServer) - 1
        /\ toServer' = <<>> <=> Len(toServer) = 1
        /\ \A i \in 1 .. Len(toServer) - 1 : toServer'[i] = toServer[i + 1]
    BY RequestsIndexed DEF InductiveInv
  <2>2. CASE toClient = <<>> /\ \A i \in 1 .. Len(toServer) : toServer[i].op = "async"
    <3>1. \A i \in 1 .. Len(toServer') : toServer'[i].op = "async"
      BY <2>1, <2>2
    <3>2. QED
      BY <2>2, <3>1 DEF OneRoundTrip
  <2>3. ASSUME NEW c \in Callers, pc[c] = "read", toClient = <<>>,
               toServer[Len(toServer)] = req[c],
               \A i \in 1 .. Len(toServer) - 1 : toServer[i].op = "async"
        PROVE  OneRoundTrip'
    <3>1. CASE Len(toServer) = 1
      <4>1. Len(toServer') = 0
        BY <2>0, <3>1
      <4>2. 1 .. Len(toServer') = {}
        BY <4>1, NothingUpToZero
      <4>3. \A i \in 1 .. Len(toServer') : toServer'[i].op = "async"
        BY <4>2
      <4>4. QED
        BY <2>3, <4>3 DEF OneRoundTrip
    <3>2. CASE Len(toServer) # 1
      <4>1. /\ toServer' # <<>> /\ Len(toServer') \in 1 .. Len(toServer) - 1
            /\ Len(toServer') + 1 = Len(toServer)
        BY <2>1, <3>2
      <4>2. toServer'[Len(toServer')] = req'[c]
        BY <2>1, <2>3, <4>1
      <4>3. \A i \in 1 .. Len(toServer') - 1 : toServer'[i].op = "async"
        BY <2>1, <2>3
      <4>4. QED
        BY <2>3, <4>1, <4>2, <4>3 DEF OneRoundTrip
    <3>3. QED
      BY <3>1, <3>2
  <2>4. QED
    BY <2>2, <2>3 DEF RoundTripGoal, OneRoundTrip
<1>3. QED
  BY <1>1, <1>2, AcksStay DEF RoundTripGoal

\* Once the handler has left the request phase only the answers under way matter.
LEMMA RoundTripOver ==
    ASSUME InductiveInv, [Next]_vars, RoundTripGoal, NEW f \in Frames, Respond(f),
           UNCHANGED <<pc, req, acked, socket>>, phase' # "request",
           f.op \notin {"publish", "batch"}
    PROVE  RoundTripGoal'
<1>1. ASSUME NEW i \in 1 .. Len(toClient'), toClient'[i].op \in {"publish", "batch"}
      PROVE  i \in 1 .. Len(toClient) /\ toClient'[i] = toClient[i]
  <2>1. Len(toClient) \in Nat
    BY FramesIndexed DEF InductiveInv
  <2>2. CASE socket
    BY <1>1, <2>1, <2>2, RespondIndexed DEF InductiveInv
  <2>3. CASE ~socket
    BY <1>1, <2>3, RespondIndexed DEF InductiveInv
  <2>4. QED
    BY <2>2, <2>3
<1>2. AnswerIsOwnNext
  BY <1>1, AnswerStays DEF RoundTripGoal, AnswerIsOwnNext, ReadersStay
<1>3. OneRoundTrip'
  BY DEF OneRoundTrip
<1>4. QED
  BY <1>2, <1>3, AnswersNext, AcksStay DEF RoundTripGoal

\* Every step keeps round trips apart.
LEMMA RoundTripInductive ==
    InductiveInv /\ [Next]_vars => RoundTripInv'
<1> SUFFICES ASSUME InductiveInv, [Next]_vars PROVE RoundTripInv'
  OBVIOUS
<1>t. timeouts' = timeouts
  <2> USE DEF clientVars
  <2>1. ASSUME NEW c \in Callers, CallStep(c) \/ \E r \in Requests : Call(c, r)
        PROVE  timeouts' = timeouts
    BY <2>1 DEF CallStep, Call, Refused, Lock, Write, WriteFails, Read, ReadFails,
       ReadExpires, ReadPush, MoreOrDone, CloseMarks, CloseHangsUp, CloseAgain
  <2>2. HandlerStep => timeouts' = timeouts
    BY DEF HandlerStep, ServePublish, ServeList, ServeSubscribe, Push
  <2>3. QED
    BY <2>1, <2>2 DEF Next, ServerEnds, PublishElsewhere, vars
<1> SUFFICES ASSUME ~ReadTimeout PROVE RoundTripGoal'
  BY <1>t DEF RoundTripInv, RoundTripGoal, ReadTimeout
<1> USE DEF clientVars, callVars, serverVars, history, vars
<1>a. /\ RoundTripGoal /\ TypeOK /\ ~deadline
      /\ toClient # <<>> => Head(toClient) # Torn
  BY FramesOff DEF InductiveInv, RoundTripInv, RoundTripGoal, NoTimeoutInv
<1>1. ASSUME NEW c \in Callers,
             \/ Refused(c) \/ Lock(c) \/ WriteFails(c) \/ MoreOrDone(c)
             \/ CloseMarks(c) \/ CloseHangsUp(c) \/ CloseAgain(c)
             \/ \E r \in Requests : Call(c, r)
      PROVE  RoundTripGoal'
  <2>1. UNCHANGED <<toServer, toClient, acked, phase>> /\ (socket' => socket)
    BY <1>1 DEF Refused, Lock, WriteFails, MoreOrDone, CloseMarks, MarkFirst, CloseHangsUp,
       CloseSocket, CloseAgain, Call
  <2>2. ReadersStay
    BY <1>1, <1>a DEF ReadersStay, TypeOK, Refused, Lock, WriteFails, MoreOrDone, CloseMarks,
       CloseHangsUp, CloseAgain, Call, Return, Goto, Finish, Outcome
  <2>3. QED
    BY <1>a, <2>1, <2>2, RoundTripSame
<1>2. ASSUME NEW c \in Callers, ReadFails(c) PROVE RoundTripGoal'
  <2>1. /\ toClient' = <<>> /\ UNCHANGED <<acked, phase, socket>>
        /\ ~socket \/ phase = "ended"
    BY <1>2, <1>a DEF ReadFails
  <2>2. OneRoundTrip' /\ AnswerIsOwn'
    BY <2>1 DEF OneRoundTrip, AnswerIsOwn
  <2>3. QED
    BY <1>a, <2>1, <2>2, AcksStay DEF RoundTripGoal
<1>3. ASSUME NEW c \in Callers, ReadExpires(c) PROVE RoundTripGoal'
  BY <1>3, <1>a DEF ReadExpires
<1>4. ASSUME NEW c \in Callers, ReadPush(c) PROVE RoundTripGoal'
  <2>1. /\ toClient # <<>> /\ toClient' = Tail(toClient) /\ UNCHANGED <<acked, phase>>
        /\ phase # "request"
    BY <1>4 DEF ReadPush, InductiveInv, CallInv, LockInv, StreamInv
  <2>2. ASSUME NEW i \in 1 .. Len(toClient')
        PROVE  toClient'[i].op \notin {"publish", "batch"}
    <3>1. /\ Len(toClient) \in Nat /\ Len(toClient') = Len(toClient) - 1
          /\ \A k \in 1 .. Len(toClient) - 1 : toClient'[k] = toClient[k + 1]
      BY <1>a, <2>1, FramesIndexed
    <3>2. /\ toClient'[i] = toClient[i + 1] /\ i + 1 \in 1 .. Len(toClient)
          /\ i + 1 # 1
      BY <3>1
    <3>3. QED
      BY <1>a, <3>2 DEF RoundTripGoal, AnswerIsOwn
  <2>3. OneRoundTrip' /\ AnswerIsOwn'
    BY <2>1, <2>2 DEF OneRoundTrip, AnswerIsOwn
  <2>4. QED
    BY <1>a, <2>1, <2>3, AcksStay DEF RoundTripGoal
<1>5. CASE ServePublish
  <2> DEFINE r == Head(toServer)
             f == Answer(r.op, Len(log), Len(r.payloads))
  <2>1. /\ UNCHANGED <<pc, req, acked, socket, phase>> /\ phase = "request"
        /\ toServer # <<>> /\ toServer' = Tail(toServer) /\ r \in Publishes
    BY <1>5 DEF ServePublish
  <2>2. /\ r.payloads \in Seq(Payloads) /\ Len(r.payloads) \in Nat
        /\ r.op \in {"publish", "batch", "async"} /\ log \in Seq(Payloads)
        /\ Len(log) \in Nat
    BY <1>a, <2>1, PublicationsHavePayloads, LenProperties DEF TypeOK
  <2>3. CASE r.op = "async"
    <3>1. toClient' = toClient
      BY <1>5, <2>3 DEF ServePublish
    <3>2. QED
      BY <1>a, <2>1, <2>3, <3>1, RoundTripSilent
  <2>4. CASE r.op # "async" /\ Respond(Error)
    <3>1. Error \in Frames /\ Error.op = "error"
      BY ErrorIsWhole DEF Error, Answer
    <3>2. QED
      BY <1>a, <2>1, <2>4, <3>1, RoundTripAnswer
  <2>5. CASE r.op # "async" /\ log' = log \o r.payloads /\ Respond(f)
    <3>1. f \in Frames /\ f.base = Len(log)
      <4>1. f \in Frames \ {Torn}
        BY <2>2, <2>5, AnswersAreWhole
      <4>2. QED
        BY <4>1 DEF Answer
    <3>2. HoldsNext(r, Len(log))
      <4>1. /\ Len(log') = Len(log) + Len(r.payloads)
            /\ \A i \in 1 .. Len(log) + Len(r.payloads) :
                  log'[i] = IF i <= Len(log) THEN log[i] ELSE r.payloads[i - Len(log)]
        BY <2>2, <2>5, ConcatProperties
      <4>2. ASSUME NEW i \in 1 .. Len(r.payloads)
            PROVE  Len(log) + i <= Len(log') /\ log'[Len(log) + i] = r.payloads[i]
        <5>1. /\ Len(log) + i \in 1 .. Len(log) + Len(r.payloads)
              /\ ~(Len(log) + i <= Len(log)) /\ (Len(log) + i) - Len(log) = i
          BY <2>2
        <5>2. QED
          BY <2>2, <4>1, <5>1
      <4>3. QED
        BY <4>2 DEF HoldsNext
    <3> HIDE DEF f
    <3>3. QED
      BY <1>a, <2>1, <2>5, <3>1, <3>2, RoundTripAnswer
  <2>6. QED
    BY <1>5, <2>3, <2>4, <2>5 DEF ServePublish
<1>6. CASE ServeList
  <2>1. /\ UNCHANGED <<pc, req, acked, socket, phase>> /\ phase = "request"
        /\ toServer # <<>> /\ toServer' = Tail(toServer) /\ Head(toServer).op = "list"
    BY <1>6 DEF ServeList, List
  <2>2. \E f \in Frames : f.op \in {"list", "error"} /\ Respond(f)
    <3>1. Answer("list", 0, 0) \in Frames /\ Answer("list", 0, 0).op = "list"
      BY AnswersAreWhole DEF Answer
    <3>2. Error \in Frames /\ Error.op = "error"
      BY ErrorIsWhole DEF Error, Answer
    <3>3. QED
      BY <1>6, <3>1, <3>2 DEF ServeList
  <2>3. QED
    BY <1>a, <2>1, <2>2, RoundTripAnswer
<1>7. CASE ServeSubscribe
  <2>1. UNCHANGED <<pc, req, acked, socket>> /\ phase = "request"
        /\ toServer # <<>> /\ Head(toServer).op = "subscribe"
    BY <1>7 DEF ServeSubscribe, Sub
  <2>2. CASE phase' = "push" /\ Respond(Answer("subscribe", 0, 0))
    <3>1. Answer("subscribe", 0, 0) \in Frames /\ Answer("subscribe", 0, 0).op = "subscribe"
      BY AnswersAreWhole DEF Answer
    <3>2. QED
      BY <1>a, <2>1, <2>2, <3>1, RoundTripOver
  <2>3. CASE phase' = phase /\ Respond(Error) /\ toServer' = Tail(toServer)
    <3>1. Error \in Frames /\ Error.op = "error"
      BY ErrorIsWhole DEF Error, Answer
    <3>2. QED
      BY <1>a, <2>1, <2>3, <3>1, RoundTripAnswer
  <2>4. QED
    BY <1>7, <2>2, <2>3 DEF ServeSubscribe
<1>8. CASE Push
  <2>1. /\ UNCHANGED <<pc, req, acked, socket, phase>> /\ phase = "push"
        /\ cursor \in Nat /\ cursor + 1 \in 1 .. Len(log) /\ Respond(Message(cursor + 1))
    BY <1>8, <1>a, LenProperties DEF Push, TypeOK
  <2>2. Message(cursor + 1) \in Frames
    <3>1. log[cursor + 1] \in Payloads /\ cursor + 1 \in Nat \ {0}
      BY <1>a, <2>1, ElementOfSeq DEF TypeOK
    <3>2. QED
      BY <3>1, MessagesAreWhole
  <2>3. Message(cursor + 1).op = "message"
    BY PushesAreMessages
  <2>4. QED
    BY <1>a, <2>1, <2>2, <2>3, RoundTripOver
<1>9. CASE ServerEnds \/ UNCHANGED vars \/ \E m \in Foreign : PublishElsewhere(m)
  <2>1. /\ UNCHANGED <<pc, req, toServer, toClient, acked, socket>>
        /\ phase' \in {phase, "ended"}
    BY <1>9 DEF ServerEnds, PublishElsewhere
  <2>2. QED
    BY <1>a, <2>1, RoundTripSame DEF ReadersStay
<1>10. QED
  BY <1>1, <1>2, <1>3, <1>4, <1>5, <1>6, <1>7, <1>8, <1>9, <1>a, RoundTripWrite,
     RoundTripRead DEF Next, CallStep, HandlerStep

-----------------------------------------------------------------------------
\* What follows from it

\* The initial states satisfy InductiveInv.
LEMMA InitInv == Init => InductiveInv
<1> SUFFICES ASSUME Init PROVE InductiveInv
  OBVIOUS
<1> USE DEF Init
<1>1. TypeOK
  <2>1. /\ toServer \in Seq(Publishes \union {List, Sub}) /\ toClient \in Seq(Frames)
        /\ log \in Seq(Payloads) /\ Len(log) = 0
        /\ got \in Seq([Offset : Nat, Payload : Nat \union Payloads])
    BY EmptySeq
  <2>2. cursor \in 0 .. Len(log)
    BY <2>1
  <2>3. req \in [Callers -> Requests]
    BY DEF Requests
  <2>4. QED
    BY <2>1, <2>2, <2>3 DEF TypeOK, Results
<1>2. CallInv /\ LockInv /\ LateInv
  BY DEF CallInv, LockInv, LateInv
<1>3. IdlePullStays
  BY DEF IdlePullStays
<1>4. NoTimeoutInv
  BY EmptySeq DEF NoTimeoutInv
<1>5. /\ \A i \in 1 .. Len(toClient) : FALSE
      /\ \A i \in 1 .. Len(toServer) : FALSE
      /\ \A i \in 1 .. Len(got) : FALSE
  OBVIOUS
<1>6. StreamInv /\ StreamIsPrefix
  BY <1>5 DEF StreamInv, StreamIsPrefix
<1>7. RoundTripInv
  BY <1>5 DEF RoundTripInv, OneRoundTrip, AnswerIsOwn, AckIsOwn
<1>8. QED
  BY <1>1, <1>2, <1>3, <1>4, <1>6, <1>7 DEF InductiveInv

\* InductiveInv holds in every reachable state.
THEOREM Invariance == Spec => []InductiveInv
<1>1. InductiveInv /\ [Next]_vars => InductiveInv'
  BY TypeInductive, CallsInductive, LateInductive, NoTimeoutInductive, StreamInductive,
     RoundTripInductive DEF InductiveInv, TogetherInv, StreamGoal
<1>2. QED
  BY InitInv, <1>1, PTL DEF Spec

\* Every variable has a value of its Go type.
THEOREM TypeCorrect == Spec => []TypeOK
<1>1. InductiveInv => TypeOK
  BY DEF InductiveInv
<1>2. QED
  BY Invariance, <1>1, PTL

\* No read of a push ever fails at the deadline of an earlier request: Subscribe
\* clears it under the lock, and nobody sets it again.
THEOREM PullsStay == Spec => []IdlePullStays
<1>1. InductiveInv => IdlePullStays
  BY DEF InductiveInv
<1>2. QED
  BY Invariance, <1>1, PTL

\* What Subscription.Read returns is the log from its beginning, whatever time-outs
\* are configured and whatever late answers and torn frames came before.
THEOREM Prefix == Spec => []StreamIsPrefix
<1>1. InductiveInv => StreamIsPrefix
  BY DEF InductiveInv
<1>2. QED
  BY Invariance, <1>1, PTL

\* Without a read time-out, whether or not there is a write time-out, each request gets
\* the answer to itself: the offset that Publish returns is that of its own payloads.
THEOREM OwnAnswers ==
    (\A T \in Configurations : "read" \notin T) => (Spec => []AckIsOwn)
<1> SUFFICES ASSUME \A T \in Configurations : "read" \notin T PROVE Spec => []AckIsOwn
  OBVIOUS
<1>1. InductiveInv => AckIsOwn
  BY DEF InductiveInv, TypeOK, RoundTripInv, ReadTimeout
<1>2. QED
  BY Invariance, <1>1, PTL

\* Errors say what happened: ErrClosed after Close, and without time-outs other
\* errors only from a server that has ended the connection (opErr).
THEOREM TrueErrors == Configurations = {{}} => (Spec => ErrorsSayWhatHappened)
<1> SUFFICES ASSUME Configurations = {{}} PROVE Spec => ErrorsSayWhatHappened
  OBVIOUS
<1>1. InductiveInv /\ [Next]_vars =>
        [\A c \in Callers :
            /\ late[c] /\ result'[c] # result[c] /\ pc[c] # "idle" =>
                  result'[c] = IF req[c] = Quit THEN "ok" ELSE "closed"
            /\ result'[c] = "error" /\ result[c] # "error" => phase = "ended"]_vars
  <2> SUFFICES ASSUME InductiveInv, [Next]_vars, NEW c \in Callers, result'[c] # result[c]
               PROVE  /\ late[c] /\ pc[c] # "idle" =>
                            result'[c] = IF req[c] = Quit THEN "ok" ELSE "closed"
                      /\ result'[c] = "error" => phase = "ended"
    OBVIOUS
  <2> USE DEF InductiveInv, TypeOK, CallInv, LockInv, LateInv, NoTimeoutInv, Goto, Return,
              Finish, Outcome, EndPull, Failure, ReadTimeout
  <2>1. timeouts = {}
    OBVIOUS
  <2>2. ASSUME NEW d \in Callers, CallStep(d) \/ \E r \in Requests : Call(d, r) PROVE d = c
    BY <2>2 DEF CallStep, Call, Refused, Lock, Write, WriteFails, Read, ReadFails, ReadExpires,
       ReadPush, MoreOrDone, CloseMarks, CloseHangsUp, CloseAgain, callVars
  <2>3. ASSUME NEW r \in Requests, Call(c, r)
        PROVE  result'[c] \in {"closed", "none"} /\ pc[c] = "idle"
    BY <2>3 DEF Call
  <2>4. CASE Refused(c)
    BY <2>4 DEF Refused, SeesClosed
  <2>5. CASE Lock(c) \/ CloseMarks(c)
    BY <2>5 DEF Lock, CloseMarks, callVars
  <2>6. CASE Write(c) \/ Read(c) \/ ReadPush(c) \/ MoreOrDone(c)
    BY <2>6 DEF Write, Read, ReadPush, MoreOrDone
  <2>7. CASE WriteFails(c)
    BY <2>1, <2>7 DEF WriteFails, WriteTimeout
  <2>8. CASE ReadFails(c)
    <3>1. toClient # <<>> => Head(toClient) # Torn
      BY <2>1, FramesOff
    <3>2. QED
      BY <2>8, <3>1 DEF ReadFails
  <2>9. CASE ReadExpires(c)
    BY <2>1, <2>9 DEF ReadExpires
  <2>10. CASE CloseHangsUp(c) \/ CloseAgain(c)
    BY <2>10 DEF CloseHangsUp, CloseAgain
  <2>11. CASE \/ HandlerStep \/ ServerEnds \/ UNCHANGED vars
               \/ \E m \in Foreign : PublishElsewhere(m)
    BY <2>11 DEF HandlerStep, ServePublish, ServeList, ServeSubscribe, Push, ServerEnds,
       PublishElsewhere, callVars, vars
  <2>12. QED
    BY <2>2, <2>3, <2>4, <2>5, <2>6, <2>7, <2>8, <2>9, <2>10, <2>11 DEF Next, CallStep
<1>2. QED
  BY Invariance, <1>1, PTL DEF Spec, ErrorsSayWhatHappened

-----------------------------------------------------------------------------
\* Calls come to their end

\* Close is run by one caller, who stays in it until the socket is closed; who
\* has the lock is where a call has it; an answer is waited for with a deadline,
\* when there is one.
EndInv ==
    /\ closed => closer # None
    /\ closer # None /\ ~closeDone => pc[closer] = "close"
    /\ closeDone => closed /\ ~socket
    /\ mu # None => pc[mu] \in {"write", "read", "pull"}
    /\ ReadTimeout => \A c \in Callers : pc[c] = "read" => deadline

\* The call of c can take a step, whatever the server does next.
CanGoOn(c) ==
    \/ pc[c] = "lock" /\ LockFree
    \/ pc[c] \in {"write", "more"}
    \/ pc[c] \in {"read", "pull"} /\ (~socket \/ phase = "ended" \/ deadline)
    \/ pc[c] = "close" /\ (closer = None \/ closer = c \/ closeDone)

\* The call of c waits for a server that may be silent: for a push, or for an
\* answer without a read time-out, and never behind a Close.
AwaitsServer(c) ==
    /\ pc[c] = "pull" \/ (pc[c] = "read" /\ ~ReadTimeout)
    /\ ~closeDone /\ phase # "ended"

\* A call can go on, or waits for the server, for who has the lock or for who
\* runs the body of closeOnce; and these do not wait for another call in turn.
NobodyWaits ==
    \A c \in Callers : pc[c] # "idle" =>
        \/ CanGoOn(c)
        \/ AwaitsServer(c)
        \/ pc[c] = "lock" /\ mu \in Callers /\ (CanGoOn(mu) \/ AwaitsServer(mu))
        \/ pc[c] = "close" /\ closer \in Callers /\ CanGoOn(closer)

\* What a call has still to do at most once the client is closed.
CallLeft(c) ==
    CASE pc[c] = "pull" -> 3
      [] pc[c] \in {"write", "more"} -> 2
      [] pc[c] = "idle" -> 0
      [] OTHER -> 1

\* A call is moved by its own steps only, and ends with the one that takes its
\* answer, or gives up.  Once the client is closed it stays so, nobody gets the
\* lock any more, and each step of a call leaves it less to do.
WindsDown ==
    /\ \A c \in Callers :
          /\ pc[c] # "idle" /\ ~CallStep(c) => pc'[c] = pc[c]
          /\ pc[c] = "read" /\ CallStep(c) => pc'[c] = "idle"
    /\ closed =>
          /\ closed' /\ (closeDone => closeDone')
          /\ mu' \in {mu, None}
          /\ \A c \in Callers : CallStep(c) => CallLeft(c)' < CallLeft(c)

\* Close, the lock and the deadline keep what calls wait for.
LEMMA EndInductive == InductiveInv /\ EndInv /\ [Next]_vars => EndInv'
<1> SUFFICES ASSUME InductiveInv, EndInv, [Next]_vars PROVE EndInv'
  OBVIOUS
<1> USE ClientAssumption
<1> USE DEF InductiveInv, TypeOK, LockInv, EndInv, ReadTimeout, Goto, Return, Finish, Outcome,
       vars, clientVars, callVars, serverVars, history
<1>1. ASSUME NEW c \in Callers, Refused(c) PROVE EndInv'
  BY <1>1 DEF Refused, LockFree
<1>2. ASSUME NEW c \in Callers, Lock(c) PROVE EndInv'
  BY <1>2 DEF Lock, LockFree, SeesClosed
<1>3. ASSUME NEW c \in Callers, Write(c) PROVE EndInv'
  <2>1. /\ pc[c] = "write" /\ mu = c
        /\ UNCHANGED <<timeouts, closed, closer, closeDone, socket>>
        /\ \/ Goto(c, "idle") /\ mu' = None /\ UNCHANGED deadline
           \/ Goto(c, "read") /\ deadline' = ReadTimeout /\ UNCHANGED mu
    BY <1>3 DEF Write, ArmDeadline
  <2> HIDE DEF InductiveInv
  <2>2. \A d \in Callers : pc[d] = "read" => mu = d
    BY DEF InductiveInv
  <2>3. /\ pc \in [Callers -> {"idle", "lock", "write", "read", "pull", "more", "close"}]
        /\ closer \in Callers \union {None}
    BY DEF InductiveInv
  <2>4. closer # None /\ ~closeDone => pc'[closer] = "close"
    BY <2>1, <2>3
  <2>5. mu' # None => mu' = c /\ pc'[c] = "read"
    BY <2>1, <2>3
  <2>6. \A d \in Callers : pc'[d] = "read" => d = c /\ deadline' = ReadTimeout
    BY <2>1, <2>2, <2>3
  <2>7. QED
    BY <2>1, <2>4, <2>5, <2>6
<1>4. ASSUME NEW c \in Callers, WriteFails(c) PROVE EndInv'
  BY <1>4 DEF WriteFails
<1>5. ASSUME NEW c \in Callers, Read(c) PROVE EndInv'
  <2>1. /\ pc[c] = "read" /\ mu = c /\ Goto(c, "idle") /\ mu' = None
        /\ UNCHANGED <<timeouts, closed, closer, closeDone, socket>>
    BY <1>5 DEF Read
  <2> HIDE DEF InductiveInv
  <2>2. \A d \in Callers : pc[d] = "read" => mu = d
    BY DEF InductiveInv
  <2>3. /\ pc \in [Callers -> {"idle", "lock", "write", "read", "pull", "more", "close"}]
        /\ closer \in Callers \union {None}
    BY DEF InductiveInv
  <2>4. QED
    BY <2>1, <2>2, <2>3
<1>6. ASSUME NEW c \in Callers, ReadFails(c) PROVE EndInv'
  BY <1>6 DEF ReadFails, EndPull
<1>7. ASSUME NEW c \in Callers, ReadExpires(c) PROVE EndInv'
  BY <1>7 DEF ReadExpires, EndPull
<1>8. ASSUME NEW c \in Callers, ReadPush(c) PROVE EndInv'
  BY <1>8 DEF ReadPush, EndPull
<1>9. ASSUME NEW c \in Callers, MoreOrDone(c) PROVE EndInv'
  BY <1>9 DEF MoreOrDone
<1>10. ASSUME NEW c \in Callers, CloseMarks(c) PROVE EndInv'
  BY <1>10 DEF CloseMarks, MarkFirst
<1>11. ASSUME NEW c \in Callers, CloseHangsUp(c) PROVE EndInv'
  BY <1>11 DEF CloseHangsUp, CloseSocket
<1>12. ASSUME NEW c \in Callers, CloseAgain(c) PROVE EndInv'
  BY <1>12 DEF CloseAgain
<1>13. ASSUME NEW c \in Callers, NEW r \in Requests, Call(c, r) PROVE EndInv'
  BY <1>13 DEF Call, MayCall, RefusedAtOnce
<1>14. CASE ServePublish \/ ServeList \/ ServeSubscribe \/ Push
  BY <1>14 DEF ServePublish, ServeList, ServeSubscribe, Push
<1>15. CASE ServerEnds
  BY <1>15 DEF ServerEnds
<1>16. ASSUME NEW m \in Foreign, PublishElsewhere(m) PROVE EndInv'
  BY <1>16 DEF PublishElsewhere
<1>17. CASE UNCHANGED vars
  BY <1>17
<1>18. QED
  BY <1>1, <1>2, <1>3, <1>4, <1>5, <1>6, <1>7, <1>8, <1>9, <1>10, <1>11, <1>12, <1>13,
     <1>14, <1>15, <1>16, <1>17 DEF Next, CallStep, HandlerStep

\* Nobody waits for somebody who waits for him, and behind Close nobody waits for
\* the server: the safety part of CloseEndsCalls and SilenceEnds (Client.mu,
\* Client.Close, WithClientReadTimeout).
THEOREM CallsAreServed == Spec => []NobodyWaits
<1>1. Init => EndInv
  BY DEF Init, EndInv
<1>2. InductiveInv /\ EndInv /\ [Next]_vars => EndInv'
  BY EndInductive
<1>3. InductiveInv /\ EndInv => NobodyWaits
  <2> SUFFICES ASSUME InductiveInv, EndInv, NEW c \in Callers, pc[c] # "idle"
               PROVE  \/ CanGoOn(c)
                      \/ AwaitsServer(c)
                      \/ pc[c] = "lock" /\ mu \in Callers /\ (CanGoOn(mu) \/ AwaitsServer(mu))
                      \/ pc[c] = "close" /\ closer \in Callers /\ CanGoOn(closer)
    BY DEF NobodyWaits
  <2>1. ASSUME NEW d \in Callers, pc[d] \in {"write", "read", "pull"}
        PROVE  CanGoOn(d) \/ AwaitsServer(d)
    BY <2>1 DEF CanGoOn, AwaitsServer, EndInv
  <2>2. CASE pc[c] \in {"write", "read", "pull"}
    BY <2>1, <2>2
  <2>3. CASE pc[c] = "lock"
    <3>1. CASE mu = None
      BY <2>3, <3>1 DEF CanGoOn, LockFree
    <3>2. CASE mu # None
      BY <2>1, <2>3, <3>2 DEF EndInv, InductiveInv, TypeOK
    <3>3. QED
      BY <3>1, <3>2
  <2>4. CASE pc[c] = "close"
    <3>1. CASE closer = None \/ closeDone
      BY <2>4, <3>1 DEF CanGoOn
    <3>2. CASE closer # None /\ ~closeDone
      BY <2>4, <3>2 DEF CanGoOn, EndInv, InductiveInv, TypeOK
    <3>3. QED
      BY <3>1, <3>2
  <2>5. pc[c] \in {"idle", "lock", "write", "read", "pull", "more", "close"}
    BY DEF InductiveInv, TypeOK
  <2>6. QED
    BY <2>2, <2>3, <2>4, <2>5 DEF CanGoOn
<1>4. QED
  BY Invariance, <1>1, <1>2, <1>3, PTL DEF Spec

\* All that the lock brings the call of c is a refusal.
PassedBy(c) == closed \/ (streaming /\ req[c] \notin {Pull, PullMany})

\* The state that a call which can go on leaves, by the way that needs nobody.
AfterCall(c) ==
    LET State(client, where, how, requests, answers, done) ==
            <<client, <<[pc EXCEPT ![c] = where], req, late, [result EXCEPT ![c] = how]>>,
              requests, answers, serverVars, log, <<called, acked, got, done>> >>
        Client(holder, closing, open, failed, armed) ==
            <<timeouts, holder, streaming, closed \/ closing # closer, closing, open, failed,
              armed>>
        fits == socket /\ ~broken
        unanswered == req[c].op = "async"
        kept(how) == IF result[c] = "some" THEN "ok" ELSE how
    IN  CASE pc[c] = "lock" /\ PassedBy(c) ->
                 State(clientVars, "idle", IF closed THEN kept("closed") ELSE "streaming",
                       toServer, toClient, closeDone)
          [] pc[c] = "lock" /\ ~PassedBy(c) ->
                 State(Client(c, closer, socket, broken, deadline),
                       IF req[c] \in {Pull, PullMany} THEN "pull" ELSE "write", result[c],
                       toServer, toClient, closeDone)
          [] pc[c] = "write" /\ fits ->
                 State(Client(IF unanswered THEN None ELSE mu, closer, socket, broken,
                              IF unanswered THEN deadline ELSE ReadTimeout),
                       IF unanswered THEN "idle" ELSE "read",
                       IF unanswered THEN "ok" ELSE result[c],
                       Append(toServer, req[c]), toClient, closeDone)
          [] pc[c] = "write" /\ ~fits ->
                 State(Client(None, closer, socket, TRUE, deadline), "idle", Failure,
                       toServer, toClient, closeDone)
          [] pc[c] \in {"read", "pull"} /\ deadline ->
                 State(Client(None, closer, socket, broken, deadline), "idle",
                       kept(IF closed THEN "closed" ELSE "timeout"),
                       toServer, toClient, closeDone)
          [] pc[c] \in {"read", "pull"} /\ ~deadline ->
                 State(Client(None, closer, socket, broken, deadline), "idle", kept(Failure),
                       toServer, <<>>, closeDone)
          [] pc[c] = "more" ->
                 State(clientVars, "idle", "ok", toServer, toClient, closeDone)
          [] pc[c] = "close" /\ closer = None ->
                 <<Client(mu, c, socket, broken, deadline), callVars, toServer, toClient,
                   serverVars, log, history>>
          [] OTHER ->
                 State(IF closeDone THEN clientVars
                       ELSE <<timeouts, mu, streaming, TRUE, closer, FALSE, broken, deadline>>,
                       "idle", "ok", toServer, toClient, TRUE)

\* That a call can go on means that there is a step: the state written out is
\* reached by a step of the call, which is not a stutter.
THEOREM GoingOnIsAStep ==
    ASSUME InductiveInv, NEW c \in Callers, CanGoOn(c), vars' = AfterCall(c)
    PROVE  <<CallStep(c)>>_vars
<1> USE ClientAssumption
<1> USE DEF InductiveInv, TypeOK, LockInv, Goto, Return, Finish, Outcome,
       vars, clientVars, callVars, serverVars, history
<1>1. pc[c] \in {"lock", "write", "read", "pull", "more", "close"}
  BY DEF CanGoOn
<1>2. CASE pc[c] = "lock" /\ PassedBy(c)
  <2>1. Refused(c)
    BY <1>2 DEF AfterCall, PassedBy, Refused, SeesClosed, CanGoOn
  <2>2. pc'[c] = "idle"
    BY <2>1 DEF Refused
  <2>3. QED
    BY <1>2, <2>1, <2>2 DEF CallStep
<1>3. CASE pc[c] = "lock" /\ ~PassedBy(c)
  <2>1. Lock(c)
    BY <1>3 DEF AfterCall, PassedBy, Lock, SeesClosed, CanGoOn
  <2>2. pc'[c] # "lock"
    BY <2>1 DEF Lock
  <2>3. QED
    BY <1>3, <2>1, <2>2 DEF CallStep
<1>4. CASE pc[c] = "write" /\ socket /\ ~broken
  <2>1. Write(c)
    <3>1. CASE req[c].op = "async"
      <4>1. /\ pc' = [pc EXCEPT ![c] = "idle"] /\ result' = [result EXCEPT ![c] = "ok"]
            /\ mu' = None /\ toServer' = Append(toServer, req[c])
            /\ UNCHANGED <<timeouts, streaming, closed, closer, socket, broken, deadline, req,
                           late, toClient, serverVars, log, history>>
        BY <1>4, <3>1 DEF AfterCall
      <4>2. QED
        BY <1>4, <3>1, <4>1 DEF Write
    <3>2. CASE req[c].op # "async"
      <4>1. /\ pc' = [pc EXCEPT ![c] = "read"] /\ result' = [result EXCEPT ![c] = result[c]]
            /\ deadline' = ReadTimeout /\ toServer' = Append(toServer, req[c])
            /\ UNCHANGED <<timeouts, mu, streaming, closed, closer, socket, broken, req,
                           late, toClient, serverVars, log, history>>
        BY <1>4, <3>2 DEF AfterCall
      <4>2. result' = result
        BY <4>1
      <4>3. QED
        BY <1>4, <3>2, <4>1, <4>2 DEF Write, ArmDeadline
    <3>3. QED
      BY <3>1, <3>2
  <2>2. pc'[c] # "write"
    BY <2>1 DEF Write
  <2>3. QED
    BY <1>4, <2>1, <2>2 DEF CallStep
<1>5. CASE pc[c] = "write" /\ ~(socket /\ ~broken)
  <2>1. WriteFails(c)
    BY <1>5 DEF AfterCall, WriteFails
  <2>2. pc'[c] # "write"
    BY <2>1 DEF WriteFails
  <2>3. QED
    BY <1>5, <2>1, <2>2 DEF CallStep
<1>6. CASE pc[c] \in {"read", "pull"} /\ deadline
  <2>1. ReadExpires(c)
    BY <1>6 DEF AfterCall, ReadExpires, EndPull
  <2>2. pc'[c] = "idle"
    BY <2>1 DEF ReadExpires, EndPull
  <2>3. QED
    BY <1>6, <2>1, <2>2 DEF CallStep
<1>7. CASE pc[c] \in {"read", "pull"} /\ ~deadline
  <2>1. ReadFails(c)
    BY <1>7 DEF AfterCall, ReadFails, EndPull, CanGoOn
  <2>2. pc'[c] = "idle"
    BY <2>1 DEF ReadFails, EndPull
  <2>3. QED
    BY <1>7, <2>1, <2>2 DEF CallStep
<1>8. CASE pc[c] = "more"
  <2>1. Return(c, "ok")
    BY <1>8 DEF AfterCall
  <2>2. MoreOrDone(c)
    BY <1>8, <2>1 DEF AfterCall, MoreOrDone
  <2>3. pc'[c] = "idle"
    BY <2>1
  <2>4. QED
    BY <1>8, <2>2, <2>3 DEF CallStep
<1>9. CASE pc[c] = "close" /\ closer = None
  <2>1. CloseMarks(c)
    BY <1>9 DEF AfterCall, CloseMarks, MarkFirst
  <2>2. closer' # closer
    BY <1>9 DEF AfterCall
  <2>3. QED
    BY <1>9, <2>1, <2>2 DEF CallStep
<1>10. CASE pc[c] = "close" /\ closer # None
  <2>1. /\ pc' = [pc EXCEPT ![c] = "idle"] /\ result' = [result EXCEPT ![c] = "ok"]
        /\ closeDone' = TRUE
        /\ UNCHANGED <<req, late, toServer, toClient, serverVars, log, called, acked, got>>
    BY <1>10 DEF AfterCall
  <2>2. clientVars' = IF closeDone THEN clientVars
                      ELSE <<timeouts, mu, streaming, TRUE, closer, FALSE, broken, deadline>>
    BY <1>10 DEF AfterCall
  <2>3. CASE closeDone
    <3>1. closeDone' = closeDone
      BY <2>1, <2>3
    <3>2. CloseAgain(c)
      BY <1>10, <2>1, <2>2, <2>3, <3>1 DEF CloseAgain
    <3>3. QED
      BY <1>10, <2>1, <3>2 DEF CallStep
  <2>4. CASE ~closeDone
    <3>1. closer = c
      BY <1>10, <2>4 DEF CanGoOn
    <3>2. CloseHangsUp(c)
      BY <1>10, <2>1, <2>2, <2>4, <3>1 DEF CloseHangsUp, CloseSocket
    <3>3. QED
      BY <1>10, <2>1, <3>2 DEF CallStep
  <2>5. QED
    BY <2>3, <2>4
<1>11. QED
  BY <1>1, <1>2, <1>3, <1>4, <1>5, <1>6, <1>7, <1>8, <1>9, <1>10

\* A call ends by its own steps: the way a call takes is as short as WindsDown
\* says, and Close shuts the detours (Client.Close, Subscription.ReadBatch).
THEOREM CallsWindDown == Spec => [][WindsDown]_vars
<1>1. Init => EndInv
  BY DEF Init, EndInv
<1>2. InductiveInv /\ EndInv /\ [Next]_vars => EndInv'
  BY EndInductive
<1>3. InductiveInv /\ EndInv /\ [Next]_vars => [WindsDown]_vars
  <2> SUFFICES ASSUME InductiveInv, EndInv, Next PROVE WindsDown
    OBVIOUS
  <2> USE ClientAssumption
  <2> USE DEF InductiveInv, TypeOK, LockInv, Goto, Return, Finish, Outcome, vars, clientVars,
         callVars, serverVars, history
  <2>1. ASSUME NEW c \in Callers, NEW d \in Callers, c # d, CallStep(d) PROVE pc'[c] = pc[c]
    BY <2>1 DEF CallStep, Refused, Lock, Write, WriteFails, Read, ReadFails, ReadExpires,
       EndPull, ReadPush, MoreOrDone, CloseMarks, CloseHangsUp, CloseAgain
  <2>2. ASSUME NEW c \in Callers, pc[c] # "idle", ~CallStep(c) PROVE pc'[c] = pc[c]
    <3>1. CASE \E d \in Callers : CallStep(d)
      BY <2>1, <2>2, <3>1
    <3>2. CASE \E d \in Callers, r \in Requests : Call(d, r)
      BY <2>2, <3>2 DEF Call
    <3>3. CASE HandlerStep \/ ServerEnds \/ \E m \in Foreign : PublishElsewhere(m)
      BY <3>3 DEF HandlerStep, ServePublish, ServeList, ServeSubscribe, Push, ServerEnds,
         PublishElsewhere
    <3>4. QED
      BY <3>1, <3>2, <3>3 DEF Next
  <2>3. ASSUME NEW c \in Callers, pc[c] = "read", CallStep(c) PROVE pc'[c] = "idle"
    BY <2>3 DEF CallStep, Refused, Lock, Write, WriteFails, Read, ReadFails, ReadExpires,
       EndPull, ReadPush, MoreOrDone, CloseMarks, CloseHangsUp, CloseAgain
  <2>4. ASSUME closed PROVE closed' /\ (closeDone => closeDone') /\ mu' \in {mu, None}
    <3>1. ASSUME NEW d \in Callers, CallStep(d)
          PROVE  closed' /\ (closeDone => closeDone') /\ mu' \in {mu, None}
      BY <2>4, <3>1 DEF CallStep, Refused, Lock, Write, WriteFails, Read, ReadFails,
         ReadExpires, EndPull, ReadPush, MoreOrDone, CloseMarks, MarkFirst, CloseHangsUp,
         CloseAgain, SeesClosed
    <3>2. CASE \E d \in Callers, r \in Requests : Call(d, r)
      BY <2>4, <3>2 DEF Call
    <3>3. CASE HandlerStep \/ ServerEnds \/ \E m \in Foreign : PublishElsewhere(m)
      BY <2>4, <3>3 DEF HandlerStep, ServePublish, ServeList, ServeSubscribe, Push,
         ServerEnds, PublishElsewhere
    <3>4. QED
      BY <3>1, <3>2, <3>3 DEF Next
  <2>5. ASSUME closed, NEW c \in Callers, CallStep(c) PROVE CallLeft(c)' < CallLeft(c)
    <3>1. closer # None
      BY <2>5 DEF EndInv
    <3>2. CASE Refused(c) \/ WriteFails(c) \/ Read(c) \/ ReadFails(c) \/ ReadExpires(c)
      <4>1. pc[c] # "idle" /\ pc'[c] = "idle"
        BY <3>2 DEF Refused, WriteFails, Read, ReadFails, ReadExpires, EndPull
      <4>2. QED
        BY <4>1 DEF CallLeft
    <3>3. CASE CloseHangsUp(c) \/ CloseAgain(c) \/ MoreOrDone(c)
      <4>1. \/ pc[c] = "close" /\ pc'[c] = "idle"
            \/ pc[c] = "more" /\ pc'[c] \in {"lock", "idle"}
        BY <3>3 DEF CloseHangsUp, CloseAgain, MoreOrDone
      <4>2. QED
        BY <4>1 DEF CallLeft
    <3>4. CASE Write(c)
      <4>1. pc[c] = "write" /\ pc'[c] \in {"read", "idle"}
        BY <3>4 DEF Write
      <4>2. QED
        BY <4>1 DEF CallLeft
    <3>5. CASE ReadPush(c)
      <4>1. pc[c] = "pull" /\ pc'[c] \in {"more", "idle"}
        BY <3>5 DEF ReadPush, EndPull
      <4>2. QED
        BY <4>1 DEF CallLeft
    <3>6. ~Lock(c) /\ ~CloseMarks(c)
      BY <2>5, <3>1 DEF Lock, SeesClosed, CloseMarks
    <3>7. QED
      BY <2>5, <3>2, <3>3, <3>4, <3>5, <3>6 DEF CallStep
  <2>6. QED
    BY <2>2, <2>3, <2>4, <2>5 DEF WindsDown
<1>4. QED
  BY Invariance, <1>1, <1>2, <1>3, PTL DEF Spec

=============================================================================

------------------------------- MODULE Client -------------------------------
(***************************************************************************)
(* One connection, end to end: goroutines that share a Client              *)
(* (network/client.go), the two byte streams, and the handler that serves  *)
(* the connection (network/server.go) over one topic.                      *)
(*                                                                         *)
(* Client.mu makes requests take turns: it is held from the write of a     *)
(* request to its response, and by Subscription.Read while that waits for  *)
(* a push.  Responses carry no identity: the client takes the next frame   *)
(* in the stream for the answer and compares opcodes.  Streams are         *)
(* sequences of frames; a time-out in the middle of a frame leaves the     *)
(* rest of it behind, as a frame Torn.                                     *)
(*                                                                         *)
(* Requests that the client itself refuses (ValidateTopicName, MaxMessage, *)
(* ErrEmptyBatch, a batch that WritePublishBatch finds too long for a      *)
(* frame) write nothing, and are in Requests.tla.                          *)
(***************************************************************************)
EXTENDS Integers, Sequences, FiniteSets

CONSTANTS
    Callers,        \* goroutines that share the client
    Publishes,      \* publications: [op, payloads]; each is called at most once
    Foreign,        \* payloads that other connections publish, once each
    Configurations, \* the time-outs that may be configured, of "read" and "write"
    MaxFrames,      \* bound: frames under way in one direction when a call begins
    None

\* What may come into the topic.
Payloads ==
    Foreign \union
    UNION { { r.payloads[i] : i \in 1 .. Len(r.payloads) } : r \in Publishes }

ASSUME ClientAssumption ==
    /\ \A r \in Publishes :
          /\ r \in [op : {"publish", "batch", "async"}, payloads : Seq(Payloads)]
          /\ r.payloads # <<>>
    /\ Configurations \subseteq SUBSET {"read", "write"}
    /\ MaxFrames \in Nat /\ None \notin Callers

VARIABLES
    \* Client
    timeouts,   \* the options of Dial: readTimeout, writeTimeout; never changed
    mu,         \* holder of Client.mu, or None
    streaming,  \* Client.streaming
    closed,     \* Client.closed
    closer,     \* the caller that runs the body of closeOnce, or None
    socket,     \* the client's end is open
    broken,     \* the buffered writer has failed, which it remembers
    deadline,   \* a read deadline is set
    pc,         \* pc[c]: where the call of c stands
    req,        \* req[c]: the request of that call
    late,       \* late[c]: history: the call began after a Close had returned
    result,     \* result[c]: how the last call of c ended
    \* the streams
    toServer, toClient,
    \* the handler of the connection, and the topic
    phase,      \* request, push, ended
    cursor,     \* how much of the log has been pushed
    log,        \* the payloads of the topic
    \* history
    called,     \* publications called so far
    acked,      \* [request, base] of publications that returned without error
    got,        \* what Subscription.Read has returned, in that order
    closeDone   \* some Close has returned: the body of closeOnce has run

clientVars == <<timeouts, mu, streaming, closed, closer, socket, broken, deadline>>
callVars == <<pc, req, late, result>>
serverVars == <<phase, cursor>>
history == <<called, acked, got, closeDone>>
vars == <<clientVars, callVars, toServer, toClient, serverVars, log, history>>

ReadTimeout == "read" \in timeouts
\* The server may be slow to read.
WriteTimeout == "write" \in timeouts

\* Calls that are not publications.  A list call stands for all of them that
\* are answered and change nothing that matters here (ListTopics, CreateTopic).
List == [op |-> "list", payloads |-> <<>>]
Sub == [op |-> "subscribe", payloads |-> <<>>]
Pull == [op |-> "pull", payloads |-> <<>>]
PullMany == [op |-> "pullmany", payloads |-> <<>>]
Quit == [op |-> "close", payloads |-> <<>>]
Requests == Publishes \union {List, Sub, Pull, PullMany, Quit}

\* Frames that the server sends: an offset, and a number of messages or a payload.
Answer(op, base, body) == [op |-> op, base |-> base, body |-> body]
Error == Answer("error", 0, 0)
Torn == Answer("torn", 0, 0)

\* The push of the i-th message: its offset and payload.
Message(i) == Answer("message", i - 1, log[i])

Init ==
    /\ timeouts \in Configurations
    /\ mu = None
    /\ streaming = FALSE
    /\ closed = FALSE
    /\ closer = None
    /\ socket = TRUE
    /\ broken = FALSE
    /\ deadline = FALSE
    /\ pc = [c \in Callers |-> "idle"]
    /\ req = [c \in Callers |-> List]
    /\ late = [c \in Callers |-> FALSE]
    /\ result = [c \in Callers |-> "none"]
    /\ toServer = <<>>
    /\ toClient = <<>>
    /\ phase = "request"
    /\ cursor = 0
    /\ log = <<>>
    /\ called = {}
    /\ acked = {}
    /\ got = <<>>
    /\ closeDone = FALSE

-----------------------------------------------------------------------------
\* Pieces, each after what a slip would make of it

LockIgnored == TRUE
LockFree == mu = None

\* What the client takes for the answer to r, by roundTripWriteLocked.
Answers(r, f) == f.op = r.op

\* Which of its two effects Close has first.
HangUpFirst == socket' = FALSE /\ UNCHANGED closed
MarkFirst == closed' = TRUE /\ UNCHANGED socket

SocketKept == UNCHANGED socket
CloseSocket == socket' = FALSE

\* What reading a response, and subscribing, do to the read deadline.
DeadlineUnset == UNCHANGED deadline
ArmDeadline == deadline' = ReadTimeout

DeadlineKept == UNCHANGED deadline
ClearDeadline == deadline' = FALSE

\* The check of closed under the lock.
SeesClosed == closed

\* opErr: a failure after Close is ErrClosed.
Failure == IF closed THEN "closed" ELSE "error"

Goto(c, where) == pc' = [pc EXCEPT ![c] = where]

Return(c, how) ==
    /\ Goto(c, "idle")
    /\ result' = [result EXCEPT ![c] = how]

\* The call that holds the lock ends with result how.
Finish(c, how) == Return(c, how) /\ mu' = None

\* What an error makes of the call of c: ReadBatch keeps what it has.
Outcome(c, how) == IF result[c] = "some" THEN "ok" ELSE how

-----------------------------------------------------------------------------
\* Calls

\* What c may call: a Subscription to read from exists once Subscribe has
\* returned one.
MayCall(r) ==
    /\ r \in Publishes => r \notin called
    /\ r \in {Pull, PullMany} => streaming
    /\ Len(toServer) < MaxFrames /\ Len(toClient) < MaxFrames

\* Most calls look at closed before they ask for the lock.
RefusedAtOnce(r) == closed /\ r.op \in {"publish", "batch", "list"}

Call(c, r) ==
    /\ pc[c] = "idle"
    /\ MayCall(r)
    /\ req' = [req EXCEPT ![c] = r]
    /\ late' = [late EXCEPT ![c] = closeDone]
    /\ called' = IF r \in Publishes THEN called \union {r} ELSE called
    /\ IF RefusedAtOnce(r)
       THEN Return(c, "closed")
       ELSE /\ Goto(c, IF r = Quit THEN "close" ELSE "lock")
            /\ result' = [result EXCEPT ![c] = "none"]
    /\ UNCHANGED <<clientVars, toServer, toClient, serverVars, log, acked, got,
                   closeDone>>

\* The lock is taken and the call refused.
Refused(c) ==
    /\ pc[c] = "lock"
    /\ LockFree
    /\ \/ SeesClosed /\ Return(c, Outcome(c, "closed"))
       \/ /\ ~SeesClosed /\ streaming /\ req[c] \notin {Pull, PullMany}
          /\ Return(c, "streaming")
    /\ UNCHANGED <<clientVars, req, late, toServer, toClient, serverVars, log, history>>

Lock(c) ==
    /\ pc[c] = "lock"
    /\ LockFree
    /\ ~SeesClosed
    /\ \/ req[c] \in {Pull, PullMany} /\ Goto(c, "pull")
       \/ req[c] \notin {Pull, PullMany} /\ ~streaming /\ Goto(c, "write")
    /\ mu' = c
    /\ UNCHANGED <<timeouts, streaming, closed, closer, socket, broken, deadline, req, late,
                   result, toServer, toClient, serverVars, log, history>>

\* The request is written and flushed; PublishAsync is through with that.
Write(c) ==
    /\ pc[c] = "write"
    /\ socket /\ ~broken
    /\ toServer' = Append(toServer, req[c])
    /\ IF req[c].op = "async"
       THEN Finish(c, "ok") /\ UNCHANGED deadline
       ELSE Goto(c, "read") /\ ArmDeadline /\ UNCHANGED <<mu, result>>
    /\ UNCHANGED <<timeouts, streaming, closed, closer, socket, broken, req, late, toClient,
                   serverVars, log, history>>

\* The write fails: socket closed on either side, deadline, or an earlier failure.
WriteFails(c) ==
    /\ pc[c] = "write"
    /\ ~socket \/ broken \/ phase = "ended" \/ WriteTimeout
    /\ broken' = TRUE
    /\ Finish(c, Failure)
    /\ UNCHANGED <<timeouts, streaming, closed, closer, socket, deadline, req, late,
                   toServer, toClient, serverVars, log, history>>

\* A frame comes, or was in the buffered reader already, and is taken for the
\* answer.
Read(c) ==
    LET f == Head(toClient)
        r == req[c]
        fits == Answers(r, f) /\ (r.op = "batch" => f.body = Len(r.payloads))
    IN  /\ pc[c] = "read"
        /\ toClient # <<>>
        /\ f # Torn
        /\ toClient' = Tail(toClient)
        /\ \/ f = Error /\ Finish(c, "refused")
           \/ f # Error /\ ~fits /\ Finish(c, "unexpected")
           \/ f # Error /\ fits /\ Finish(c, "ok")
        /\ IF f # Error /\ fits /\ r = Sub
           THEN streaming' = TRUE /\ ClearDeadline
           ELSE UNCHANGED <<streaming, deadline>>
        /\ acked' = IF f # Error /\ fits /\ r \in Publishes
                    THEN acked \union {[request |-> r, base |-> f.base]} ELSE acked
        /\ UNCHANGED <<timeouts, closed, closer, socket, broken, req, late, toServer,
                       serverVars, log, called, got, closeDone>>

\* The call of c that reads pushes ends.
EndPull(c, how) == Finish(c, Outcome(c, how))

\* The remains of a torn frame are no header.  The attempt to read one leaves
\* some of them, or none, or it takes the beginning of the next frame with it.
AfterTorn == {toClient, Tail(toClient)} \union
    IF Len(toClient) > 1 THEN {<<Torn>> \o Tail(Tail(toClient))} ELSE {}

\* The read fails: socket closed or end of the stream, for good (a reset drops
\* what was under way), or the remains of a torn frame.
ReadFails(c) ==
    /\ pc[c] \in {"read", "pull"}
    /\ \/ (~socket \/ phase = "ended") /\ toClient' = <<>>
       \/ /\ toClient # <<>> /\ Head(toClient) = Torn
          /\ toClient' \in AfterTorn
    /\ EndPull(c, Failure)
    /\ UNCHANGED <<timeouts, streaming, closed, closer, socket, broken, deadline, req, late,
                   toServer, serverVars, log, history>>

\* The read deadline passes, before the next frame or in the middle of it; in the
\* middle of a payload ReadFrame calls that a truncated frame.
ReadExpires(c) ==
    /\ pc[c] \in {"read", "pull"}
    /\ deadline
    /\ \/ UNCHANGED toClient /\ EndPull(c, IF closed THEN "closed" ELSE "timeout")
       \/ /\ toClient # <<>> /\ toClient' = <<Torn>> \o Tail(toClient)
          /\ \E how \in {"timeout", "error"} : EndPull(c, IF closed THEN "closed" ELSE how)
    /\ UNCHANGED <<timeouts, streaming, closed, closer, socket, broken, deadline, req, late,
                   toServer, serverVars, log, history>>

\* Subscription.Read gets a message; ReadBatch goes on for more, without the
\* lock in between.
ReadPush(c) ==
    /\ pc[c] = "pull"
    /\ toClient # <<>>
    /\ Head(toClient) # Torn
    /\ toClient' = Tail(toClient)
    /\ IF Head(toClient).op = "message"
       THEN /\ got' = Append(got, [Offset |-> Head(toClient).base,
                                   Payload |-> Head(toClient).body])
            /\ IF req[c] = PullMany
               THEN Goto(c, "more") /\ mu' = None
                    /\ result' = [result EXCEPT ![c] = "some"]
               ELSE Finish(c, "ok")
       ELSE /\ EndPull(c, IF Head(toClient) = Error THEN "refused" ELSE "unexpected")
            /\ UNCHANGED got
    /\ UNCHANGED <<timeouts, streaming, closed, closer, socket, broken, deadline, req, late,
                   toServer, serverVars, log, called, acked, closeDone>>

\* ReadBatch has enough, or goes on because something is buffered.  It asks
\* without the lock: a reader that holds it may be filling the buffer, or taking
\* what is there, and then any answer may come.
SeesBuffered == toClient # <<>> \/ mu # None

MoreOrDone(c) ==
    /\ pc[c] = "more"
    /\ \/ Return(c, "ok")
       \/ SeesBuffered /\ Goto(c, "lock") /\ UNCHANGED result
    /\ UNCHANGED <<clientVars, req, late, toServer, toClient, serverVars, log, history>>

\* Close: the first caller marks the client closed, then closes the socket;
\* others wait for it.
CloseMarks(c) ==
    /\ pc[c] = "close"
    /\ closer = None
    /\ closer' = c
    /\ MarkFirst
    /\ UNCHANGED <<timeouts, mu, streaming, broken, deadline, callVars, toServer, toClient,
                   serverVars, log, history>>

CloseHangsUp(c) ==
    /\ pc[c] = "close"
    /\ closer = c /\ ~closeDone
    /\ closed' = TRUE
    /\ CloseSocket
    /\ closeDone' = TRUE
    /\ Return(c, "ok")
    /\ UNCHANGED <<timeouts, mu, streaming, closer, broken, deadline, req, late, toServer,
                   toClient, serverVars, log, called, acked, got>>

CloseAgain(c) ==
    /\ pc[c] = "close"
    /\ closeDone
    /\ Return(c, "ok")
    /\ UNCHANGED <<clientVars, req, late, toServer, toClient, serverVars, log, history>>

-----------------------------------------------------------------------------
\* The handler of the connection (handleConn), and everybody else

\* What the server writes; after the client has hung up it is lost.
Respond(f) == toClient' = IF socket THEN Append(toClient, f) ELSE toClient

\* The next request is served; the broker may refuse it.
ServePublish ==
    LET r == Head(toServer)
    IN  /\ phase = "request"
        /\ toServer # <<>>
        /\ r \in Publishes
        /\ \/ /\ log' = log \o r.payloads
              /\ IF r.op = "async" THEN UNCHANGED toClient
                 ELSE Respond(Answer(r.op, Len(log), Len(r.payloads)))
           \/ /\ UNCHANGED log
              /\ IF r.op = "async" THEN UNCHANGED toClient ELSE Respond(Error)
        /\ toServer' = Tail(toServer)
        /\ UNCHANGED <<clientVars, callVars, serverVars, history>>

ServeList ==
    /\ phase = "request"
    /\ toServer # <<>> /\ Head(toServer) = List
    /\ toServer' = Tail(toServer)
    /\ Respond(Answer("list", 0, 0)) \/ Respond(Error)
    /\ UNCHANGED <<clientVars, callVars, serverVars, log, history>>

\* A subscription: the answer precedes the first push.  Frames that the
\* handler has read ahead escape the monitor.
ServeSubscribe ==
    /\ phase = "request"
    /\ toServer # <<>> /\ Head(toServer) = Sub
    /\ \/ /\ Respond(Answer("subscribe", 0, 0))
          /\ phase' = "push"
          /\ toServer' \in {Tail(toServer), <<>>}
       \/ /\ Respond(Error)
          /\ toServer' = Tail(toServer)
          /\ UNCHANGED phase
    /\ UNCHANGED <<clientVars, callVars, cursor, log, history>>

Push ==
    /\ phase = "push"
    /\ socket
    /\ cursor < Len(log)
    /\ Respond(Message(cursor + 1))
    /\ cursor' = cursor + 1
    /\ UNCHANGED <<clientVars, callVars, toServer, phase, log, history>>

\* The handler ends: the client has hung up or sends during the push phase;
\* its own time-outs, Server.Close.
ServerEnds ==
    /\ phase # "ended"
    /\ phase' = "ended"
    /\ UNCHANGED <<clientVars, callVars, toServer, toClient, cursor, log, history>>

\* Another connection publishes to the topic.
PublishElsewhere(m) ==
    /\ \A i \in 1 .. Len(log) : log[i] # m
    /\ log' = Append(log, m)
    /\ UNCHANGED <<clientVars, callVars, toServer, toClient, serverVars, history>>

-----------------------------------------------------------------------------

CallStep(c) ==
    \/ Refused(c) \/ Lock(c) \/ Write(c) \/ WriteFails(c)
    \/ Read(c) \/ ReadFails(c) \/ ReadExpires(c) \/ ReadPush(c) \/ MoreOrDone(c)
    \/ CloseMarks(c) \/ CloseHangsUp(c) \/ CloseAgain(c)

HandlerStep == ServePublish \/ ServeList \/ ServeSubscribe \/ Push

Next ==
    \/ \E c \in Callers : CallStep(c) \/ \E r \in Requests : Call(c, r)
    \/ HandlerStep \/ ServerEnds
    \/ \E m \in Foreign : PublishElsewhere(m)

Spec == Init /\ [][Next]_vars

\* Goroutines of the client that can run do run; the server may do nothing.
ClientFairness == \A c \in Callers : WF_vars(CallStep(c))

\* The server serves as well.
FairSpec == Spec /\ ClientFairness /\ WF_vars(HandlerStep)
SilentServerSpec == Spec /\ ClientFairness

=============================================================================

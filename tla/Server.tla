------------------------------- MODULE Server -------------------------------
(***************************************************************************)
(* The TCP server of network/server.go: the goroutine of Serve, one        *)
(* handler per connection, one peer monitor per subscribed connection, and *)
(* callers of Close.  They meet in Server.mu, in the connections' sockets, *)
(* in contexts, and in the subscriptions of the broker.                    *)
(*                                                                         *)
(* The model follows lifetimes: which goroutine runs, which connection is  *)
(* registered, open, subscribed.  What requests do in the broker is in     *)
(* Broker.tla, what frames carry in Client.tla.  Server.mu is only held    *)
(* for short sections, each one step here.                                 *)
(***************************************************************************)
EXTENDS Integers, Sequences, FiniteSets

CONSTANTS
    Conns,          \* connections that peers open
    Closers,        \* goroutines that call Server.Close
    MaxConns,       \* WithMaxConns; NewServer has made it at least 0
    Configurations, \* the time-outs that may be configured, of "read" and "write"
    MaxInbox,       \* bound: frames a peer has sent and nobody has read
    None

ASSUME ServerAssumption ==
    /\ MaxConns \in Nat /\ MaxInbox \in Nat
    /\ Configurations \subseteq SUBSET {"read", "write"}
    /\ None \notin Conns /\ None \notin Closers

VARIABLES
    \* Server and its callers
    serve,      \* where Serve stands: accept, register, refuse, ended
    held,       \* the connection that Serve has just accepted, or None
    closed,     \* Server.closed
    conns,      \* keys of Server.conns
    running,    \* connections whose handler the WaitGroup counts
    closer,     \* the caller that runs the body of closeOnce, or None
    toClose,    \* connections that it has still to hang up
    closeDone,  \* the channel closeDone is closed
    kpc,        \* kpc[k]: where the call of Close by k stands
    \* connections
    timeouts,   \* the options WithReadTimeout, WithWriteTimeout: never changed
    peer,       \* peer[c]: new, connected, stalled (reads nothing), gone
    inbox,      \* inbox[c]: frames sent and not read yet
    hungUp,     \* hungUp[c]: the server has closed the socket
    deadline,   \* deadline[c]: a read deadline is set on the socket
    ctx,        \* ctx[c]: the connection's context is cancelled
    \* handlers
    hpc,        \* hpc[c]: where handleConn stands
    mpc,        \* mpc[c]: none, reading, done
    subCtx,     \* subCtx[c]: the subscription's context is cancelled
    \* the broker, as far as the server can tell
    sub,        \* sub[c]: none, live (in Partition.subs), closed
    behind,     \* behind[c]: there are messages to push
    brokerOpen

serverVars == <<serve, held, closed, conns, running>>
closeVars == <<closer, toClose, closeDone, kpc>>
socketVars == <<timeouts, peer, inbox, hungUp, deadline>>
handlerVars == <<ctx, hpc, mpc, subCtx>>
brokerVars == <<sub, behind, brokerOpen>>
vars == <<serverVars, closeVars, socketVars, handlerVars, brokerVars>>

ReadTimeout == "read" \in timeouts
WriteTimeout == "write" \in timeouts

\* What a peer may send: a request that is answered, one that is not
\* (OpPublishNoAck, unknown opcodes), a subscription, a frame whose header
\* announces too much, something that is no frame.
Frames == {"request", "silent", "subscribe", "toolarge", "malformed"}

Init ==
    /\ serve = "accept"
    /\ held = None
    /\ closed = FALSE
    /\ conns = {}
    /\ running = {}
    /\ closer = None
    /\ toClose = {}
    /\ closeDone = FALSE
    /\ kpc = [k \in Closers |-> "idle"]
    /\ timeouts \in Configurations
    /\ peer = [c \in Conns |-> "new"]
    /\ inbox = [c \in Conns |-> <<>>]
    /\ hungUp = [c \in Conns |-> FALSE]
    /\ deadline = [c \in Conns |-> FALSE]
    /\ ctx = [c \in Conns |-> FALSE]
    /\ hpc = [c \in Conns |-> "none"]
    /\ mpc = [c \in Conns |-> "none"]
    /\ subCtx = [c \in Conns |-> FALSE]
    /\ sub = [c \in Conns |-> "none"]
    /\ behind = [c \in Conns |-> FALSE]
    /\ brokerOpen = TRUE

-----------------------------------------------------------------------------
\* Pieces, each after what a slip would make of it

\* The checks of Serve.
TakesAlways == TRUE
TakesConns == ~closed

FullOneLate == MaxConns > 0 /\ Cardinality(conns) > MaxConns
Full == MaxConns > 0 /\ Cardinality(conns) >= MaxConns

\* What Serve registers.
RegisterHeld == conns' = conns \union {held}

\* Close cancels and hangs up.
CancelOnly(c) ==
    ctx' = [ctx EXCEPT ![c] = TRUE] /\ UNCHANGED hungUp
HangUp(c) ==
    ctx' = [ctx EXCEPT ![c] = TRUE] /\ hungUp' = [hungUp EXCEPT ![c] = TRUE]

\* What a second Close waits for.
WaitsFor == closeDone

\* The handler has waited long enough for its monitor.
JoinsNobody(c) == TRUE
Joined(c) == mpc[c] = "done"

\* What a subscription does to the read deadline.
DeadlineKept(c) == UNCHANGED deadline
ClearDeadline(c) == deadline' = [deadline EXCEPT ![c] = FALSE]

\* removeConn.
ForgetsToRemove(c) == UNCHANGED conns
RemoveConn(c) == conns' = conns \ {c}

\* A write that the peer does not take fails at its deadline.
NeverExpires == FALSE
WriteExpires == WriteTimeout

Goto(c, where) == hpc' = [hpc EXCEPT ![c] = where]

\* A write reaches the peer, or fails.
CanWrite(c) == ~hungUp[c] /\ peer[c] # "stalled"
CannotWrite(c) ==
    hungUp[c] \/ peer[c] = "gone" \/ (peer[c] = "stalled" /\ WriteExpires)

-----------------------------------------------------------------------------
\* Peers, and publishers elsewhere

Dial(c) ==
    /\ peer[c] = "new"
    /\ peer' = [peer EXCEPT ![c] = "connected"]
    /\ UNCHANGED <<serverVars, closeVars, inbox, hungUp, deadline, timeouts, handlerVars,
                   brokerVars>>

\* What arrives at a socket that the server has closed is not read any more.
SendFrame(c, f) ==
    /\ peer[c] \in {"connected", "stalled"}
    /\ ~hungUp[c]
    /\ Len(inbox[c]) < MaxInbox
    /\ inbox' = [inbox EXCEPT ![c] = Append(@, f)]
    /\ UNCHANGED <<serverVars, closeVars, peer, hungUp, deadline, timeouts, handlerVars,
                   brokerVars>>

Stall(c) ==
    /\ peer[c] = "connected"
    /\ peer' = [peer EXCEPT ![c] = "stalled"]
    /\ UNCHANGED <<serverVars, closeVars, inbox, hungUp, deadline, timeouts, handlerVars,
                   brokerVars>>

Leave(c) ==
    /\ peer[c] \in {"connected", "stalled"}
    /\ peer' = [peer EXCEPT ![c] = "gone"]
    /\ UNCHANGED <<serverVars, closeVars, inbox, hungUp, deadline, timeouts, handlerVars,
                   brokerVars>>

PublishElsewhere(c) ==
    /\ sub[c] = "live"
    /\ ~behind[c]
    /\ behind' = [behind EXCEPT ![c] = TRUE]
    /\ UNCHANGED <<serverVars, closeVars, socketVars, handlerVars, sub, brokerOpen>>

CloseBroker ==
    /\ brokerOpen
    /\ brokerOpen' = FALSE
    /\ sub' = [c \in Conns |-> IF sub[c] = "live" THEN "closed" ELSE sub[c]]
    /\ UNCHANGED <<serverVars, closeVars, socketVars, handlerVars, behind>>

-----------------------------------------------------------------------------
\* Serve

Accept(c) ==
    /\ serve = "accept"
    /\ peer[c] # "new"
    /\ hpc[c] = "none"
    /\ ~hungUp[c]
    /\ held' = c
    /\ serve' = "register"
    /\ UNCHANGED <<closed, conns, running, closeVars, socketVars, handlerVars,
                   brokerVars>>

\* The owner of the listener has closed it.
AcceptFails ==
    /\ serve = "accept"
    /\ serve' = "ended"
    /\ UNCHANGED <<held, closed, conns, running, closeVars, socketVars,
                   handlerVars, brokerVars>>

\* Registration and start of the handler in one critical section.
Register ==
    /\ serve = "register"
    /\ TakesConns /\ ~Full
    /\ RegisterHeld
    /\ running' = running \union {held}
    /\ Goto(held, "read")
    /\ deadline' = [deadline EXCEPT ![held] = ReadTimeout]
    /\ serve' = "accept"
    /\ held' = None
    /\ UNCHANGED <<closed, closeVars, peer, inbox, hungUp, timeouts, ctx, mpc, subCtx,
                   brokerVars>>

\* A closed server hangs up, and Serve returns.
RegisterClosed ==
    /\ serve = "register"
    /\ ~TakesConns
    /\ hungUp' = [hungUp EXCEPT ![held] = TRUE]
    /\ ctx' = [ctx EXCEPT ![held] = TRUE]
    /\ serve' = "ended"
    /\ held' = None
    /\ UNCHANGED <<closed, conns, running, closeVars, peer, inbox, deadline, timeouts, hpc,
                   mpc, subCtx, brokerVars>>

\* A full server says so after it has released the lock, and hangs up.
RegisterFull ==
    /\ serve = "register"
    /\ TakesConns /\ Full
    /\ serve' = "refuse"
    /\ UNCHANGED <<held, closed, conns, running, closeVars, socketVars,
                   handlerVars, brokerVars>>

Refuse ==
    /\ serve = "refuse"
    /\ hungUp' = [hungUp EXCEPT ![held] = TRUE]
    /\ ctx' = [ctx EXCEPT ![held] = TRUE]
    /\ serve' = "accept"
    /\ held' = None
    /\ UNCHANGED <<closed, conns, running, closeVars, peer, inbox, deadline, timeouts, hpc,
                   mpc, subCtx, brokerVars>>

-----------------------------------------------------------------------------
\* handleConn

\* ReadFrame brings a frame.  One that the handler had read ahead still comes
\* out of its buffer after the socket is closed.
ReadFrame(c) ==
    /\ hpc[c] = "read"
    /\ inbox[c] # <<>>
    /\ LET f == Head(inbox[c])
       IN  \/ f = "request" /\ Goto(c, "respond")
           \/ f = "silent" /\ Goto(c, "read")
           \/ f = "subscribe" /\ Goto(c, "subscribe")
           \/ f = "toolarge" /\ Goto(c, "lastword")
           \/ f = "malformed" /\ Goto(c, "remove")
    /\ inbox' = [inbox EXCEPT ![c] = Tail(@)]
    /\ UNCHANGED <<serverVars, closeVars, peer, hungUp, deadline, timeouts, ctx, mpc,
                   subCtx, brokerVars>>

\* armRead or ReadFrame fails: hung up, peer gone, or the deadline has passed.
ReadFails(c) ==
    /\ hpc[c] = "read"
    /\ hungUp[c] \/ peer[c] = "gone" \/ deadline[c]
    /\ Goto(c, "remove")
    /\ UNCHANGED <<serverVars, closeVars, socketVars, ctx, mpc, subCtx, brokerVars>>

\* respond: the answer is out and the next frame is read with a new deadline.
Respond(c) ==
    /\ hpc[c] = "respond"
    /\ CanWrite(c)
    /\ Goto(c, "read")
    /\ deadline' = [deadline EXCEPT ![c] = ReadTimeout]
    /\ UNCHANGED <<serverVars, closeVars, peer, inbox, hungUp, timeouts, ctx, mpc, subCtx,
                   brokerVars>>

RespondFails(c) ==
    /\ hpc[c] = "respond"
    /\ CannotWrite(c)
    /\ Goto(c, "remove")
    /\ UNCHANGED <<serverVars, closeVars, socketVars, ctx, mpc, subCtx, brokerVars>>

\* The answer to an oversized frame; the connection ends either way.
LastWord(c) ==
    /\ hpc[c] = "lastword"
    /\ CanWrite(c) \/ CannotWrite(c)
    /\ Goto(c, "remove")
    /\ UNCHANGED <<serverVars, closeVars, socketVars, ctx, mpc, subCtx, brokerVars>>

\* Broker.Subscribe fails: no such topic, or the broker is closed.
SubscribeFails(c) ==
    /\ hpc[c] = "subscribe"
    /\ Goto(c, "respond")
    /\ UNCHANGED <<serverVars, closeVars, socketVars, ctx, mpc, subCtx, brokerVars>>

\* Broker.Subscribe succeeds.  History makes the subscriber behind at once, or not.
Subscribe(c) ==
    /\ hpc[c] = "subscribe"
    /\ brokerOpen
    /\ sub' = [sub EXCEPT ![c] = "live"]
    /\ \E b \in BOOLEAN : behind' = [behind EXCEPT ![c] = b]
    /\ Goto(c, "detach")
    /\ UNCHANGED <<serverVars, closeVars, socketVars, ctx, mpc, subCtx, brokerOpen>>

\* The read deadline goes, the subscription gets a context of its own, and the
\* monitor starts.  It reads from the socket, not from the handler's buffer:
\* what the peer sent so far may be in either.
StartMonitor(c) ==
    /\ hpc[c] = "detach"
    /\ ClearDeadline(c)
    /\ \/ inbox' = [inbox EXCEPT ![c] = <<>>]
       \/ UNCHANGED inbox
    /\ mpc' = [mpc EXCEPT ![c] = "reading"]
    /\ Goto(c, "confirm")
    /\ UNCHANGED <<serverVars, closeVars, peer, hungUp, timeouts, ctx, subCtx, brokerVars>>

\* The answer to the subscription, and the start of the push stream.
Confirm(c) ==
    /\ hpc[c] = "confirm"
    /\ CanWrite(c)
    /\ Goto(c, "stream")
    /\ UNCHANGED <<serverVars, closeVars, socketVars, ctx, mpc, subCtx, brokerVars>>

\* Subscription.Read of the broker brings messages.
StreamRead(c) ==
    /\ hpc[c] = "stream"
    /\ sub[c] = "live"
    /\ behind[c]
    /\ behind' = [behind EXCEPT ![c] = FALSE]
    /\ Goto(c, "push")
    /\ UNCHANGED <<serverVars, closeVars, socketVars, ctx, mpc, subCtx, sub, brokerOpen>>

\* It ends: the subscription is closed, or its context, a child of the
\* connection's, is cancelled.
StreamEnds(c) ==
    /\ hpc[c] = "stream"
    /\ sub[c] = "closed" \/ subCtx[c] \/ ctx[c]
    /\ Goto(c, "hangup")
    /\ UNCHANGED <<serverVars, closeVars, socketVars, ctx, mpc, subCtx, brokerVars>>

Push(c) ==
    /\ hpc[c] = "push"
    /\ CanWrite(c)
    /\ Goto(c, "stream")
    /\ UNCHANGED <<serverVars, closeVars, socketVars, ctx, mpc, subCtx, brokerVars>>

\* A write of the push phase fails: the answer, or a batch.
PushFails(c) ==
    /\ hpc[c] \in {"confirm", "push"}
    /\ CannotWrite(c)
    /\ Goto(c, "hangup")
    /\ UNCHANGED <<serverVars, closeVars, socketVars, ctx, mpc, subCtx, brokerVars>>

\* A batch has a message that is too long for a frame: the peer is told so, and
\* the stream ends either way.  Push.RefuseBatch says when.
PushRefused(c) ==
    /\ hpc[c] = "push"
    /\ CanWrite(c) \/ CannotWrite(c)
    /\ Goto(c, "hangup")
    /\ UNCHANGED <<serverVars, closeVars, socketVars, ctx, mpc, subCtx, brokerVars>>

\* The deferred calls, last one first: hang up, join the monitor, close the
\* subscription, cancel its context; then, of every handler, removeConn and
\* close.
DeferHangUp(c) ==
    /\ hpc[c] = "hangup"
    /\ hungUp' = [hungUp EXCEPT ![c] = TRUE]
    /\ Goto(c, "join")
    /\ UNCHANGED <<serverVars, closeVars, peer, inbox, deadline, timeouts, ctx, mpc, subCtx,
                   brokerVars>>

DeferJoin(c) ==
    /\ hpc[c] = "join"
    /\ Joined(c)
    /\ Goto(c, "unsubscribe")
    /\ UNCHANGED <<serverVars, closeVars, socketVars, ctx, mpc, subCtx, brokerVars>>

DeferUnsubscribe(c) ==
    /\ hpc[c] = "unsubscribe"
    /\ sub' = [sub EXCEPT ![c] = "closed"]
    /\ subCtx' = [subCtx EXCEPT ![c] = TRUE]
    /\ Goto(c, "remove")
    /\ UNCHANGED <<serverVars, closeVars, socketVars, ctx, mpc, behind, brokerOpen>>

DeferRemove(c) ==
    /\ hpc[c] = "remove"
    /\ RemoveConn(c)
    /\ ctx' = [ctx EXCEPT ![c] = TRUE]
    /\ Goto(c, "close")
    /\ UNCHANGED <<serve, held, closed, running, closeVars, socketVars, mpc, subCtx,
                   brokerVars>>

DeferClose(c) ==
    /\ hpc[c] = "close"
    /\ hungUp' = [hungUp EXCEPT ![c] = TRUE]
    /\ running' = running \ {c}
    /\ Goto(c, "done")
    /\ UNCHANGED <<serve, held, closed, conns, closeVars, peer, inbox, deadline, timeouts,
                   ctx, mpc, subCtx, brokerVars>>

\* The monitor's read returns: data, the end of the stream, an error.
MonitorEnds(c) ==
    /\ mpc[c] = "reading"
    /\ inbox[c] # <<>> \/ peer[c] = "gone" \/ hungUp[c] \/ deadline[c]
    /\ mpc' = [mpc EXCEPT ![c] = "done"]
    /\ subCtx' = [subCtx EXCEPT ![c] = TRUE]
    /\ UNCHANGED <<serverVars, closeVars, socketVars, ctx, hpc, brokerVars>>

-----------------------------------------------------------------------------
\* Close

\* The first caller runs the body of closeOnce, the others wait.
CallClose(k) ==
    /\ kpc[k] = "idle"
    /\ IF closer = None
       THEN /\ closer' = k
            /\ closed' = TRUE
            /\ toClose' = conns
            /\ kpc' = [kpc EXCEPT ![k] = "hangup"]
       ELSE /\ kpc' = [kpc EXCEPT ![k] = "wait"]
            /\ UNCHANGED <<closer, closed, toClose>>
    /\ UNCHANGED <<serve, held, conns, running, closeDone, socketVars, handlerVars,
                   brokerVars>>

CloseHangUp(k, c) ==
    /\ kpc[k] = "hangup"
    /\ c \in toClose
    /\ HangUp(c)
    /\ toClose' = toClose \ {c}
    /\ UNCHANGED <<serverVars, closer, closeDone, kpc, peer, inbox, deadline, timeouts, hpc,
                   mpc, subCtx, brokerVars>>

\* wg.Wait, close(closeDone).
CloseEnds(k) ==
    /\ kpc[k] = "hangup"
    /\ toClose = {}
    /\ running = {}
    /\ closeDone' = TRUE
    /\ kpc' = [kpc EXCEPT ![k] = "returned"]
    /\ UNCHANGED <<serverVars, closer, toClose, socketVars, handlerVars, brokerVars>>

CloseWaits(k) ==
    /\ kpc[k] = "wait"
    /\ WaitsFor
    /\ kpc' = [kpc EXCEPT ![k] = "returned"]
    /\ UNCHANGED <<serverVars, closer, toClose, closeDone, socketVars, handlerVars,
                   brokerVars>>

-----------------------------------------------------------------------------

ServeStep ==
    Register \/ RegisterClosed \/ RegisterFull \/ Refuse \/ \E c \in Conns : Accept(c)

HandlerStep(c) ==
    \/ ReadFrame(c) \/ ReadFails(c) \/ Respond(c) \/ RespondFails(c) \/ LastWord(c)
    \/ SubscribeFails(c) \/ Subscribe(c) \/ StartMonitor(c) \/ Confirm(c)
    \/ StreamRead(c) \/ StreamEnds(c) \/ Push(c) \/ PushFails(c) \/ PushRefused(c)
    \/ DeferHangUp(c) \/ DeferJoin(c) \/ DeferUnsubscribe(c) \/ DeferRemove(c)
    \/ DeferClose(c)

CloseStep(k) == CloseEnds(k) \/ CloseWaits(k) \/ \E c \in Conns : CloseHangUp(k, c)

PeerStep(c) ==
    Dial(c) \/ Stall(c) \/ Leave(c) \/ \E f \in Frames : SendFrame(c, f)

Next ==
    \/ \E c \in Conns :
          PeerStep(c) \/ HandlerStep(c) \/ MonitorEnds(c) \/ PublishElsewhere(c)
    \/ ServeStep \/ AcceptFails \/ CloseBroker
    \/ \E k \in Closers : CallClose(k) \/ CloseStep(k)

Spec == Init /\ [][Next]_vars

\* Goroutines that can run do run; nothing is assumed of peers, of publishers
\* or of the callers of Close.  A socket whose peer is gone does not accept
\* writes for ever: the peer's kernel answers with a reset.
WriteToNobodyFails(c) ==
    peer[c] = "gone" /\ (RespondFails(c) \/ PushFails(c))

Fairness ==
    /\ WF_vars(ServeStep)
    /\ \A c \in Conns : /\ WF_vars(HandlerStep(c)) /\ WF_vars(MonitorEnds(c))
                        /\ SF_vars(WriteToNobodyFails(c))
    /\ \A k \in Closers : WF_vars(CloseStep(k))

FairSpec == Spec /\ Fairness

=============================================================================

--------------------------- MODULE ServerProofs ---------------------------
(***************************************************************************)
(* Proofs about Server.tla for any number of connections and callers of    *)
(* Close, any limit, and any combination of time-outs.                     *)
(***************************************************************************)
EXTENDS ServerProps, FiniteSetTheorems, SequenceTheorems, TLAPS

-----------------------------------------------------------------------------
\* The inductive invariant

\* The connection that Serve holds is nobody else's yet.
HeldInv ==
    serve \in {"register", "refuse"} => held \in Conns /\ hpc[held] = "none"

\* The WaitGroup counts the handlers that have not returned.
RunningInv == running = { c \in Conns : hpc[c] \notin {"none", "done"} }

\* Monitor, subscription and socket keep step with the handler: the monitor
\* reads from the detached phase until it is joined, and without a deadline; a
\* subscription lives from Subscribe to its deferred Close.
HandlerInv ==
    \A c \in Conns :
        /\ mpc[c] = "reading" =>
              ~deadline[c] /\ hpc[c] \in {"confirm", "stream", "push", "hangup", "join"}
        /\ sub[c] = "live" =>
              hpc[c] \in {"detach", "confirm", "stream", "push", "hangup", "join",
                         "unsubscribe"}
        /\ hpc[c] = "done" => hungUp[c]

\* One caller runs the body of closeOnce; nobody returns before it is through,
\* and then no handler runs any more, nor will.
CloseInv ==
    /\ closed <=> closer # None
    /\ closeDone => closed /\ running = {}
    /\ \A k \in Closers : /\ kpc[k] # "idle" => closed
                          /\ kpc[k] = "returned" => closeDone

InductiveInv ==
    /\ TypeOK
    /\ IsFiniteSet(conns)
    /\ HeldInv
    /\ RunningInv
    /\ SlotsAreHandlers
    /\ HandlerInv
    /\ CloseInv

-----------------------------------------------------------------------------

\* The conjuncts of InductiveInv about which goroutine is where.  They hold
\* together: what the monitor may do hangs on where its handler is, and what a
\* returned Close promises on the handlers that the WaitGroup counts.
LivesInv ==
    /\ conns = { c \in Conns : hpc[c] \notin {"none", "close", "done"} }
    /\ HeldInv
    /\ RunningInv
    /\ HandlerInv
    /\ CloseInv

-----------------------------------------------------------------------------
\* The inductive invariant

\* The initial states satisfy InductiveInv.
LEMMA InitInv == Init => InductiveInv
<1> SUFFICES ASSUME Init PROVE InductiveInv
  OBVIOUS
<1> USE DEF Init
<1>1. TypeOK
  BY EmptySeq DEF TypeOK, HandlerStates
<1>2. IsFiniteSet(conns) /\ Cardinality(conns) = 0
  BY FS_EmptySet
<1>3. SlotsAreHandlers
  BY <1>2, ServerAssumption DEF SlotsAreHandlers
<1>4. HeldInv /\ RunningInv /\ HandlerInv /\ CloseInv
  BY DEF HeldInv, RunningInv, HandlerInv, CloseInv
<1>5. QED
  BY <1>1, <1>2, <1>3, <1>4 DEF InductiveInv

\* Every step gives every variable a value of its type.
LEMMA TypeInductive ==
    InductiveInv /\ [Next]_vars => TypeOK'
<1> SUFFICES ASSUME InductiveInv, [Next]_vars PROVE TypeOK'
  OBVIOUS
<1> USE DEF InductiveInv, TypeOK, HandlerStates, Goto, vars, serverVars,
       closeVars, socketVars, handlerVars, brokerVars
<1>1. ASSUME NEW c \in Conns, ReadFrame(c) PROVE TypeOK'
  <2>1. hpc' \in [Conns -> HandlerStates]
    <3>1. \E w \in {"respond", "read", "subscribe", "lastword", "remove"} : Goto(c, w)
      BY <1>1 DEF ReadFrame
    <3>2. QED
      BY <3>1
  <2>2. inbox[c] \in Seq(Frames) /\ inbox[c] # <<>>
    BY <1>1 DEF ReadFrame
  <2>3. Tail(inbox[c]) \in Seq(Frames)
    BY <2>2, HeadTailProperties
  <2>4. inbox' \in [Conns -> Seq(Frames)]
    BY <1>1, <2>3 DEF ReadFrame
  <2>5. UNCHANGED <<serverVars, closeVars, peer, hungUp, deadline, timeouts, ctx, mpc,
                    subCtx, brokerVars>>
    BY <1>1 DEF ReadFrame
  <2>6. QED
    BY <2>1, <2>4, <2>5
<1>2. ASSUME NEW c \in Conns, ReadFails(c) PROVE TypeOK'
  BY <1>2 DEF ReadFails
<1>3. ASSUME NEW c \in Conns, Respond(c) PROVE TypeOK'
  BY <1>3 DEF Respond, ReadTimeout
<1>4. ASSUME NEW c \in Conns, RespondFails(c) PROVE TypeOK'
  BY <1>4 DEF RespondFails
<1>5. ASSUME NEW c \in Conns, LastWord(c) PROVE TypeOK'
  BY <1>5 DEF LastWord
<1>6. ASSUME NEW c \in Conns, SubscribeFails(c) PROVE TypeOK'
  BY <1>6 DEF SubscribeFails
<1>7. ASSUME NEW c \in Conns, Subscribe(c) PROVE TypeOK'
  BY <1>7 DEF Subscribe
<1>8. ASSUME NEW c \in Conns, StartMonitor(c) PROVE TypeOK'
  <2>1. inbox' \in [Conns -> Seq(Frames)]
    BY <1>8, EmptySeq, ZenonT(30) DEF StartMonitor
  <2>2. /\ deadline' \in [Conns -> BOOLEAN]
        /\ mpc' \in [Conns -> {"none", "reading", "done"}]
        /\ hpc' \in [Conns -> HandlerStates]
    BY <1>8 DEF StartMonitor, ClearDeadline
  <2>3. UNCHANGED <<serverVars, closeVars, peer, hungUp, timeouts, ctx, subCtx, brokerVars>>
    BY <1>8 DEF StartMonitor
  <2>4. QED
    BY <2>1, <2>2, <2>3
<1>9. ASSUME NEW c \in Conns, Confirm(c) PROVE TypeOK'
  BY <1>9 DEF Confirm
<1>10. ASSUME NEW c \in Conns, StreamRead(c) PROVE TypeOK'
  BY <1>10 DEF StreamRead
<1>11. ASSUME NEW c \in Conns, StreamEnds(c) PROVE TypeOK'
  BY <1>11 DEF StreamEnds
<1>12. ASSUME NEW c \in Conns, Push(c) PROVE TypeOK'
  BY <1>12 DEF Push
<1>13. ASSUME NEW c \in Conns, PushFails(c) PROVE TypeOK'
  BY <1>13 DEF PushFails
<1>13a. ASSUME NEW c \in Conns, PushRefused(c) PROVE TypeOK'
  BY <1>13a DEF PushRefused
<1>14. ASSUME NEW c \in Conns, DeferHangUp(c) PROVE TypeOK'
  BY <1>14 DEF DeferHangUp
<1>15. ASSUME NEW c \in Conns, DeferJoin(c) PROVE TypeOK'
  BY <1>15 DEF DeferJoin, Joined
<1>16. ASSUME NEW c \in Conns, DeferUnsubscribe(c) PROVE TypeOK'
  BY <1>16 DEF DeferUnsubscribe
<1>17. ASSUME NEW c \in Conns, DeferRemove(c) PROVE TypeOK'
  BY <1>17 DEF DeferRemove, RemoveConn
<1>18. ASSUME NEW c \in Conns, DeferClose(c) PROVE TypeOK'
  BY <1>18 DEF DeferClose
<1>19. ASSUME NEW c \in Conns, MonitorEnds(c) PROVE TypeOK'
  BY <1>19 DEF MonitorEnds
<1>20. ASSUME NEW c \in Conns, PeerStep(c) PROVE TypeOK'
  <2>1. CASE Dial(c) \/ Stall(c) \/ Leave(c)
    <3>1. peer' \in [Conns -> {"new", "connected", "stalled", "gone"}]
      <4>1. \E v \in {"connected", "stalled", "gone"} : peer' = [peer EXCEPT ![c] = v]
        BY <2>1, Zenon DEF Dial, Stall, Leave
      <4>2. QED
        BY <4>1
    <3>2. UNCHANGED <<serverVars, closeVars, inbox, hungUp, deadline, timeouts, handlerVars,
                      brokerVars>>
      BY <2>1 DEF Dial, Stall, Leave
    <3>3. QED
      BY <3>1, <3>2
  <2>2. ASSUME NEW f \in Frames, SendFrame(c, f) PROVE TypeOK'
    <3>1. Append(inbox[c], f) \in Seq(Frames)
      BY AppendProperties
    <3>2. inbox' \in [Conns -> Seq(Frames)]
      BY <2>2, <3>1 DEF SendFrame
    <3>3. UNCHANGED <<serverVars, closeVars, peer, hungUp, deadline, timeouts, handlerVars,
                      brokerVars>>
      BY <2>2 DEF SendFrame
    <3>4. QED
      BY <3>2, <3>3
  <2>3. QED
    BY <1>20, <2>1, <2>2 DEF PeerStep
<1>21. ASSUME NEW c \in Conns, PublishElsewhere(c) PROVE TypeOK'
  BY <1>21 DEF PublishElsewhere
<1>22. ASSUME NEW c \in Conns, Accept(c) PROVE TypeOK'
  BY <1>22 DEF Accept
<1>23. CASE Register
  <2>1. held \in Conns
    BY <1>23 DEF Register, HeldInv
  <2>2. QED
    BY <1>23, <2>1 DEF Register, RegisterHeld, ReadTimeout
<1>24. CASE RegisterClosed
  BY <1>24 DEF RegisterClosed, TakesConns
<1>25. CASE RegisterFull
  BY <1>25 DEF RegisterFull
<1>26. CASE Refuse
  BY <1>26 DEF Refuse
<1>27. CASE AcceptFails
  BY <1>27 DEF AcceptFails
<1>28. CASE CloseBroker
  BY <1>28 DEF CloseBroker
<1>29. ASSUME NEW k \in Closers, CallClose(k) PROVE TypeOK'
  BY <1>29 DEF CallClose
<1>30. ASSUME NEW k \in Closers, CloseEnds(k) PROVE TypeOK'
  BY <1>30 DEF CloseEnds
<1>31. ASSUME NEW k \in Closers, CloseWaits(k) PROVE TypeOK'
  BY <1>31 DEF CloseWaits, WaitsFor
<1>32. ASSUME NEW k \in Closers, NEW c \in Conns, CloseHangUp(k, c) PROVE TypeOK'
  BY <1>32 DEF CloseHangUp, HangUp
<1>33. CASE UNCHANGED vars
  BY <1>33
<1>34. QED
  BY <1>1, <1>2, <1>3, <1>4, <1>5, <1>6, <1>7, <1>8, <1>9, <1>10, <1>11,
     <1>12, <1>13, <1>13a, <1>14, <1>15, <1>16, <1>17, <1>18, <1>19, <1>20, <1>21,
     <1>22, <1>23, <1>24, <1>25, <1>26, <1>27, <1>28, <1>29, <1>30, <1>31,
     <1>32, <1>33 DEF Next, ServeStep, HandlerStep, CloseStep

\* Every step keeps the goroutines in step with one another.
LEMMA LivesInductive ==
    InductiveInv /\ [Next]_vars => LivesInv'
<1> SUFFICES ASSUME InductiveInv, [Next]_vars PROVE LivesInv'
  OBVIOUS
<1> USE DEF InductiveInv, TypeOK, SlotsAreHandlers, LivesInv, HeldInv,
       RunningInv, HandlerInv, CloseInv, Goto, vars, serverVars, closeVars,
       socketVars, handlerVars, brokerVars
<1>1. ASSUME NEW c \in Conns, ReadFrame(c) PROVE LivesInv'
  <2>1. \E w \in {"respond", "read", "subscribe", "lastword", "remove"} : Goto(c, w)
    BY <1>1 DEF ReadFrame
  <2>2. hpc[c] = "read"
    BY <1>1 DEF ReadFrame
  <2>3. UNCHANGED <<serverVars, closeVars, hungUp, deadline, mpc, brokerVars>>
    BY <1>1 DEF ReadFrame
  <2>4. QED
    BY <2>1, <2>2, <2>3
<1>2. ASSUME NEW c \in Conns, ReadFails(c) PROVE LivesInv'
  BY <1>2 DEF ReadFails
<1>3. ASSUME NEW c \in Conns, Respond(c) PROVE LivesInv'
  BY <1>3 DEF Respond, ReadTimeout
<1>4. ASSUME NEW c \in Conns, RespondFails(c) PROVE LivesInv'
  BY <1>4 DEF RespondFails
<1>5. ASSUME NEW c \in Conns, LastWord(c) PROVE LivesInv'
  BY <1>5 DEF LastWord
<1>6. ASSUME NEW c \in Conns, SubscribeFails(c) PROVE LivesInv'
  BY <1>6 DEF SubscribeFails
<1>7. ASSUME NEW c \in Conns, Subscribe(c) PROVE LivesInv'
  BY <1>7 DEF Subscribe
<1>8. ASSUME NEW c \in Conns, StartMonitor(c) PROVE LivesInv'
  BY <1>8 DEF StartMonitor, ClearDeadline
<1>9. ASSUME NEW c \in Conns, Confirm(c) PROVE LivesInv'
  BY <1>9 DEF Confirm
<1>10. ASSUME NEW c \in Conns, StreamRead(c) PROVE LivesInv'
  BY <1>10 DEF StreamRead
<1>11. ASSUME NEW c \in Conns, StreamEnds(c) PROVE LivesInv'
  BY <1>11 DEF StreamEnds
<1>12. ASSUME NEW c \in Conns, Push(c) PROVE LivesInv'
  BY <1>12 DEF Push
<1>13. ASSUME NEW c \in Conns, PushFails(c) PROVE LivesInv'
  BY <1>13 DEF PushFails
<1>13a. ASSUME NEW c \in Conns, PushRefused(c) PROVE LivesInv'
  BY <1>13a DEF PushRefused
<1>14. ASSUME NEW c \in Conns, DeferHangUp(c) PROVE LivesInv'
  BY <1>14 DEF DeferHangUp
<1>15. ASSUME NEW c \in Conns, DeferJoin(c) PROVE LivesInv'
  BY <1>15 DEF DeferJoin, Joined
<1>16. ASSUME NEW c \in Conns, DeferUnsubscribe(c) PROVE LivesInv'
  BY <1>16 DEF DeferUnsubscribe
<1>17. ASSUME NEW c \in Conns, DeferRemove(c) PROVE LivesInv'
  BY <1>17, ZenonT(30) DEF DeferRemove, RemoveConn
<1>18. ASSUME NEW c \in Conns, DeferClose(c) PROVE LivesInv'
  <2>1. running' = { d \in Conns : hpc'[d] \notin {"none", "done"} }
    BY <1>18 DEF DeferClose
  <2>2. conns' = { d \in Conns : hpc'[d] \notin {"none", "close", "done"} }
    BY <1>18 DEF DeferClose
  <2>3. HeldInv' /\ HandlerInv' /\ CloseInv'
    BY <1>18 DEF DeferClose
  <2>4. QED
    BY <2>1, <2>2, <2>3
<1>19. ASSUME NEW c \in Conns, MonitorEnds(c) PROVE LivesInv'
  BY <1>19 DEF MonitorEnds
<1>20. ASSUME NEW c \in Conns, PeerStep(c) PROVE LivesInv'
  BY <1>20 DEF PeerStep, Dial, Stall, Leave, SendFrame
<1>21. ASSUME NEW c \in Conns, PublishElsewhere(c) PROVE LivesInv'
  BY <1>21 DEF PublishElsewhere
<1>22. ASSUME NEW c \in Conns, Accept(c) PROVE LivesInv'
  BY <1>22 DEF Accept
<1>23. CASE Register
  BY <1>23 DEF Register, RegisterHeld, TakesConns
<1>24. CASE RegisterClosed
  BY <1>24 DEF RegisterClosed, TakesConns
<1>25. CASE RegisterFull
  BY <1>25 DEF RegisterFull
<1>26. CASE Refuse
  BY <1>26 DEF Refuse
<1>27. CASE AcceptFails
  BY <1>27 DEF AcceptFails
<1>28. CASE CloseBroker
  BY <1>28 DEF CloseBroker
<1>29. ASSUME NEW k \in Closers, CallClose(k) PROVE LivesInv'
  BY <1>29, ServerAssumption DEF CallClose
<1>30. ASSUME NEW k \in Closers, CloseEnds(k) PROVE LivesInv'
  BY <1>30 DEF CloseEnds
<1>31. ASSUME NEW k \in Closers, CloseWaits(k) PROVE LivesInv'
  BY <1>31 DEF CloseWaits, WaitsFor
<1>32. ASSUME NEW k \in Closers, NEW c \in Conns, CloseHangUp(k, c) PROVE LivesInv'
  BY <1>32 DEF CloseHangUp, HangUp
<1>33. CASE UNCHANGED vars
  BY <1>33
<1>34. QED
  BY <1>1, <1>2, <1>3, <1>4, <1>5, <1>6, <1>7, <1>8, <1>9, <1>10, <1>11,
     <1>12, <1>13, <1>13a, <1>14, <1>15, <1>16, <1>17, <1>18, <1>19, <1>20, <1>21,
     <1>22, <1>23, <1>24, <1>25, <1>26, <1>27, <1>28, <1>29, <1>30, <1>31,
     <1>32, <1>33 DEF Next, ServeStep, HandlerStep, CloseStep

-----------------------------------------------------------------------------
\* The limit

\* The connections are finitely many and within the limit: Serve adds one only
\* below it, in the critical section in which it has looked.
LEMMA LimitInductive ==
    InductiveInv /\ [Next]_vars =>
        IsFiniteSet(conns') /\ (MaxConns > 0 => Cardinality(conns') <= MaxConns)
<1> SUFFICES ASSUME InductiveInv, [Next]_vars
             PROVE  IsFiniteSet(conns') /\ (MaxConns > 0 => Cardinality(conns') <= MaxConns)
  OBVIOUS
<1>1. /\ IsFiniteSet(conns) /\ Cardinality(conns) \in Nat /\ MaxConns \in Nat
      /\ MaxConns > 0 => Cardinality(conns) <= MaxConns
  BY FS_CardinalityType, ServerAssumption DEF InductiveInv, SlotsAreHandlers
<1>2. CASE Register
  <2>1. conns' = conns \union {held} /\ (MaxConns > 0 => ~(Cardinality(conns) >= MaxConns))
    BY <1>2 DEF Register, RegisterHeld, Full
  <2>2. /\ IsFiniteSet(conns \union {held})
        /\ Cardinality(conns \union {held}) =
              IF held \in conns THEN Cardinality(conns) ELSE Cardinality(conns) + 1
    BY <1>1, FS_AddElement
  <2>3. QED
    BY <1>1, <2>1, <2>2
<1>3. ASSUME NEW c \in Conns, DeferRemove(c)
      PROVE  IsFiniteSet(conns') /\ (MaxConns > 0 => Cardinality(conns') <= MaxConns)
  <2>1. conns' = conns \ {c}
    BY <1>3 DEF DeferRemove, RemoveConn
  <2>2. /\ IsFiniteSet(conns \ {c}) /\ Cardinality(conns \ {c}) \in Nat
        /\ Cardinality(conns \ {c}) <= Cardinality(conns)
    BY <1>1, FS_Subset, FS_CardinalityType
  <2>3. QED
    BY <1>1, <2>1, <2>2
<1>4. CASE ~Register /\ ~\E c \in Conns : DeferRemove(c)
  <2>1. conns' = conns
    BY <1>4 DEF Next, HandlerStep, PeerStep, ServeStep, CloseStep, vars, serverVars, closeVars,
       Dial, Stall, Leave, SendFrame, PublishElsewhere, CloseBroker, Accept, AcceptFails,
       RegisterClosed, RegisterFull, Refuse, ReadFrame, ReadFails, Respond, RespondFails,
       LastWord, SubscribeFails, Subscribe, StartMonitor, Confirm, StreamRead, StreamEnds, Push,
       PushFails, PushRefused, DeferHangUp, DeferJoin, DeferUnsubscribe, DeferClose, MonitorEnds,
       CallClose, CloseHangUp, CloseEnds, CloseWaits
  <2>2. QED
    BY <1>1, <2>1
<1>5. QED
  BY <1>2, <1>3, <1>4

-----------------------------------------------------------------------------
\* What follows from it

\* InductiveInv holds in every reachable state.
THEOREM Invariance == Spec => []InductiveInv
<1>1. InductiveInv /\ [Next]_vars => InductiveInv'
  BY TypeInductive, LivesInductive, LimitInductive
     DEF InductiveInv, LivesInv, SlotsAreHandlers
<1>2. QED
  BY InitInv, <1>1, PTL DEF Spec

\* Every variable has a value of its Go type.
THEOREM TypeCorrect == Spec => []TypeOK
<1>1. InductiveInv => TypeOK
  BY DEF InductiveInv
<1>2. QED
  BY Invariance, <1>1, PTL

\* A slot is taken exactly as long as a handler may still work, and there are
\* never more than the limit (Server.Serve, Server.removeConn).
THEOREM SlotsAreCounted == Spec => []SlotsAreHandlers
<1>1. InductiveInv => SlotsAreHandlers
  BY DEF InductiveInv
<1>2. QED
  BY Invariance, <1>1, PTL

\* A handler that is through has left no socket, monitor or subscription behind
\* (the deferred calls of Server.handleConn).
THEOREM NothingLeftBehind == Spec => []NoOrphans
<1>1. InductiveInv => NoOrphans
  BY DEF InductiveInv, HandlerInv, NoOrphans
<1>2. QED
  BY Invariance, <1>1, PTL

\* When a Close has returned, the server is at rest (Server.Close).
THEOREM RestAfterClose == Spec => []QuietAfterClose
<1>1. InductiveInv => QuietAfterClose
  <2> SUFFICES ASSUME InductiveInv, NEW k \in Closers, kpc[k] = "returned"
               PROVE  /\ conns = {} /\ running = {}
                      /\ \A c \in Conns :
                            /\ hpc[c] \in {"none", "done"} /\ mpc[c] # "reading"
                            /\ sub[c] # "live"
                            /\ hpc[c] = "done" => hungUp[c]
    BY DEF QuietAfterClose
  <2>1. running = {}
    BY DEF InductiveInv, CloseInv
  <2>2. \A c \in Conns : hpc[c] \in {"none", "done"}
    BY <2>1 DEF InductiveInv, RunningInv
  <2>3. conns = {}
    BY <2>2 DEF InductiveInv, SlotsAreHandlers
  <2>4. QED
    BY <2>1, <2>2, <2>3 DEF InductiveInv, HandlerInv
<1>2. QED
  BY Invariance, <1>1, PTL

\* A monitor ends because the peer sent something or left or the server hung up,
\* never because of the read deadline of the request phase (the monitor of
\* Server.handleConn).
THEOREM IdleStays == Spec => IdleSubscriberStays
<1>1. InductiveInv /\ [Next]_vars =>
        [\A c \in Conns :
            mpc[c] = "reading" /\ mpc'[c] = "done" =>
                inbox[c] # <<>> \/ peer[c] = "gone" \/ hungUp[c]]_vars
  <2> SUFFICES ASSUME InductiveInv, [Next]_vars,
                      NEW c \in Conns, mpc[c] = "reading", mpc'[c] = "done"
               PROVE  inbox[c] # <<>> \/ peer[c] = "gone" \/ hungUp[c]
    OBVIOUS
  <2>1. ~deadline[c]
    BY DEF InductiveInv, HandlerInv
  <2>2. ASSUME NEW d \in Conns, MonitorEnds(d)
        PROVE  inbox[c] # <<>> \/ peer[c] = "gone" \/ hungUp[c]
    <3>1. d = c
      BY <2>2 DEF MonitorEnds, InductiveInv, TypeOK
    <3>2. QED
      BY <2>1, <2>2, <3>1 DEF MonitorEnds
  <2>3. ASSUME NEW d \in Conns, StartMonitor(d) PROVE FALSE
    <3>1. mpc'[c] \in {mpc[c], "reading"}
      BY <2>3 DEF StartMonitor, InductiveInv, TypeOK
    <3>2. QED
      BY <3>1
  <2>4. CASE mpc' = mpc
    BY <2>4
  <2>5. (\E d \in Conns : MonitorEnds(d) \/ StartMonitor(d)) \/ mpc' = mpc
    BY DEF Next, HandlerStep, PeerStep, ServeStep, CloseStep, vars, serverVars, closeVars,
       handlerVars, Dial, Stall, Leave, SendFrame, PublishElsewhere, CloseBroker, Accept,
       AcceptFails, Register, RegisterClosed, RegisterFull, Refuse, ReadFrame, ReadFails,
       Respond, RespondFails, LastWord, SubscribeFails, Subscribe, Confirm, StreamRead,
       StreamEnds, Push, PushFails, PushRefused, DeferHangUp, DeferJoin, DeferUnsubscribe,
       DeferRemove, DeferClose, CallClose, CloseHangUp, CloseEnds, CloseWaits
  <2>6. QED
    BY <2>2, <2>3, <2>4, <2>5
<1>2. QED
  BY Invariance, <1>1, PTL DEF Spec, IdleSubscriberStays

-----------------------------------------------------------------------------
\* Close comes to its end

\* A connection that Close, or its own handler, has cancelled and hung up.
Told(c) == hungUp[c] /\ ctx[c]

\* A handler that has to come to its end.
Ending(c) == c \in running /\ (Told(c) \/ hpc[c] = "close")

\* Nobody escapes Close: what is registered when it begins, and Serve registers
\* nothing afterwards, is hung up or still to be hung up, by the one caller that
\* runs the body of closeOnce.
ToldInv ==
    /\ closer # None => \A c \in conns : c \in toClose \/ Told(c)
    /\ closer # None => kpc[closer] # "idle" /\ kpc[closer] # "wait"
    /\ \A k \in Closers : kpc[k] = "hangup" => k = closer

\* There is a monitor to be joined, and its socket has been closed before.
DetachedInv ==
    \A c \in Conns :
        /\ hpc[c] \in {"confirm", "stream", "push", "hangup", "join"} => mpc[c] # "none"
        /\ hpc[c] \in {"join", "unsubscribe"} => hungUp[c]

CountableInv == IsFiniteSet(running) /\ IsFiniteSet(toClose)

\* A handler can take a step that does not hang on what its peer does next.
HandlerGoesOn(c) ==
    \/ hpc[c] = "read" /\ hungUp[c]
    \/ hpc[c] \in {"respond", "lastword", "confirm", "push"} /\ CannotWrite(c)
    \/ hpc[c] = "stream" /\ ctx[c]
    \/ hpc[c] = "join" /\ Joined(c)
    \/ hpc[c] \in {"subscribe", "detach", "hangup", "unsubscribe", "remove", "close"}

\* So can its monitor.
MonitorGoesOn(c) == mpc[c] = "reading" /\ hungUp[c]

\* A caller of Close can go on.
CloserGoesOn(k) ==
    \/ kpc[k] = "hangup" /\ (toClose # {} \/ running = {})
    \/ kpc[k] = "wait" /\ closeDone

\* Once Close has begun, each handler it waits for is about to be hung up, or has
\* been and can go on or is waiting for a monitor that can; a caller that cannot
\* go on waits for such handlers, or for the caller that does.
CloseIsServed ==
    /\ closer # None =>
          \A c \in running :
              c \in toClose \/ (Ending(c) /\ (HandlerGoesOn(c) \/ MonitorGoesOn(c)))
    /\ \A k \in Closers :
          \/ kpc[k] \in {"idle", "returned"} \/ CloserGoesOn(k)
          \/ kpc[k] = "hangup" /\ running # {}
          \/ kpc[k] = "wait" /\ closer \in Closers /\ kpc[closer] = "hangup"

\* Close forgets no connection, and closeOnce has one caller.
LEMMA ToldInductive == InductiveInv /\ ToldInv /\ [Next]_vars => ToldInv'
<1> SUFFICES ASSUME InductiveInv, ToldInv, [Next]_vars PROVE ToldInv'
  OBVIOUS
<1> USE DEF InductiveInv, TypeOK, HeldInv, CloseInv, ToldInv, Told, Goto, vars, serverVars,
       closeVars, socketVars, handlerVars, brokerVars
<1>1. ASSUME NEW c \in Conns, ReadFrame(c) PROVE ToldInv'
  <2>1. \E w \in {"respond", "read", "subscribe", "lastword", "remove"} : Goto(c, w)
    BY <1>1 DEF ReadFrame
  <2>2. hpc[c] = "read"
    BY <1>1 DEF ReadFrame
  <2>3. UNCHANGED <<serverVars, closeVars, hungUp, deadline, ctx, mpc, brokerVars>>
    BY <1>1 DEF ReadFrame
  <2>4. QED
    BY <2>1, <2>2, <2>3
<1>2. ASSUME NEW c \in Conns, ReadFails(c) PROVE ToldInv'
  BY <1>2 DEF ReadFails
<1>3. ASSUME NEW c \in Conns, Respond(c) PROVE ToldInv'
  BY <1>3 DEF Respond, ReadTimeout
<1>4. ASSUME NEW c \in Conns, RespondFails(c) PROVE ToldInv'
  BY <1>4 DEF RespondFails
<1>5. ASSUME NEW c \in Conns, LastWord(c) PROVE ToldInv'
  BY <1>5 DEF LastWord
<1>6. ASSUME NEW c \in Conns, SubscribeFails(c) PROVE ToldInv'
  BY <1>6 DEF SubscribeFails
<1>7. ASSUME NEW c \in Conns, Subscribe(c) PROVE ToldInv'
  BY <1>7 DEF Subscribe
<1>8. ASSUME NEW c \in Conns, StartMonitor(c) PROVE ToldInv'
  BY <1>8 DEF StartMonitor, ClearDeadline
<1>9. ASSUME NEW c \in Conns, Confirm(c) PROVE ToldInv'
  BY <1>9 DEF Confirm
<1>10. ASSUME NEW c \in Conns, StreamRead(c) PROVE ToldInv'
  BY <1>10 DEF StreamRead
<1>11. ASSUME NEW c \in Conns, StreamEnds(c) PROVE ToldInv'
  BY <1>11 DEF StreamEnds
<1>12. ASSUME NEW c \in Conns, Push(c) PROVE ToldInv'
  BY <1>12 DEF Push
<1>13. ASSUME NEW c \in Conns, PushFails(c) PROVE ToldInv'
  BY <1>13 DEF PushFails
<1>13a. ASSUME NEW c \in Conns, PushRefused(c) PROVE ToldInv'
  BY <1>13a DEF PushRefused
<1>14. ASSUME NEW c \in Conns, DeferHangUp(c) PROVE ToldInv'
  BY <1>14 DEF DeferHangUp
<1>15. ASSUME NEW c \in Conns, DeferJoin(c) PROVE ToldInv'
  BY <1>15 DEF DeferJoin, Joined
<1>16. ASSUME NEW c \in Conns, DeferUnsubscribe(c) PROVE ToldInv'
  BY <1>16 DEF DeferUnsubscribe
<1>17. ASSUME NEW c \in Conns, DeferRemove(c) PROVE ToldInv'
  BY <1>17 DEF DeferRemove, RemoveConn
<1>18. ASSUME NEW c \in Conns, DeferClose(c) PROVE ToldInv'
  BY <1>18 DEF DeferClose
<1>19. ASSUME NEW c \in Conns, MonitorEnds(c) PROVE ToldInv'
  BY <1>19 DEF MonitorEnds
<1>20. ASSUME NEW c \in Conns, PeerStep(c) PROVE ToldInv'
  BY <1>20 DEF PeerStep, Dial, Stall, Leave, SendFrame
<1>21. ASSUME NEW c \in Conns, PublishElsewhere(c) PROVE ToldInv'
  BY <1>21 DEF PublishElsewhere
<1>22. ASSUME NEW c \in Conns, Accept(c) PROVE ToldInv'
  BY <1>22 DEF Accept
<1>23. CASE Register
  BY <1>23 DEF Register, RegisterHeld, TakesConns
<1>24. CASE RegisterClosed
  BY <1>24 DEF RegisterClosed, TakesConns
<1>25. CASE RegisterFull
  BY <1>25 DEF RegisterFull
<1>26. CASE Refuse
  BY <1>26 DEF Refuse
<1>27. CASE AcceptFails
  BY <1>27 DEF AcceptFails
<1>28. CASE CloseBroker
  BY <1>28 DEF CloseBroker
<1>29. ASSUME NEW k \in Closers, CallClose(k) PROVE ToldInv'
  BY <1>29, ServerAssumption DEF CallClose
<1>30. ASSUME NEW k \in Closers, CloseEnds(k) PROVE ToldInv'
  BY <1>30 DEF CloseEnds
<1>31. ASSUME NEW k \in Closers, CloseWaits(k) PROVE ToldInv'
  BY <1>31 DEF CloseWaits, WaitsFor
<1>32. ASSUME NEW k \in Closers, NEW c \in Conns, CloseHangUp(k, c) PROVE ToldInv'
  BY <1>32 DEF CloseHangUp, HangUp
<1>33. CASE UNCHANGED vars
  BY <1>33
<1>34. QED
  BY <1>1, <1>2, <1>3, <1>4, <1>5, <1>6, <1>7, <1>8, <1>9, <1>10, <1>11, <1>12,
     <1>13, <1>13a, <1>14, <1>15, <1>16, <1>17, <1>18, <1>19, <1>20, <1>21, <1>22, <1>23,
     <1>24, <1>25, <1>26, <1>27, <1>28, <1>29, <1>30, <1>31, <1>32, <1>33 DEF Next,
     ServeStep, HandlerStep, CloseStep

\* A handler that waits for its monitor has one, and has hung up.
LEMMA DetachedInductive == InductiveInv /\ DetachedInv /\ [Next]_vars => DetachedInv'
<1> SUFFICES ASSUME InductiveInv, DetachedInv, [Next]_vars PROVE DetachedInv'
  OBVIOUS
<1> USE DEF InductiveInv, TypeOK, HeldInv, DetachedInv, Goto, vars, serverVars,
       closeVars, socketVars, handlerVars, brokerVars
<1>1. ASSUME NEW c \in Conns, ReadFrame(c) PROVE DetachedInv'
  <2>1. \E w \in {"respond", "read", "subscribe", "lastword", "remove"} : Goto(c, w)
    BY <1>1 DEF ReadFrame
  <2>2. hpc[c] = "read"
    BY <1>1 DEF ReadFrame
  <2>3. UNCHANGED <<serverVars, closeVars, hungUp, deadline, ctx, mpc, brokerVars>>
    BY <1>1 DEF ReadFrame
  <2>4. QED
    BY <2>1, <2>2, <2>3
<1>2. ASSUME NEW c \in Conns, ReadFails(c) PROVE DetachedInv'
  BY <1>2 DEF ReadFails
<1>3. ASSUME NEW c \in Conns, Respond(c) PROVE DetachedInv'
  BY <1>3 DEF Respond, ReadTimeout
<1>4. ASSUME NEW c \in Conns, RespondFails(c) PROVE DetachedInv'
  BY <1>4 DEF RespondFails
<1>5. ASSUME NEW c \in Conns, LastWord(c) PROVE DetachedInv'
  BY <1>5 DEF LastWord
<1>6. ASSUME NEW c \in Conns, SubscribeFails(c) PROVE DetachedInv'
  BY <1>6 DEF SubscribeFails
<1>7. ASSUME NEW c \in Conns, Subscribe(c) PROVE DetachedInv'
  BY <1>7 DEF Subscribe
<1>8. ASSUME NEW c \in Conns, StartMonitor(c) PROVE DetachedInv'
  BY <1>8 DEF StartMonitor, ClearDeadline
<1>9. ASSUME NEW c \in Conns, Confirm(c) PROVE DetachedInv'
  BY <1>9 DEF Confirm
<1>10. ASSUME NEW c \in Conns, StreamRead(c) PROVE DetachedInv'
  BY <1>10 DEF StreamRead
<1>11. ASSUME NEW c \in Conns, StreamEnds(c) PROVE DetachedInv'
  BY <1>11 DEF StreamEnds
<1>12. ASSUME NEW c \in Conns, Push(c) PROVE DetachedInv'
  BY <1>12 DEF Push
<1>13. ASSUME NEW c \in Conns, PushFails(c) PROVE DetachedInv'
  BY <1>13 DEF PushFails
<1>13a. ASSUME NEW c \in Conns, PushRefused(c) PROVE DetachedInv'
  BY <1>13a DEF PushRefused
<1>14. ASSUME NEW c \in Conns, DeferHangUp(c) PROVE DetachedInv'
  BY <1>14 DEF DeferHangUp
<1>15. ASSUME NEW c \in Conns, DeferJoin(c) PROVE DetachedInv'
  BY <1>15 DEF DeferJoin, Joined
<1>16. ASSUME NEW c \in Conns, DeferUnsubscribe(c) PROVE DetachedInv'
  BY <1>16 DEF DeferUnsubscribe
<1>17. ASSUME NEW c \in Conns, DeferRemove(c) PROVE DetachedInv'
  BY <1>17 DEF DeferRemove, RemoveConn
<1>18. ASSUME NEW c \in Conns, DeferClose(c) PROVE DetachedInv'
  BY <1>18 DEF DeferClose
<1>19. ASSUME NEW c \in Conns, MonitorEnds(c) PROVE DetachedInv'
  BY <1>19 DEF MonitorEnds
<1>20. ASSUME NEW c \in Conns, PeerStep(c) PROVE DetachedInv'
  BY <1>20 DEF PeerStep, Dial, Stall, Leave, SendFrame
<1>21. ASSUME NEW c \in Conns, PublishElsewhere(c) PROVE DetachedInv'
  BY <1>21 DEF PublishElsewhere
<1>22. ASSUME NEW c \in Conns, Accept(c) PROVE DetachedInv'
  BY <1>22 DEF Accept
<1>23. CASE Register
  BY <1>23 DEF Register, RegisterHeld, TakesConns
<1>24. CASE RegisterClosed
  BY <1>24 DEF RegisterClosed, TakesConns
<1>25. CASE RegisterFull
  BY <1>25 DEF RegisterFull
<1>26. CASE Refuse
  BY <1>26 DEF Refuse
<1>27. CASE AcceptFails
  BY <1>27 DEF AcceptFails
<1>28. CASE CloseBroker
  BY <1>28 DEF CloseBroker
<1>29. ASSUME NEW k \in Closers, CallClose(k) PROVE DetachedInv'
  BY <1>29, ServerAssumption DEF CallClose
<1>30. ASSUME NEW k \in Closers, CloseEnds(k) PROVE DetachedInv'
  BY <1>30 DEF CloseEnds
<1>31. ASSUME NEW k \in Closers, CloseWaits(k) PROVE DetachedInv'
  BY <1>31 DEF CloseWaits, WaitsFor
<1>32. ASSUME NEW k \in Closers, NEW c \in Conns, CloseHangUp(k, c) PROVE DetachedInv'
  BY <1>32 DEF CloseHangUp, HangUp
<1>33. CASE UNCHANGED vars
  BY <1>33
<1>34. QED
  BY <1>1, <1>2, <1>3, <1>4, <1>5, <1>6, <1>7, <1>8, <1>9, <1>10, <1>11, <1>12,
     <1>13, <1>13a, <1>14, <1>15, <1>16, <1>17, <1>18, <1>19, <1>20, <1>21, <1>22, <1>23,
     <1>24, <1>25, <1>26, <1>27, <1>28, <1>29, <1>30, <1>31, <1>32, <1>33 DEF Next,
     ServeStep, HandlerStep, CloseStep

\* What Close waits for is finite.
LEMMA CountableInductive == InductiveInv /\ CountableInv /\ [Next]_vars => CountableInv'
<1> SUFFICES ASSUME InductiveInv, CountableInv, [Next]_vars PROVE CountableInv'
  OBVIOUS
<1>1. IsFiniteSet(conns) /\ IsFiniteSet(running) /\ IsFiniteSet(toClose)
  BY DEF InductiveInv, CountableInv
<1>2. running' \subseteq running \union {held} /\ toClose' \subseteq toClose \union conns
  BY DEF Next, HandlerStep, PeerStep, ServeStep, CloseStep, vars, serverVars, closeVars,
     Dial, Stall, Leave, SendFrame, PublishElsewhere, CloseBroker, Accept, AcceptFails,
     Register, RegisterClosed, RegisterFull, Refuse, ReadFrame, ReadFails, Respond,
     RespondFails, LastWord, SubscribeFails, Subscribe, StartMonitor, Confirm, StreamRead,
     StreamEnds, Push, PushFails, PushRefused, DeferHangUp, DeferJoin, DeferUnsubscribe,
     DeferRemove, DeferClose, MonitorEnds, CallClose, CloseHangUp, CloseEnds, CloseWaits
<1>3. IsFiniteSet(running \union {held}) /\ IsFiniteSet(toClose \union conns)
  BY <1>1, FS_AddElement, FS_Union
<1>4. QED
  BY <1>2, <1>3, FS_Subset DEF CountableInv

\* The invariants of the end of Close hold together.
EndInv == ToldInv /\ DetachedInv /\ CountableInv

\* They hold in every reachable state.
LEMMA EndInvariance == Spec => [](InductiveInv /\ EndInv)
<1>1. Init => EndInv
  <2> SUFFICES ASSUME Init PROVE EndInv
    OBVIOUS
  <2>1. CountableInv
    BY FS_EmptySet DEF Init, CountableInv
  <2>2. ToldInv /\ DetachedInv
    BY DEF Init, ToldInv, DetachedInv
  <2>3. QED
    BY <2>1, <2>2 DEF EndInv
<1>2. InductiveInv /\ EndInv /\ [Next]_vars => EndInv'
  BY ToldInductive, DetachedInductive, CountableInductive DEF EndInv
<1>3. QED
  BY Invariance, <1>1, <1>2, PTL DEF Spec

\* Whoever Close waits for can go on, whatever the peers do, with or without
\* time-outs, and there are finitely many of them: the safety part of
\* CloseReturns (Server.Close, "waits for their exit").
THEOREM ClosingGoesOn == Spec => [](CloseIsServed /\ CountableInv)
<1>1. InductiveInv /\ EndInv => CloseIsServed /\ CountableInv
  <2> SUFFICES ASSUME InductiveInv, EndInv PROVE CloseIsServed
    BY DEF EndInv
  <2>1. ASSUME closer # None, NEW c \in running, c \notin toClose
        PROVE  Ending(c) /\ (HandlerGoesOn(c) \/ MonitorGoesOn(c))
    <3>1. c \in Conns /\ hpc[c] \in HandlerStates \ {"none", "done"}
      BY DEF InductiveInv, TypeOK, RunningInv
    <3>2. hpc[c] = "close" \/ Told(c)
      BY <2>1, <3>1 DEF InductiveInv, SlotsAreHandlers, EndInv, ToldInv
    <3>3. CASE hpc[c] = "close"
      BY <3>3 DEF Ending, HandlerGoesOn
    <3>4. CASE Told(c)
      <4>1. hpc[c] = "join" => mpc[c] \in {"reading", "done"}
        BY <3>1 DEF InductiveInv, TypeOK, EndInv, DetachedInv
      <4>2. QED
        BY <3>1, <3>4, <4>1
           DEF Ending, Told, HandlerGoesOn, MonitorGoesOn, CannotWrite, Joined, HandlerStates
    <3>5. QED
      BY <3>2, <3>3, <3>4
  <2>2. ASSUME NEW k \in Closers, kpc[k] = "wait"
        PROVE  closeDone \/ (closer \in Closers /\ kpc[closer] = "hangup")
    <3>1. closer \in Closers /\ closer # None
      BY <2>2 DEF InductiveInv, TypeOK, CloseInv
    <3>2. kpc[closer] \in {"hangup", "returned"}
      BY <3>1 DEF InductiveInv, TypeOK, EndInv, ToldInv
    <3>3. QED
      BY <3>1, <3>2 DEF InductiveInv, CloseInv
  <2>3. \A k \in Closers : kpc[k] \in {"idle", "hangup", "wait", "returned"}
    BY DEF InductiveInv, TypeOK
  <2>4. QED
    BY <2>1, <2>2, <2>3 DEF CloseIsServed, CloserGoesOn
<1>2. QED
  BY EndInvariance, <1>1, PTL

\* Where a handler that can go on gets to, and the state it leaves.
Exit(where) ==
    CASE where \in {"read", "respond", "lastword", "unsubscribe"} -> "remove"
      [] where = "subscribe" -> "respond"
      [] where = "detach" -> "confirm"
      [] where \in {"confirm", "stream", "push"} -> "hangup"
      [] where = "hangup" -> "join"
      [] where = "join" -> "unsubscribe"
      [] where = "remove" -> "close"
      [] OTHER -> "done"

AfterHandler(c) ==
    LET At(places, new, old) == IF hpc[c] \in places THEN new ELSE old
    IN  << <<serve, held, closed, At({"remove"}, conns \ {c}, conns),
             At({"close"}, running \ {c}, running)>>,
           closeVars,
           <<timeouts, peer, inbox,
             At({"hangup", "close"}, [hungUp EXCEPT ![c] = TRUE], hungUp),
             At({"detach"}, [deadline EXCEPT ![c] = FALSE], deadline)>>,
           <<At({"remove"}, [ctx EXCEPT ![c] = TRUE], ctx),
             [hpc EXCEPT ![c] = Exit(hpc[c])],
             At({"detach"}, [mpc EXCEPT ![c] = "reading"], mpc),
             At({"unsubscribe"}, [subCtx EXCEPT ![c] = TRUE], subCtx)>>,
           <<At({"unsubscribe"}, [sub EXCEPT ![c] = "closed"], sub), behind, brokerOpen>> >>

AfterMonitor(c) ==
    <<serverVars, closeVars, socketVars,
      <<ctx, hpc, [mpc EXCEPT ![c] = "done"], [subCtx EXCEPT ![c] = TRUE]>>, brokerVars>>

\* The same for a caller of Close, who hangs up c if anybody is to be hung up.
AfterCloser(k, c) ==
    LET ends == kpc[k] = "wait" \/ toClose = {}
        also(f, new) == IF ends THEN f ELSE [f EXCEPT ![c] = new]
    IN  << serverVars,
           <<closer, IF ends THEN toClose ELSE toClose \ {c}, closeDone \/ ends,
             IF ends THEN [kpc EXCEPT ![k] = "returned"] ELSE kpc>>,
           <<timeouts, peer, inbox, also(hungUp, TRUE), deadline>>,
           <<also(ctx, TRUE), hpc, mpc, subCtx>>, brokerVars>>

\* That somebody can go on means that there is a step: the state written out is
\* reached by a step of his, which is not a stutter.
THEOREM GoingOnIsAStep ==
    ASSUME InductiveInv, NEW c \in Conns, NEW k \in Closers
    PROVE  /\ HandlerGoesOn(c) /\ vars' = AfterHandler(c) => <<HandlerStep(c)>>_vars
           /\ MonitorGoesOn(c) /\ vars' = AfterMonitor(c) => <<MonitorEnds(c)>>_vars
           /\ CloserGoesOn(k) /\ (kpc[k] = "hangup" /\ toClose # {} => c \in toClose)
                 /\ vars' = AfterCloser(k, c) => <<CloseStep(k)>>_vars
<1> USE DEF InductiveInv, TypeOK, vars, serverVars, closeVars, socketVars, handlerVars,
       brokerVars
<1>1. ASSUME HandlerGoesOn(c), vars' = AfterHandler(c) PROVE <<HandlerStep(c)>>_vars
  <2>1. hpc' = [hpc EXCEPT ![c] = Exit(hpc[c])]
    BY <1>1 DEF AfterHandler
  <2>2. hpc' # hpc
    BY <1>1, <2>1 DEF Exit, HandlerGoesOn
  <2>3. CASE hpc[c] = "read"
    BY <1>1, <2>1, <2>3 DEF HandlerGoesOn, AfterHandler, Exit, ReadFails, Goto, HandlerStep
  <2>4. CASE hpc[c] = "respond"
    BY <1>1, <2>1, <2>4 DEF HandlerGoesOn, AfterHandler, Exit, RespondFails, Goto, HandlerStep
  <2>5. CASE hpc[c] = "lastword"
    BY <1>1, <2>1, <2>5 DEF HandlerGoesOn, AfterHandler, Exit, LastWord, Goto, HandlerStep
  <2>6. CASE hpc[c] \in {"confirm", "push"}
    BY <1>1, <2>1, <2>6 DEF HandlerGoesOn, AfterHandler, Exit, PushFails, Goto, HandlerStep
  <2>7. CASE hpc[c] = "stream"
    BY <1>1, <2>1, <2>7 DEF HandlerGoesOn, AfterHandler, Exit, StreamEnds, Goto, HandlerStep
  <2>8. CASE hpc[c] = "join"
    BY <1>1, <2>1, <2>8 DEF HandlerGoesOn, AfterHandler, Exit, DeferJoin, Goto, HandlerStep
  <2>9. CASE hpc[c] = "subscribe"
    BY <1>1, <2>1, <2>9 DEF AfterHandler, Exit, SubscribeFails, Goto, HandlerStep
  <2>10. CASE hpc[c] = "detach"
    BY <1>1, <2>1, <2>10 DEF AfterHandler, Exit, StartMonitor, ClearDeadline, Goto, HandlerStep
  <2>11. CASE hpc[c] = "hangup"
    BY <1>1, <2>1, <2>11 DEF AfterHandler, Exit, DeferHangUp, Goto, HandlerStep
  <2>12. CASE hpc[c] = "unsubscribe"
    BY <1>1, <2>1, <2>12 DEF AfterHandler, Exit, DeferUnsubscribe, Goto, HandlerStep
  <2>13. CASE hpc[c] = "remove"
    BY <1>1, <2>1, <2>13 DEF AfterHandler, Exit, DeferRemove, RemoveConn, Goto, HandlerStep
  <2>14. CASE hpc[c] = "close"
    BY <1>1, <2>1, <2>14 DEF AfterHandler, Exit, DeferClose, Goto, HandlerStep
  <2>15. HandlerStep(c)
    BY <1>1, <2>3, <2>4, <2>5, <2>6, <2>7, <2>8, <2>9, <2>10, <2>11, <2>12, <2>13, <2>14
       DEF HandlerGoesOn
  <2>16. QED
    BY <2>2, <2>15
<1>2. ASSUME MonitorGoesOn(c), vars' = AfterMonitor(c) PROVE <<MonitorEnds(c)>>_vars
  BY <1>2 DEF MonitorGoesOn, AfterMonitor, MonitorEnds
<1>3. ASSUME CloserGoesOn(k), kpc[k] = "hangup" /\ toClose # {} => c \in toClose,
             vars' = AfterCloser(k, c)
      PROVE  <<CloseStep(k)>>_vars
  <2>1. CASE kpc[k] = "wait"
    BY <1>3, <2>1 DEF CloserGoesOn, AfterCloser, CloseWaits, WaitsFor, CloseStep
  <2>2. CASE kpc[k] = "hangup" /\ toClose = {}
    BY <1>3, <2>2 DEF CloserGoesOn, AfterCloser, CloseEnds, CloseStep
  <2>3. CASE kpc[k] = "hangup" /\ toClose # {}
    BY <1>3, <2>3 DEF CloserGoesOn, AfterCloser, CloseHangUp, HangUp, CloseStep
  <2>4. QED
    BY <1>3, <2>1, <2>2, <2>3 DEF CloserGoesOn
<1>4. QED
  BY <1>1, <1>2, <1>3

\* What a handler and its monitor have still to do at most, once the connection
\* is hung up: the frames read ahead, and the way through handleConn.
Stage(where) ==
    CASE where = "read" -> 12
      [] where = "subscribe" -> 11
      [] where = "detach" -> 10
      [] where = "confirm" -> 8
      [] where = "stream" -> 7
      [] where = "push" -> 6
      [] where = "hangup" -> 5
      [] where = "join" -> 4
      [] where \in {"unsubscribe", "respond", "lastword"} -> 3
      [] where = "remove" -> 2
      [] where = "close" -> 1
      [] OTHER -> 0

StepsLeft(c) ==
    IF hpc[c] \in {"close", "done"} THEN Stage(hpc[c])
    ELSE Stage(hpc[c]) + Len(inbox[c]) + (IF mpc[c] = "reading" THEN 1 ELSE 0)

\* Once Close has begun nothing is added to what it waits for; each of its steps
\* hangs up one more, each step of a handler that has to end or of its monitor
\* leaves it less to do, and nobody else's step gives it more.
WindsDown ==
    /\ closer # None =>
          closer' = closer /\ running' \subseteq running /\ toClose' \subseteq toClose
    /\ \A k \in Closers, c \in Conns : CloseHangUp(k, c) => toClose' # toClose
    /\ \A c \in Conns : Ending(c) =>
          /\ c \in running' => Ending(c)'
          /\ StepsLeft(c) \in Nat
          /\ StepsLeft(c)' <= StepsLeft(c)
          /\ HandlerStep(c) \/ MonitorEnds(c) => StepsLeft(c)' < StepsLeft(c)

\* The stages as numbers.
LEMMA Stages ==
    /\ Stage("read") = 12 /\ Stage("subscribe") = 11 /\ Stage("detach") = 10
    /\ Stage("confirm") = 8 /\ Stage("stream") = 7 /\ Stage("push") = 6
    /\ Stage("hangup") = 5 /\ Stage("join") = 4 /\ Stage("unsubscribe") = 3
    /\ Stage("respond") = 3 /\ Stage("lastword") = 3 /\ Stage("remove") = 2
    /\ Stage("close") = 1 /\ Stage("done") = 0 /\ Stage("none") = 0
BY DEF Stage

\* What somebody else does to a handler that has to end.
LEMMA OthersStep ==
    ASSUME InductiveInv, [Next]_vars, NEW c \in Conns, Ending(c),
           ~HandlerStep(c), ~MonitorEnds(c)
    PROVE  /\ hpc'[c] = hpc[c] /\ mpc'[c] = mpc[c]
           /\ hpc[c] = "close" \/ inbox'[c] = inbox[c]
           /\ hungUp[c] => hungUp'[c]
           /\ ctx[c] => ctx'[c]
           /\ c \in running'
<1> USE DEF InductiveInv, TypeOK, RunningInv, HeldInv, Ending, Told, Goto, vars, serverVars,
       closeVars, socketVars, handlerVars, brokerVars
<1>1. ASSUME NEW d \in Conns, d # c, HandlerStep(d)
      PROVE  /\ hpc'[c] = hpc[c] /\ mpc'[c] = mpc[c] /\ inbox'[c] = inbox[c]
             /\ hungUp'[c] = hungUp[c] /\ ctx'[c] = ctx[c] /\ c \in running'
  BY <1>1 DEF HandlerStep, ReadFrame, ReadFails, Respond,
     RespondFails, LastWord, SubscribeFails, Subscribe, StartMonitor, Confirm, StreamRead,
     StreamEnds, Push, PushFails, PushRefused, DeferHangUp, DeferJoin, DeferUnsubscribe,
     DeferRemove, DeferClose, ClearDeadline, RemoveConn
<1>2. ASSUME NEW d \in Conns, d # c, MonitorEnds(d)
      PROVE  /\ hpc'[c] = hpc[c] /\ mpc'[c] = mpc[c] /\ inbox'[c] = inbox[c]
             /\ hungUp'[c] = hungUp[c] /\ ctx'[c] = ctx[c] /\ c \in running'
  BY <1>2 DEF MonitorEnds
<1>3. ASSUME NEW d \in Conns, PeerStep(d)
      PROVE  /\ hpc'[c] = hpc[c] /\ mpc'[c] = mpc[c]
             /\ hpc[c] = "close" \/ inbox'[c] = inbox[c]
             /\ hungUp'[c] = hungUp[c] /\ ctx'[c] = ctx[c] /\ c \in running'
  BY <1>3 DEF PeerStep, Dial, Stall, Leave, SendFrame
<1>4. ASSUME \/ ServeStep \/ AcceptFails \/ CloseBroker
             \/ \E d \in Conns : PublishElsewhere(d)
             \/ \E k \in Closers : CallClose(k) \/ CloseStep(k)
             \/ UNCHANGED vars
      PROVE  /\ hpc'[c] = hpc[c] /\ mpc'[c] = mpc[c] /\ inbox'[c] = inbox[c]
             /\ hungUp[c] => hungUp'[c]
             /\ ctx[c] => ctx'[c]
             /\ c \in running'
  <2>1. CASE ServeStep
    <3>1. CASE Register \/ RegisterClosed \/ Refuse
      <4>1. held # c
        BY <3>1 DEF Register, RegisterClosed, Refuse
      <4>2. QED
        BY <3>1, <4>1 DEF Register, RegisterHeld, RegisterClosed, Refuse
    <3>2. CASE RegisterFull \/ \E d \in Conns : Accept(d)
      BY <3>2 DEF RegisterFull, Accept
    <3>3. QED
      BY <2>1, <3>1, <3>2 DEF ServeStep
  <2>2. CASE AcceptFails \/ CloseBroker \/ \E d \in Conns : PublishElsewhere(d)
    BY <2>2 DEF AcceptFails, CloseBroker, PublishElsewhere
  <2>3. CASE \E k \in Closers : CallClose(k) \/ CloseStep(k)
    <3>1. CASE \E k \in Closers : CallClose(k) \/ CloseEnds(k) \/ CloseWaits(k)
      BY <3>1 DEF CallClose, CloseEnds, CloseWaits
    <3>2. CASE \E k \in Closers, d \in Conns : CloseHangUp(k, d)
      BY <3>2 DEF CloseHangUp, HangUp
    <3>3. QED
      BY <2>3, <3>1, <3>2 DEF CloseStep
  <2>4. CASE UNCHANGED vars
    BY <2>4
  <2>5. QED
    BY <1>4, <2>1, <2>2, <2>3, <2>4
<1>5. QED
  BY <1>1, <1>2, <1>3, <1>4 DEF Next

\* Going to a later stage is getting nearer to the end.
LEMMA Nearer ==
    ASSUME InductiveInv, NEW c \in Conns, NEW where \in HandlerStates,
           hpc'[c] = where, inbox'[c] = inbox[c], mpc'[c] = mpc[c],
           hpc[c] # "close", Stage(where) < Stage(hpc[c])
    PROVE  StepsLeft(c)' < StepsLeft(c)
<1>1. Len(inbox[c]) \in Nat /\ hpc[c] \in HandlerStates
  BY LenProperties DEF InductiveInv, TypeOK
<1>2. Stage(hpc[c]) \in Nat /\ Stage(where) \in Nat /\ hpc[c] # "done"
  BY <1>1, Stages DEF HandlerStates
<1>3. StepsLeft(c) = Stage(hpc[c]) + Len(inbox[c]) + (IF mpc[c] = "reading" THEN 1 ELSE 0)
  BY <1>2 DEF StepsLeft
<1>4. \/ StepsLeft(c)' = Stage(where)
      \/ StepsLeft(c)' = Stage(where) + Len(inbox[c]) + (IF mpc[c] = "reading" THEN 1 ELSE 0)
  BY DEF StepsLeft
<1> HIDE DEF StepsLeft, Stage
<1>5. QED
  BY <1>1, <1>2, <1>3, <1>4

\* A step of its own brings a handler that has to end nearer to its end.
LEMMA OwnStep ==
    ASSUME InductiveInv, NEW c \in Conns, Ending(c), HandlerStep(c) \/ MonitorEnds(c)
    PROVE  /\ StepsLeft(c)' < StepsLeft(c)
           /\ c \in running' => Ending(c)'
<1> USE DEF Goto, serverVars, closeVars, socketVars, handlerVars, brokerVars
<1>1. Len(inbox[c]) \in Nat
  BY LenProperties DEF InductiveInv, TypeOK
<1>2. /\ hpc \in [Conns -> HandlerStates] /\ mpc \in [Conns -> {"none", "reading", "done"}]
      /\ inbox \in [Conns -> Seq(Frames)]
      /\ hungUp \in [Conns -> BOOLEAN] /\ ctx \in [Conns -> BOOLEAN]
  BY DEF InductiveInv, TypeOK
<1>3. c \in running /\ (Told(c) \/ hpc[c] = "close")
  BY DEF Ending
<1>4. ASSUME hpc[c] # "close", hungUp'[c] = hungUp[c] \/ hungUp'[c] = TRUE,
             ctx'[c] = ctx[c] \/ ctx'[c] = TRUE
      PROVE  c \in running' => Ending(c)'
  BY <1>2, <1>3, <1>4 DEF Ending, Told
<1>5. ASSUME NEW where \in HandlerStates, hpc' = [hpc EXCEPT ![c] = where],
             inbox' = inbox, mpc' = mpc, hpc[c] # "close", Stage(where) < Stage(hpc[c])
      PROVE  StepsLeft(c)' < StepsLeft(c)
  <2>1. hpc'[c] = where
    BY <1>2, <1>5
  <2>2. QED
    BY <1>5, <2>1, Nearer
<1>6. CASE ReadFrame(c)
  <2>1. /\ hpc[c] = "read" /\ inbox[c] # <<>>
        /\ inbox' = [inbox EXCEPT ![c] = Tail(@)]
        /\ mpc' = mpc /\ hungUp' = hungUp /\ ctx' = ctx
        /\ \E w \in {"respond", "read", "subscribe", "lastword", "remove"} : Goto(c, w)
    BY <1>6 DEF ReadFrame
  <2>2. Len(Tail(inbox[c])) = Len(inbox[c]) - 1
    BY <1>2, <2>1, HeadTailProperties
  <2>3. Len(inbox'[c]) = Len(inbox[c]) - 1
    BY <1>2, <2>1, <2>2
  <2>4. PICK w \in {"respond", "read", "subscribe", "lastword", "remove"} :
            hpc' = [hpc EXCEPT ![c] = w]
    BY <2>1
  <2>5. hpc'[c] = w /\ Stage(w) <= 12 /\ Stage(w) \in Nat
    BY <1>2, <2>4, Stages
  <2>6. StepsLeft(c)' = Stage(w) + Len(inbox'[c]) + (IF mpc[c] = "reading" THEN 1 ELSE 0)
    BY <2>1, <2>5 DEF StepsLeft
  <2>7. StepsLeft(c) = 12 + Len(inbox[c]) + (IF mpc[c] = "reading" THEN 1 ELSE 0)
    BY <2>1, Stages DEF StepsLeft
  <2>8. mpc[c] # "reading"
    BY <2>1 DEF InductiveInv, HandlerInv
  <2>9. QED
    BY <1>1, <1>4, <2>1, <2>3, <2>5, <2>6, <2>7, <2>8
<1>7. CASE StartMonitor(c)
  <2>1. /\ hpc[c] = "detach" /\ hpc'[c] = "confirm"
        /\ hungUp' = hungUp /\ ctx' = ctx
    BY <1>2, <1>7 DEF StartMonitor
  <2>2. inbox'[c] = <<>> \/ inbox'[c] = inbox[c]
    BY <1>2, <1>7 DEF StartMonitor
  <2>3. Len(inbox'[c]) <= Len(inbox[c]) /\ Len(inbox'[c]) \in Nat
    BY <1>1, <2>2, EmptySeq
  <2>4. mpc[c] # "reading"
    BY <2>1 DEF InductiveInv, HandlerInv
  <2>5. StepsLeft(c) = 10 + Len(inbox[c])
    BY <1>1, <2>1, <2>4, Stages DEF StepsLeft
  <2>6. StepsLeft(c)' <= 8 + Len(inbox'[c]) + 1
    BY <2>1, <2>3, Stages DEF StepsLeft
  <2>7. StepsLeft(c)' \in Int
    BY <2>1, <2>3, Stages DEF StepsLeft
  <2>8. QED
    BY <1>1, <1>4, <2>1, <2>3, <2>5, <2>6, <2>7
<1>8. CASE MonitorEnds(c)
  <2>1. /\ mpc[c] = "reading" /\ mpc' = [mpc EXCEPT ![c] = "done"]
        /\ hpc' = hpc /\ inbox' = inbox /\ hungUp' = hungUp /\ ctx' = ctx
    BY <1>8 DEF MonitorEnds
  <2>2. hpc[c] \in {"confirm", "stream", "push", "hangup", "join"}
    BY <2>1, SMT DEF InductiveInv, HandlerInv
  <2>3. Stage(hpc[c]) \in Nat
    BY <2>2, Stages
  <2>4. StepsLeft(c) = Stage(hpc[c]) + Len(inbox[c]) + 1
    BY <2>1, <2>2 DEF StepsLeft
  <2>5. StepsLeft(c)' = Stage(hpc[c]) + Len(inbox[c]) + 0
    BY <1>2, <2>1, <2>2 DEF StepsLeft
  <2>6. QED
    BY <1>1, <1>4, <2>1, <2>2, <2>3, <2>4, <2>5
<1>9. CASE ReadFails(c) \/ RespondFails(c) \/ LastWord(c)
  <2>1. /\ hpc[c] \in {"read", "respond", "lastword"}
        /\ \E w \in {"remove"} : hpc' = [hpc EXCEPT ![c] = w]
        /\ inbox' = inbox /\ mpc' = mpc /\ ctx' = ctx
        /\ hungUp'[c] = hungUp[c] \/ hungUp'[c] = TRUE
    BY <1>2, <1>9 DEF ReadFails, RespondFails, LastWord
  <2>2. PICK w \in {"remove"} : hpc' = [hpc EXCEPT ![c] = w]
    BY <2>1
  <2>3. w \in HandlerStates /\ Stage(w) < Stage(hpc[c]) /\ hpc[c] # "close"
    BY <2>1, Stages DEF HandlerStates
  <2>4. QED
    BY <1>4, <1>5, <2>1, <2>2, <2>3
<1>10. CASE SubscribeFails(c) \/ Subscribe(c)
  <2>1. /\ hpc[c] \in {"subscribe"}
        /\ \E w \in {"respond", "detach"} : hpc' = [hpc EXCEPT ![c] = w]
        /\ inbox' = inbox /\ mpc' = mpc /\ ctx' = ctx
        /\ hungUp'[c] = hungUp[c] \/ hungUp'[c] = TRUE
    BY <1>2, <1>10 DEF SubscribeFails, Subscribe
  <2>2. PICK w \in {"respond", "detach"} : hpc' = [hpc EXCEPT ![c] = w]
    BY <2>1
  <2>3. w \in HandlerStates /\ Stage(w) < Stage(hpc[c]) /\ hpc[c] # "close"
    BY <2>1, Stages DEF HandlerStates
  <2>4. QED
    BY <1>4, <1>5, <2>1, <2>2, <2>3
<1>11. CASE StreamRead(c)
  <2>1. /\ hpc[c] \in {"stream"}
        /\ \E w \in {"push"} : hpc' = [hpc EXCEPT ![c] = w]
        /\ inbox' = inbox /\ mpc' = mpc /\ ctx' = ctx
        /\ hungUp'[c] = hungUp[c] \/ hungUp'[c] = TRUE
    BY <1>2, <1>11 DEF StreamRead
  <2>2. PICK w \in {"push"} : hpc' = [hpc EXCEPT ![c] = w]
    BY <2>1
  <2>3. w \in HandlerStates /\ Stage(w) < Stage(hpc[c]) /\ hpc[c] # "close"
    BY <2>1, Stages DEF HandlerStates
  <2>4. QED
    BY <1>4, <1>5, <2>1, <2>2, <2>3
<1>12. CASE StreamEnds(c) \/ PushFails(c) \/ PushRefused(c)
  <2>1. /\ hpc[c] \in {"stream", "confirm", "push"}
        /\ \E w \in {"hangup"} : hpc' = [hpc EXCEPT ![c] = w]
        /\ inbox' = inbox /\ mpc' = mpc /\ ctx' = ctx
        /\ hungUp'[c] = hungUp[c] \/ hungUp'[c] = TRUE
    BY <1>2, <1>12 DEF StreamEnds, PushFails, PushRefused
  <2>2. PICK w \in {"hangup"} : hpc' = [hpc EXCEPT ![c] = w]
    BY <2>1
  <2>3. w \in HandlerStates /\ Stage(w) < Stage(hpc[c]) /\ hpc[c] # "close"
    BY <2>1, Stages DEF HandlerStates
  <2>4. QED
    BY <1>4, <1>5, <2>1, <2>2, <2>3
<1>13. CASE DeferHangUp(c)
  <2>1. /\ hpc[c] \in {"hangup"}
        /\ \E w \in {"join"} : hpc' = [hpc EXCEPT ![c] = w]
        /\ inbox' = inbox /\ mpc' = mpc /\ ctx' = ctx
        /\ hungUp'[c] = hungUp[c] \/ hungUp'[c] = TRUE
    BY <1>2, <1>13 DEF DeferHangUp
  <2>2. PICK w \in {"join"} : hpc' = [hpc EXCEPT ![c] = w]
    BY <2>1
  <2>3. w \in HandlerStates /\ Stage(w) < Stage(hpc[c]) /\ hpc[c] # "close"
    BY <2>1, Stages DEF HandlerStates
  <2>4. QED
    BY <1>4, <1>5, <2>1, <2>2, <2>3
<1>14. CASE DeferJoin(c)
  <2>1. /\ hpc[c] \in {"join"}
        /\ \E w \in {"unsubscribe"} : hpc' = [hpc EXCEPT ![c] = w]
        /\ inbox' = inbox /\ mpc' = mpc /\ ctx' = ctx
        /\ hungUp'[c] = hungUp[c] \/ hungUp'[c] = TRUE
    BY <1>2, <1>14 DEF DeferJoin
  <2>2. PICK w \in {"unsubscribe"} : hpc' = [hpc EXCEPT ![c] = w]
    BY <2>1
  <2>3. w \in HandlerStates /\ Stage(w) < Stage(hpc[c]) /\ hpc[c] # "close"
    BY <2>1, Stages DEF HandlerStates
  <2>4. QED
    BY <1>4, <1>5, <2>1, <2>2, <2>3
<1>15. CASE DeferUnsubscribe(c)
  <2>1. /\ hpc[c] = "unsubscribe" /\ hpc' = [hpc EXCEPT ![c] = "remove"]
        /\ inbox' = inbox /\ mpc' = mpc /\ ctx' = ctx /\ hungUp' = hungUp
    BY <1>15 DEF DeferUnsubscribe
  <2>2. QED
    BY <1>4, <1>5, <2>1, Stages DEF HandlerStates
<1>16. CASE DeferRemove(c)
  <2>1. /\ hpc[c] = "remove" /\ hpc' = [hpc EXCEPT ![c] = "close"]
        /\ inbox' = inbox /\ mpc' = mpc /\ hungUp' = hungUp
        /\ ctx' = [ctx EXCEPT ![c] = TRUE]
    BY <1>16 DEF DeferRemove
  <2>2. QED
    BY <1>2, <1>4, <1>5, <2>1, Stages DEF HandlerStates
<1>17. CASE DeferClose(c)
  <2>1. hpc[c] = "close" /\ hpc'[c] = "done" /\ c \notin running'
    BY <1>2, <1>17 DEF DeferClose
  <2>2. QED
    BY <2>1, Stages DEF StepsLeft
<1>18. CASE Respond(c) \/ Confirm(c) \/ Push(c)
  BY <1>3, <1>18 DEF Respond, Confirm, Push, CanWrite, Told
<1>19. QED
  BY <1>6, <1>7, <1>8, <1>9, <1>10, <1>11, <1>12, <1>13, <1>14,
     <1>15, <1>16, <1>17, <1>18 DEF HandlerStep

\* Close comes to its end by what it waits for coming to theirs.
THEOREM ClosingWindsDown == Spec => [][WindsDown]_vars
<1>1. InductiveInv /\ [Next]_vars => [WindsDown]_vars
  <2> SUFFICES ASSUME InductiveInv, [Next]_vars PROVE WindsDown
    OBVIOUS
  <2>1. ASSUME closer # None
        PROVE  closer' = closer /\ running' \subseteq running /\ toClose' \subseteq toClose
    BY <2>1 DEF InductiveInv, CloseInv, TakesConns, Next, HandlerStep, PeerStep, ServeStep,
       CloseStep, vars, serverVars, closeVars,
       Dial, Stall, Leave, SendFrame, PublishElsewhere, CloseBroker, Accept, AcceptFails,
       Register, RegisterClosed, RegisterFull, Refuse, ReadFrame, ReadFails, Respond,
       RespondFails, LastWord, SubscribeFails, Subscribe, StartMonitor, Confirm, StreamRead,
       StreamEnds, Push, PushFails, PushRefused, DeferHangUp, DeferJoin, DeferUnsubscribe,
       DeferRemove, DeferClose, MonitorEnds, CallClose, CloseHangUp, CloseEnds, CloseWaits
  <2>2. ASSUME NEW k \in Closers, NEW c \in Conns, CloseHangUp(k, c) PROVE toClose' # toClose
    BY <2>2 DEF CloseHangUp
  <2>3. ASSUME NEW c \in Conns, Ending(c)
        PROVE  /\ c \in running' => Ending(c)'
               /\ StepsLeft(c) \in Nat
               /\ StepsLeft(c)' <= StepsLeft(c)
               /\ HandlerStep(c) \/ MonitorEnds(c) => StepsLeft(c)' < StepsLeft(c)
    <3>1. StepsLeft(c) \in Nat
      <4>1. Len(inbox[c]) \in Nat /\ hpc[c] \in HandlerStates
        BY <2>3, LenProperties DEF Ending, InductiveInv, TypeOK
      <4>2. Stage(hpc[c]) \in Nat
        BY <4>1, Stages DEF HandlerStates
      <4>3. QED
        BY <4>1, <4>2 DEF StepsLeft
    <3>2. CASE HandlerStep(c) \/ MonitorEnds(c)
      <4>1. StepsLeft(c)' \in Nat
        <5>1. TypeOK'
          BY TypeInductive
        <5>2. Len(inbox'[c]) \in Nat /\ hpc'[c] \in HandlerStates
          BY <5>1, LenProperties DEF TypeOK
        <5>3. Stage(hpc'[c]) \in Nat
          BY <5>2, Stages DEF HandlerStates
        <5>4. QED
          BY <5>2, <5>3 DEF StepsLeft
      <4>2. QED
        BY <2>3, <3>1, <3>2, <4>1, OwnStep
    <3>3. CASE ~(HandlerStep(c) \/ MonitorEnds(c))
      BY <2>3, <3>1, <3>3, OthersStep DEF Ending, Told, StepsLeft
    <3>4. QED
      BY <3>1, <3>2, <3>3
  <2>4. QED
    BY <2>1, <2>2, <2>3 DEF WindsDown
<1>2. QED
  BY Invariance, <1>1, PTL DEF Spec

=============================================================================

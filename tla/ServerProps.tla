---------------------------- MODULE ServerProps ----------------------------
(***************************************************************************)
(* What Server.tla must guarantee, and what the repository says of it.     *)
(***************************************************************************)
EXTENDS Server

HandlerStates == {"none", "read", "respond", "lastword", "subscribe", "detach",
    "confirm", "stream", "push", "hangup", "join", "unsubscribe", "remove",
    "close", "done"}

\* Every variable holds a value of its Go type.
TypeOK ==
    /\ serve \in {"accept", "register", "refuse", "ended"}
    /\ held \in Conns \union {None}
    /\ timeouts \in Configurations
    /\ closed \in BOOLEAN /\ closeDone \in BOOLEAN /\ brokerOpen \in BOOLEAN
    /\ conns \subseteq Conns /\ running \subseteq Conns /\ toClose \subseteq Conns
    /\ closer \in Closers \union {None}
    /\ kpc \in [Closers -> {"idle", "hangup", "wait", "returned"}]
    /\ peer \in [Conns -> {"new", "connected", "stalled", "gone"}]
    /\ inbox \in [Conns -> Seq(Frames)]
    /\ hungUp \in [Conns -> BOOLEAN] /\ deadline \in [Conns -> BOOLEAN]
    /\ ctx \in [Conns -> BOOLEAN] /\ subCtx \in [Conns -> BOOLEAN]
    /\ hpc \in [Conns -> HandlerStates]
    /\ mpc \in [Conns -> {"none", "reading", "done"}]
    /\ sub \in [Conns -> {"none", "live", "closed"}]
    /\ behind \in [Conns -> BOOLEAN]

\* When a Close has returned, also one that found another at work, the server
\* is at rest: no handler, no monitor, no subscription in the broker, and no
\* connection it ever served is open (Server.Close, "waits for their exit").
QuietAfterClose ==
    (\E k \in Closers : kpc[k] = "returned") =>
        /\ conns = {} /\ running = {}
        /\ \A c \in Conns :
              /\ hpc[c] \in {"none", "done"} /\ mpc[c] # "reading"
              /\ sub[c] # "live"
              /\ hpc[c] = "done" => hungUp[c]

\* The limit on connections is a limit on handlers: a slot is taken exactly as
\* long as a handler may still work, whatever path the handler leaves by.
SlotsAreHandlers ==
    /\ conns = { c \in Conns : hpc[c] \notin {"none", "close", "done"} }
    /\ MaxConns > 0 => Cardinality(conns) <= MaxConns

\* A handler that is through leaves nothing behind: its socket is closed, its
\* monitor has ended, and the broker has forgotten its subscription
\* (handleConn's deferred calls).
NoOrphans ==
    \A c \in Conns :
        hpc[c] = "done" => hungUp[c] /\ mpc[c] # "reading" /\ sub[c] # "live"

\* A subscriber may be idle for ever: its monitor never ends on account of the
\* read deadline of the request phase, but only when the peer has sent
\* something or left, or the server has hung up.
IdleSubscriberStays ==
    [][\A c \in Conns :
          mpc[c] = "reading" /\ mpc'[c] = "done" =>
              inbox[c] # <<>> \/ peer[c] = "gone" \/ hungUp[c]]_vars

\* Close returns, whatever the peers do or do not do, with or without time-outs.
CloseReturns == \A k \in Closers : kpc[k] # "idle" ~> kpc[k] = "returned"

\* A peer that leaves frees its slot, and the broker forgets its subscription.
GoneIsForgotten ==
    \A c \in Conns : peer[c] = "gone" ~> c \notin conns /\ sub[c] # "live"

\* With a write timeout a subscriber that reads nothing is dropped once there
\* is something to push to it (WithWriteTimeout).
SlowIsDropped ==
    \A c \in Conns :
        WriteTimeout /\ hpc[c] = "push" /\ peer[c] = "stalled" ~> hpc[c] = "done"

=============================================================================

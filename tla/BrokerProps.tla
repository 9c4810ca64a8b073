---------------------------- MODULE BrokerProps ----------------------------
(***************************************************************************)
(* What Broker.tla must guarantee.                                         *)
(***************************************************************************)
EXTENDS Broker

Results == {"none", "ok", "closed", "invalid", "exists", "toomany", "nostore",
            "notfound"}

CallTypes == [op : Operations \union {"none"},
              topic : Topics \union {None}, part : Partitions \union {None},
              known : BOOLEAN, late : BOOLEAN]

\* Every variable holds a value of its Go type.
TypeOK ==
    /\ writer \in Closers \union {None}
    /\ closed \in BOOLEAN /\ closeReturned \in BOOLEAN
    /\ topics \in [Topics -> Partitions \union {None}]
    /\ home \in [Topics -> Partitions \union {None}]
    /\ logs \in [Partitions -> Seq(Payloads)]
    /\ shut \in [Partitions -> BOOLEAN]
    /\ subs \in [Partitions -> SUBSET Subs]
    /\ subAt \in [Subs -> Partitions \union {None}]
    /\ call \in [Callers -> CallTypes]
    /\ result \in [Callers -> Results]
    /\ closing \subseteq Partitions

\* Refusals are true.  No call that began after some Close had returned gets
\* anything but ErrClosed ("after Close all other methods return ErrClosed",
\* Broker): also not through a partition looked up earlier, and also when the
\* Close that returned was a second one that found the broker closed already.
\* And a topic that exists is never reported as missing, not even to a caller
\* that runs while Close empties the map: then the answer is ErrClosed.
RefusalsAreTrue ==
    [][\A c \in Callers :
          result'[c] # result[c] =>
              /\ call[c].late => result'[c] \in {"none", "closed"}
              /\ call[c].known => result'[c] # "notfound"]_vars

\* When a Close has returned, whichever, every partition that was ever created
\* is closed and no subscription is registered anywhere: nothing that was
\* looked up before slips in behind (docs/ARCHITECTURE.md, closing).
QuietAfterClose ==
    closeReturned =>
        \A t \in Topics : home[t] # None => shut[home[t]] /\ subs[home[t]] = {}

StatusAt(s, q) ==
    IF q = None \/ subAt[s] # q THEN "new"
    ELSE IF s \in subs[q] THEN "live" ELSE "gone"

TopicLog(t) == INSTANCE BroadcastLog WITH
    StoreMayFail <- FALSE,
    content <- IF home[t] = None THEN <<>> ELSE logs[home[t]],
    open <- home[t] = None \/ ~shut[home[t]],
    status <- [s \in Subs |-> StatusAt(s, home[t])],
    delivered <- [s \in Subs |-> <<>>]

\* What callers reach under one name is one broadcast log from its creation to
\* the end of the broker: no second creation replaces it, no publish through
\* an old pointer goes elsewhere, nothing enters after it was closed.
TopicIsOneLog ==
    /\ \A t \in Topics : TopicLog(t)!Init
    /\ [][\A t \in Topics : [TopicLog(t)!Next]_(TopicLog(t)!vars)]_vars

\* Nobody is stuck, however calls and Close overlap: a Close that holds the
\* write lock can go on, and when nobody holds it every call can.  No call has
\* more than two steps, and a Close one for each partition: all of them return.
NobodyIsStuck ==
    /\ writer # None => ENABLED <<CloseStep(writer)>>_vars
    /\ writer = None =>
          \A c \in Callers : call[c] # Idle => ENABLED <<CallStep(c)>>_vars

=============================================================================

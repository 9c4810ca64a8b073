----------------------------- MODULE ClientProps -----------------------------
(***************************************************************************)
(* What Client.tla must guarantee, and what the repository says of it.     *)
(***************************************************************************)
EXTENDS Client

Results == {"none", "ok", "some", "closed", "streaming", "error", "timeout",
            "refused", "unexpected"}

Frames == [op : {"publish", "batch", "list", "subscribe", "message", "error", "torn"},
           base : Nat, body : Nat \union Payloads]

\* Every variable holds a value of its Go type.
TypeOK ==
    /\ mu \in Callers \union {None} /\ closer \in Callers \union {None}
    /\ timeouts \in Configurations
    /\ streaming \in BOOLEAN /\ closed \in BOOLEAN /\ socket \in BOOLEAN
    /\ broken \in BOOLEAN /\ deadline \in BOOLEAN /\ closeDone \in BOOLEAN
    /\ pc \in [Callers -> {"idle", "lock", "write", "read", "pull", "more", "close"}]
    /\ req \in [Callers -> Requests]
    /\ late \in [Callers -> BOOLEAN]
    /\ result \in [Callers -> Results]
    /\ toServer \in Seq(Publishes \union {List, Sub})
    /\ toClient \in Seq(Frames)
    /\ phase \in {"request", "push", "ended"}
    /\ log \in Seq(Payloads) /\ cursor \in 0 .. Len(log)
    /\ called \subseteq Publishes
    /\ acked \subseteq [request : Publishes, base : Nat]
    /\ got \in Seq([Offset : Nat, Payload : Nat \union Payloads])

\* The log holds the payloads of publication r from offset base on.
Holds(r, base) ==
    \A i \in 1 .. Len(r.payloads) :
        base + i <= Len(log) /\ log[base + i] = r.payloads[i]

\* The offset that Publish or PublishBatch returns is that of its own payloads:
\* each request gets the answer to itself, whatever goroutines share the client
\* (roundTrip, "reads the response of the same order").
AckIsOwn == \A a \in acked : Holds(a.request, a.base)

\* A subscription hands out the log from its beginning, each message once and
\* in order, also to several readers, and whatever happened on the connection
\* before it was subscribed.
StreamIsPrefix ==
    \A i \in 1 .. Len(got) :
        got[i] = [Offset |-> i - 1, Payload |-> log[i]]

\* Errors say what happened.  A call that began after a Close had returned gets
\* ErrClosed, and a Close nil.  A call that Close interrupts says ErrClosed as
\* well, never what the closed socket said (opErr): without time-outs other
\* errors come from a server that has ended the connection.
ErrorsSayWhatHappened ==
    [][\A c \in Callers :
          /\ late[c] /\ result'[c] # result[c] /\ pc[c] # "idle" =>
                result'[c] = IF req[c] = Quit THEN "ok" ELSE "closed"
          /\ result'[c] = "error" /\ result[c] # "error" => phase = "ended"]_vars

\* A subscription may be idle for ever: no read of a push fails at the deadline
\* of an earlier request (WithClientReadTimeout).
IdlePullStays ==
    \A c \in Callers : req[c] \in {Pull, PullMany} => result[c] # "timeout"

\* With a read timeout a request that has been written ends although the server
\* never answers.
SilenceEnds == \A c \in Callers : ReadTimeout /\ pc[c] = "read" ~> pc[c] = "idle"

\* After Close every call ends, also one that is waiting for a silent server.
CloseEndsCalls == \A c \in Callers : closed /\ pc[c] # "idle" ~> pc[c] = "idle"

\* "Afterwards only Subscription.Read; other requests return ErrStreaming"
\* (Client): a request on a streaming client returns.
StreamingIsRefused ==
    \A c \in Callers : streaming /\ pc[c] = "lock" /\ req[c] = List ~> pc[c] = "idle"

=============================================================================

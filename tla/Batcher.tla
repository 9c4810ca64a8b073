------------------------------ MODULE Batcher ------------------------------
(***************************************************************************)
(* The batching publisher of network/client.go.  Add collects payloads;    *)
(* a full buffer, a timer (linger), Flush and Close send them with         *)
(* Client.PublishBatch.  Batcher.mu guards the fields, but it is released  *)
(* while a batch is being sent: several flushes, of callers and of timers  *)
(* that have fired, overlap, and the client's own mutex serves them in any *)
(* order.  What happens under Batcher.mu is one step, since nothing blocks *)
(* there; PublishBatch is one step, and the recording of its result a      *)
(* third.                                                                  *)
(***************************************************************************)
EXTENDS Integers, Sequences, FiniteSets, SequencesExt

CONSTANTS
    Callers,        \* goroutines that use the batcher
    Timers,         \* heap addresses of timers
    Messages,       \* payloads; each is added at most once
    MaxBatch,       \* NewBatcher has made it at least 1
    Delays,         \* what maxDelay > 0 may be: a set of Booleans
    SendMayFail,    \* PublishBatch may return an error
    None

ASSUME BatcherAssumption ==
    /\ MaxBatch \in Nat \ {0}
    /\ Delays \subseteq BOOLEAN /\ SendMayFail \in BOOLEAN
    /\ Callers \intersect Timers = {} /\ None \notin Timers

VARIABLES
    linger,     \* maxDelay > 0, chosen by the user of the batcher
    buf,        \* Batcher.buf
    timer,      \* Batcher.timer, or None
    failed,     \* Batcher.err is set
    closed,     \* Batcher.closed
    armed,      \* timers that run and have not been stopped
    pc,         \* pc[p]: where goroutine p stands
    verb,       \* verb[p]: the method it has called
    hand,       \* hand[p]: the batch that its Flush has taken
    answer,     \* answer[p]: what PublishBatch answered
    log,        \* the topic, as far as this batcher has filled it
    accepted,   \* history: what Add has put into the buffer, in that order
    taken,      \* history: what flushes have taken out, in that order
    closeEnded, \* history: results of the calls of Close that have returned
    overlapped  \* history: something was added or taken while a batch was being sent

fields == <<linger, buf, timer, failed, closed>>
goroutines == <<pc, verb, hand, answer>>
history == <<accepted, taken, closeEnded, overlapped>>
vars == <<fields, armed, goroutines, log, history>>

Procs == Callers \union Timers

Init ==
    /\ linger \in Delays
    /\ buf = <<>>
    /\ timer = None
    /\ failed = FALSE
    /\ closed = FALSE
    /\ armed = {}
    /\ pc = [p \in Procs |-> "idle"]
    /\ verb = [p \in Procs |-> "none"]
    /\ hand = [p \in Procs |-> <<>>]
    /\ answer = [p \in Procs |-> "none"]
    /\ log = <<>>
    /\ accepted = <<>>
    /\ taken = <<>>
    /\ closeEnded = {}
    /\ overlapped = FALSE

-----------------------------------------------------------------------------
\* Pieces, each after what a slip would make of it

\* Whether Add takes a payload: not once closed, nor after an error.
AdmitsWhenClosed == ~failed
AdmitsAfterError == ~closed
Admits == ~closed /\ ~failed

\* Whether a buffer has to go at once.
FullOneLate(b) == Len(b) > MaxBatch
FullBuffer(b) == Len(b) >= MaxBatch

\* What a flush leaves of the timer field, and of the buffer.
TimerKept == UNCHANGED timer
DropTimer == timer' = None

BufferKept == UNCHANGED buf
EmptyBuffer == buf' = <<>>

\* What the end of a flush makes of the sticky error.
ErrorOfLast(p) == failed' = (answer[p] = "error")
RecordError(p) == failed' = (failed \/ answer[p] = "error")

Unused == Messages \ ToSet(accepted)

\* Memory for a new timer.
FreeTimer(t) == pc[t] = "idle" /\ t \notin armed /\ timer # t

Sending == \E p \in Procs : pc[p] \in {"send", "record"}

Goto(p, where) == pc' = [pc EXCEPT ![p] = where]

-----------------------------------------------------------------------------

\* Add, up to the release of the lock: a full buffer is flushed by the same
\* call, otherwise a timer is started unless one is there.  (A closed batcher
\* and one with an error refuse: nothing changes.)
Add(p, m) ==
    /\ pc[p] = "idle"
    /\ Admits
    /\ buf' = Append(buf, m)
    /\ accepted' = Append(accepted, m)
    /\ overlapped' = (overlapped \/ Sending)
    /\ \/ /\ FullBuffer(buf')
          /\ Goto(p, "flush")
          /\ verb' = [verb EXCEPT ![p] = "add"]
          /\ UNCHANGED <<timer, armed>>
       \/ /\ ~FullBuffer(buf')
          /\ IF timer = None /\ linger
             THEN \E t \in Timers :
                    FreeTimer(t) /\ timer' = t /\ armed' = armed \union {t}
             ELSE UNCHANGED <<timer, armed>>
          /\ UNCHANGED <<pc, verb>>
    /\ UNCHANGED <<linger, failed, closed, hand, answer, log, taken, closeEnded>>

\* The timer fires: its function runs Flush in a goroutine of its own.
Fire(t) ==
    /\ t \in armed
    /\ armed' = armed \ {t}
    /\ Goto(t, "flush")
    /\ verb' = [verb EXCEPT ![t] = "timer"]
    /\ UNCHANGED <<fields, hand, answer, log, history>>

CallFlush(p) ==
    /\ pc[p] = "idle"
    /\ Goto(p, "flush")
    /\ verb' = [verb EXCEPT ![p] = "flush"]
    /\ UNCHANGED <<fields, armed, hand, answer, log, history>>

CallClose(p) ==
    /\ pc[p] = "idle"
    /\ closed' = TRUE
    /\ Goto(p, "flush")
    /\ verb' = [verb EXCEPT ![p] = "close"]
    /\ UNCHANGED <<linger, buf, timer, failed, armed, hand, answer, log, history>>

\* The call of p ends with result how.
Return(p, how) ==
    /\ Goto(p, "idle")
    /\ verb' = [verb EXCEPT ![p] = "none"]
    /\ closeEnded' = IF verb[p] = "close" THEN closeEnded \union {how} ELSE closeEnded

\* Flush, first critical section: the timer goes, the batch is taken.  An
\* empty buffer makes Flush return the last error.
TakeBatch(p) ==
    /\ pc[p] = "flush"
    /\ armed' = armed \ {timer}
    /\ DropTimer
    /\ \/ /\ buf = <<>>
          /\ Return(p, IF failed THEN "error" ELSE "ok")
          /\ UNCHANGED <<buf, hand, taken, overlapped>>
       \/ /\ buf # <<>>
          /\ hand' = [hand EXCEPT ![p] = buf]
          /\ taken' = taken \o buf
          /\ EmptyBuffer
          /\ overlapped' = (overlapped \/ Sending)
          /\ Goto(p, "send")
          /\ UNCHANGED <<verb, closeEnded>>
    /\ UNCHANGED <<linger, failed, closed, answer, log, accepted>>

\* Client.PublishBatch: appended and acknowledged, or failed, with the batch
\* appended all the same when only the answer was lost.
Send(p) ==
    /\ pc[p] = "send"
    /\ \/ /\ log' = log \o hand[p]
          /\ \/ answer' = [answer EXCEPT ![p] = "ok"]
             \/ SendMayFail /\ answer' = [answer EXCEPT ![p] = "error"]
       \/ /\ SendMayFail
          /\ answer' = [answer EXCEPT ![p] = "error"]
          /\ UNCHANGED log
    /\ Goto(p, "record")
    /\ UNCHANGED <<fields, armed, verb, hand, history>>

\* Flush, second critical section.
Record(p) ==
    /\ pc[p] = "record"
    /\ RecordError(p)
    /\ hand' = [hand EXCEPT ![p] = <<>>]
    /\ answer' = [answer EXCEPT ![p] = "none"]
    /\ Return(p, answer[p])
    /\ UNCHANGED <<linger, buf, timer, closed, armed, log, accepted, taken,
                   overlapped>>

-----------------------------------------------------------------------------

FlushStep(p) == TakeBatch(p) \/ Send(p) \/ Record(p)

Next ==
    \/ \E p \in Callers :
          \/ \E m \in Unused : Add(p, m)
          \/ CallFlush(p) \/ CallClose(p)
    \/ \E t \in Timers : Fire(t)
    \/ \E p \in Procs : FlushStep(p)

Spec == Init /\ [][Next]_vars

\* Timers that run fire, and a flush goes on: PublishBatch comes back, since
\* the client's time-outs bound it.
Fairness == /\ \A t \in Timers : WF_vars(Fire(t))
            /\ \A p \in Procs : WF_vars(FlushStep(p))

FairSpec == Spec /\ Fairness

=============================================================================

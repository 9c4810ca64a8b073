---------------------------- MODULE BatcherProps ----------------------------
(***************************************************************************)
(* What Batcher.tla must guarantee, and what the repository says of it.    *)
(***************************************************************************)
EXTENDS Batcher

\* Every variable holds a value of its Go type.
TypeOK ==
    /\ buf \in Seq(Messages) /\ log \in Seq(Messages)
    /\ accepted \in Seq(Messages) /\ taken \in Seq(Messages)
    /\ timer \in Timers \union {None} /\ armed \subseteq Timers
    /\ overlapped \in BOOLEAN /\ linger \in Delays
    /\ failed \in BOOLEAN /\ closed \in BOOLEAN
    /\ pc \in [Procs -> {"idle", "flush", "send", "record"}]
    /\ verb \in [Procs -> {"none", "add", "flush", "close", "timer"}]
    /\ hand \in [Procs -> Seq(Messages)]
    /\ answer \in [Procs -> {"none", "ok", "error"}]
    /\ closeEnded \subseteq {"ok", "error"}

AboutToFlush(p) == pc[p] = "flush"

\* A buffered payload never waits for somebody who does not come: a flush is
\* about to take it, or a timer is running; without linger it may wait for the
\* rest of its batch, but not in a closed batcher.  (Batcher.Add starts a timer
\* only if the field timer is nil, which a timer that fired may still occupy.)
NothingStranded ==
    buf # <<>> =>
        \/ \E p \in Procs : AboutToFlush(p)
        \/ linger /\ timer \in armed
        \/ ~linger /\ ~closed /\ Len(buf) < MaxBatch

\* Flushes that overlap take each payload exactly once and in the order of the
\* calls of Add (Batcher.Flush: batch := b.buf; b.buf = nil).
TakenOnceInOrder == taken \o buf = accepted

InFlight == UNION { ToSet(hand[p]) : p \in { q \in Procs : pc[q] \in {"send", "record"} } }

\* A payload that Add accepted and that is neither buffered, nor in flight, nor
\* in the topic, was in a failed batch, and the batcher still has the error:
\* a flush that succeeds later does not hide it (Batcher.Flush, err).
LossIsRemembered ==
    ToSet(accepted) \ (ToSet(buf) \union InFlight \union ToSet(log)) # {} => failed

\* Once a Close has returned the buffer stays empty and no timer is running:
\* nothing is accepted behind its back (Batcher.Close).
NothingAfterClose == closeEnded # {} => buf = <<>> /\ armed = {}

\* While the batcher is used by one goroutine at a time, that is while nothing is
\* added or taken during the sending of a batch, the topic gets a prefix of what
\* was added, without a gap: after a failed batch Add accepts nothing more.
SentIsPrefix == ~overlapped => IsPrefix(log, accepted)

\* With linger the topic catches up with what Add has accepted, or the batcher
\* gets an error, also when no caller does anything more (Batcher.Add, AfterFunc).
\* Payloads never leave `accepted' or the topic, and there are finitely many: this
\* says of each of them that it gets there.
BufferedIsSent == linger => []<>(ToSet(accepted) \subseteq ToSet(log) \/ failed)

\* "Close flushes what is left" (README.md, Batcher.Close): when a Close has
\* returned nil, what was accepted before is in the topic.
ClosedMeansSent == closeEnded = {"ok"} => ToSet(accepted) \subseteq ToSet(log)

=============================================================================

--------------------------- MODULE PartitionProps ---------------------------
(***************************************************************************)
(* What Partition.tla must guarantee, and the promise it implements.       *)
(***************************************************************************)
EXTENDS Partition

\* Every variable holds a value of its Go type.
TypeOK ==
    /\ mu \in Publishers \union {Closer, NoOne}
    /\ log \in Seq(Message)
    /\ closed \in BOOLEAN
    /\ subs \subseteq Subs
    /\ created \subseteq Subs
    /\ offset \in [Subs -> Nat]
    /\ ready \in [Subs -> BOOLEAN]
    /\ closes \in [Subs -> Nat]
    /\ ppc \in [Publishers -> {"idle", "append", "notify"}]
    /\ batch \in [Publishers -> Seq(Payloads)]
    /\ appended \in [Publishers -> Nat]
    /\ base \in [Publishers -> Nat]
    /\ todo \in [Publishers -> SUBSET Subs]
    /\ rpc \in [Readers -> {"idle", "check", "wait"}]
    /\ rmax \in [Readers -> MachineInts]
    /\ ctxDone \in [Readers -> BOOLEAN]
    /\ ret \in [Readers -> {"none", "msgs", "closed", "ctx"}]
    /\ got \in [Subs -> Seq(Message)]
    /\ acks \subseteq [base : Nat, batch : Seq(Payloads)]

\* Read keeps the promise of the Store interface in every log that occurs and
\* for every argument, also where from + max overflows a machine integer
\* (memoryLog.Read cuts max down to the remainder before it adds).
ReadMeetsContract ==
    \A from, max \in MachineInts : ReadContract(log, from, max)

\* Whatever the interleaving of publishes and reads, all that a subscription
\* has returned so far is the log up to its cursor: no message lost, repeated
\* or out of order, whoever and however many call Read (the cursor moves in
\* the critical section that reads the log).
DeliveredIsPrefix ==
    \A s \in Subs :
        /\ offset[s] <= Len(log)
        /\ got[s] = SubSeq(log, 1, offset[s])

\* A publish that returned base without an error has its payloads, and nothing
\* else, at the offsets base, base + 1, ..., for good ("the whole batch has
\* contiguous offsets", PublishBatch), and no two publishes claim an offset.
AckedBatchesAreContiguous ==
    /\ \A a \in acks :
          /\ a.base + Len(a.batch) <= Len(log)
          /\ \A i \in 1 .. Len(a.batch) :
                log[a.base + i] = [Offset |-> a.base + i - 1, Payload |-> a.batch[i]]
    /\ \A a, b \in acks :
          a.base <= b.base => a = b \/ a.base + Len(a.batch) <= b.base

\* close(done) runs exactly once for a subscription that left the registry and
\* never for one in it, however Subscription.Close and Partition.close overlap:
\* a second close of the channel would panic, a missing one would leave its
\* reader blocked.
DoneClosedOnce ==
    \A s \in Subs : closes[s] = IF s \in created \ subs THEN 1 ELSE 0

\* Once close has released the lock nobody is registered, so nobody is left to
\* be woken and no subscription can be added behind its back.
ClosedHasNoSubscribers == closed /\ mu # Closer => subs = {}

\* The reader of subscription s is asleep although there is something to read,
\* and nothing that is under way will wake it.
Forgotten(r) ==
    /\ rpc[r] = "wait"
    /\ SubOf[r] \in subs
    /\ Unread(SubOf[r])
    /\ ~ready[SubOf[r]]
    /\ mu = NoOne

\* No wake-up is lost: whenever the partition is at rest, a reader blocked in
\* select with unread messages finds a token in ready, although signals are
\* dropped and the token of one publish may be eaten by the read of another.
NoLostWakeup == \A r \in Readers : ~Forgotten(r)

\* After Close or the end of the partition nothing is delivered any more, not
\* even messages already in the log: ErrClosed is final (Subscription.Read).
NothingAfterDone ==
    [][\A s \in Subs : Done(s) \/ closed => got'[s] = got[s]]_vars

-----------------------------------------------------------------------------
\* The abstract log

\* A batch shows in the log when its last payload is appended, or, when the
\* store fails, when the lock is released: while payloads are being appended
\* the ones already there are invisible to everybody without mu.
Hidden ==
    IF \E p \in Publishers : ppc[p] = "append"
    THEN appended[CHOOSE p \in Publishers : ppc[p] = "append"]
    ELSE 0

PayloadsOf(msgs) == [i \in 1 .. Len(msgs) |-> msgs[i].Payload]

StatusOf(s) == CASE s \notin created -> "new"
                 [] s \in created /\ ~closed /\ closes[s] = 0 -> "live"
                 [] OTHER -> "gone"

Promise == INSTANCE BroadcastLog WITH
    content <- SubSeq(PayloadsOf(log), 1, Len(log) - Hidden),
    open <- ~closed,
    status <- [s \in Subs |-> StatusOf(s)],
    delivered <- [s \in Subs |-> PayloadsOf(got[s])]

\* The partition, with its lock, channels and loops, is a broadcast log: the
\* batch of a publish appears in one step, reads return the next messages.
ImplementsPromise == Promise!Spec

-----------------------------------------------------------------------------
\* Liveness, under Fairness

\* A Read that has something to return does return: a reader blocked with
\* unread messages is woken and comes back to its caller.
UnreadIsRead ==
    \A r \in Readers :
        rpc[r] # "idle" /\ Unread(SubOf[r]) ~> rpc[r] = "idle"

\* Closing the partition, or the subscription, ends every Read that is under
\* way, blocked ones included.
CloseEndsRead ==
    \A r \in Readers :
        rpc[r] # "idle" /\ (closed \/ Done(SubOf[r])) ~> rpc[r] = "idle"

=============================================================================

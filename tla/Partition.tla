----------------------------- MODULE Partition -----------------------------
(***************************************************************************)
(* One partition and its broadcast subscriptions: broker/partition.go and  *)
(* broker/subscription.go.                                                 *)
(*                                                                         *)
(* Any number of goroutines publish, subscribe, unsubscribe, read and      *)
(* close.  They meet at one mutex, mu, and at two channels per             *)
(* subscription: ready (capacity 1, "there is something new") and done     *)
(* (closed when the subscription ends).  The critical section of a publish *)
(* is several steps here, because a blocked reader receives from ready     *)
(* and done without holding mu and so sees the publisher in mid-section.   *)
(* The critical sections that touch nothing a reader can see without mu,   *)
(* or touch it once, are single steps guarded by mu being free.            *)
(***************************************************************************)
EXTENDS Store, FiniteSets

CONSTANTS
    Publishers,     \* goroutines that call Publish or PublishBatch
    Subs,           \* subscriptions that Subscribe can hand out
    Readers,        \* goroutines that call Subscription.Read
    SubOf,          \* SubOf[r]: the one subscription that reader r reads
    Batches,        \* the batches published; <<x>> also stands for Publish(x)
    ReadSizes,      \* the values of max that readers pass
    StoreMayFail,   \* TRUE: an injected Store whose Append may return an error
    MaxLog,         \* bound: no publish starts that would make the log longer
    Closer,         \* the goroutine that runs Partition.close
    NoOne           \* nobody holds mu

ASSUME PartitionAssumption ==
    /\ SubOf \in [Readers -> Subs]
    /\ Batches \subseteq Seq(Payloads)
    /\ ReadSizes \subseteq MachineInts
    /\ StoreMayFail \in BOOLEAN
    /\ MaxLog \in Nat /\ MaxLog <= MaxInt
    /\ Closer \notin Publishers /\ NoOne \notin Publishers /\ Closer # NoOne

\* The documented contract: a subscription has at most one reader.
SingleReader == \A r1, r2 \in Readers : SubOf[r1] = SubOf[r2] => r1 = r2

VARIABLES
    mu,         \* who holds Partition.mu
    log,        \* Partition.store
    closed,     \* Partition.closed
    subs,       \* Partition.subs, the registered subscriptions
    created,    \* the subscriptions that Subscribe has returned
    offset,     \* offset[s]: Subscription.offset
    ready,      \* ready[s]: the token in the channel Subscription.ready
    closes,     \* closes[s]: how often close(s.done) ran; twice is a panic
    ppc,        \* ppc[p]: "idle", "append" or "notify" in PublishBatch
    batch,      \* batch[p]: the argument payloads
    appended,   \* appended[p]: how many of them are in the log
    base,       \* base[p]: offset of the first
    todo,       \* todo[p]: subscriptions the wake-up loop has still to visit
    rpc,        \* rpc[r]: "idle", "check" (before the lock) or "wait" (select)
    rmax,       \* rmax[r]: the argument max, after max <= 0 became 1
    ctxDone,    \* ctxDone[r]: the context of the call is cancelled or expired
    ret,        \* ret[r]: how the last Read ended: "none", "msgs", "closed", "ctx"
    got,        \* history: got[s], all messages that reads of s returned
    acks        \* history: [base, batch] of every publish that returned nil

partitionVars == <<log, closed, subs, created, closes>>
subVars == <<offset, ready>>
publisherVars == <<ppc, batch, appended, base, todo>>
readerVars == <<rpc, rmax, ctxDone, ret>>
vars == <<mu, partitionVars, subVars, publisherVars, readerVars, got, acks>>

Unread(s) == offset[s] < Len(log)

\* Pieces of the operations.  Below some of them stands what a slip in the
\* code would make of it; only the mutation runs use those.

\* mu.Lock() succeeds, mu.Unlock().
LockIgnored == TRUE
LockFree == mu = NoOne
Unlock == mu' = NoOne

\* The check of closed in Publish, PublishBatch and Subscribe.
Accepting == ~closed

\* The channel done of s is closed, and closing it.
Done(s) == closes[s] > 0

DoneForgotten(s) == UNCHANGED closes
CloseDone(s) == closes' = [closes EXCEPT ![s] = @ + 1]

\* The two checks with which Read begins.
OpenUnchecked(s) == TRUE
Open(s) == ~Done(s) /\ ~closed

\* Whether unsubscribe has anything to do for s.
RegisteredOnce(s) == s \in created
Registered(s) == s \in subs

\* What PublishBatch keeps as the offset to return.
LastOffset(p) == NextOffset(log)
FirstOffset(p) == IF appended[p] = 0 THEN NextOffset(log) ELSE base[p]

\* What the wake-up loop still has to visit after s.
NoMoreToVisit(p, s) == {}
ToVisit(p, s) == todo[p] \ {s}

\* Where the cursor goes after reading msgs.
CursorByMax(r, msgs) == offset[SubOf[r]] + rmax[r]
NextCursor(r, msgs) == msgs[Len(msgs)].Offset + 1

Init ==
    /\ mu = NoOne
    /\ log = <<>>
    /\ closed = FALSE
    /\ subs = {}
    /\ created = {}
    /\ offset = [s \in Subs |-> 0]
    /\ ready = [s \in Subs |-> FALSE]
    /\ closes = [s \in Subs |-> 0]
    /\ ppc = [p \in Publishers |-> "idle"]
    /\ batch = [p \in Publishers |-> <<>>]
    /\ appended = [p \in Publishers |-> 0]
    /\ base = [p \in Publishers |-> 0]
    /\ todo = [p \in Publishers |-> {}]
    /\ rpc = [r \in Readers |-> "idle"]
    /\ rmax = [r \in Readers |-> 1]
    /\ ctxDone = [r \in Readers |-> FALSE]
    /\ ret = [r \in Readers |-> "none"]
    /\ got = [s \in Subs |-> <<>>]
    /\ acks = {}

-----------------------------------------------------------------------------
\* Publish and PublishBatch

\* The lock is taken, the partition is open and the batch is not empty.  (A
\* closed partition and an empty batch make the call return at once: nothing
\* changes.)
BeginPublish(p, b) ==
    /\ LockFree
    /\ ppc[p] = "idle"
    /\ Accepting
    /\ b # <<>>
    /\ Len(log) + Len(b) <= MaxLog
    /\ mu' = p
    /\ ppc' = [ppc EXCEPT ![p] = "append"]
    /\ batch' = [batch EXCEPT ![p] = b]
    /\ UNCHANGED <<partitionVars, subVars, appended, base, todo, readerVars,
                   got, acks>>

\* store.Append of the next payload; after the last one the wake-up loop
\* starts over the subscriptions registered at this moment.
AppendNext(p) ==
    /\ ppc[p] = "append"
    /\ log' = AppendMsg(log, batch[p][appended[p] + 1])
    /\ appended' = [appended EXCEPT ![p] = @ + 1]
    /\ base' = [base EXCEPT ![p] = FirstOffset(p)]
    /\ IF appended[p] + 1 = Len(batch[p])
       THEN /\ ppc' = [ppc EXCEPT ![p] = "notify"]
            /\ todo' = [todo EXCEPT ![p] = subs]
       ELSE UNCHANGED <<ppc, todo>>
    /\ UNCHANGED <<mu, closed, subs, created, closes, subVars, batch,
                   readerVars, got, acks>>

\* The call returns and the deferred Unlock runs.
FinishPublish(p) ==
    /\ Unlock
    /\ ppc' = [ppc EXCEPT ![p] = "idle"]
    /\ batch' = [batch EXCEPT ![p] = <<>>]
    /\ appended' = [appended EXCEPT ![p] = 0]
    /\ base' = [base EXCEPT ![p] = 0]
    /\ todo' = [todo EXCEPT ![p] = {}]
    /\ UNCHANGED <<partitionVars, subVars, readerVars, got>>

\* store.Append returns an error: so does the call, at once, and the payloads
\* appended before it stay in the log.
AppendFails(p) ==
    /\ ppc[p] = "append"
    /\ StoreMayFail
    /\ FinishPublish(p)
    /\ UNCHANGED acks

\* One turn of the wake-up loop: a non-blocking send to s.ready, dropped when
\* the token of an earlier publish is still there.
Signal(p, s) ==
    /\ ppc[p] = "notify"
    /\ s \in todo[p]
    /\ ready' = [ready EXCEPT ![s] = TRUE]
    /\ todo' = [todo EXCEPT ![p] = ToVisit(p, s)]
    /\ UNCHANGED <<mu, partitionVars, offset, ppc, batch, appended, base,
                   readerVars, got, acks>>

\* Every subscription has been visited: return the first offset.
ReturnPublish(p) ==
    /\ ppc[p] = "notify"
    /\ todo[p] = {}
    /\ FinishPublish(p)
    /\ acks' = acks \union {[base |-> base[p], batch |-> batch[p]]}

-----------------------------------------------------------------------------
\* Subscribe, Subscription.Close and Partition.close

Subscribe(s) ==
    /\ LockFree
    /\ s \notin created
    /\ Accepting
    /\ created' = created \union {s}
    /\ subs' = subs \union {s}
    /\ UNCHANGED <<mu, log, closed, closes, subVars, publisherVars, readerVars,
                   got, acks>>

\* Subscription.Close.  For a subscription no longer registered it does
\* nothing, which is what makes it idempotent.
Unsubscribe(s) ==
    /\ LockFree
    /\ s \in created
    /\ Registered(s)
    /\ subs' = subs \ {s}
    /\ CloseDone(s)
    /\ UNCHANGED <<mu, log, closed, created, subVars, publisherVars, readerVars,
                   got, acks>>

\* Partition.close on a partition not yet closed; otherwise it returns.
BeginClose ==
    /\ LockFree
    /\ ~closed
    /\ mu' = Closer
    /\ closed' = TRUE
    /\ UNCHANGED <<log, subs, created, closes, subVars, publisherVars, readerVars,
                   got, acks>>

\* One turn of its loop over the registered subscriptions.
CloseSub(s) ==
    /\ mu = Closer
    /\ s \in subs
    /\ CloseDone(s)
    /\ subs' = subs \ {s}
    /\ UNCHANGED <<mu, log, closed, created, subVars, publisherVars, readerVars,
                   got, acks>>

EndClose ==
    /\ mu = Closer
    /\ subs = {}
    /\ Unlock
    /\ UNCHANGED <<partitionVars, subVars, publisherVars, readerVars, got, acks>>

-----------------------------------------------------------------------------
\* Subscription.Read

StartRead(r, max) ==
    /\ rpc[r] = "idle"
    /\ SubOf[r] \in created
    /\ rpc' = [rpc EXCEPT ![r] = "check"]
    /\ rmax' = [rmax EXCEPT ![r] = IF max <= 0 THEN 1 ELSE max]
    /\ ret' = [ret EXCEPT ![r] = "none"]
    /\ ctxDone' = [ctxDone EXCEPT ![r] = FALSE]
    /\ UNCHANGED <<mu, partitionVars, subVars, publisherVars, got, acks>>

\* The context of the call is cancelled, or its deadline passes.
CancelCtx(r) ==
    /\ rpc[r] # "idle"
    /\ ~ctxDone[r]
    /\ ctxDone' = [ctxDone EXCEPT ![r] = TRUE]
    /\ UNCHANGED <<mu, partitionVars, subVars, publisherVars, rpc, rmax, ret,
                   got, acks>>

Return(r, how) ==
    /\ rpc' = [rpc EXCEPT ![r] = "idle"]
    /\ ret' = [ret EXCEPT ![r] = how]
    /\ UNCHANGED <<rmax, ctxDone>>

\* Under the lock: the subscription or the partition is closed.
CheckClosed(r) ==
    /\ rpc[r] = "check"
    /\ LockFree
    /\ ~Open(SubOf[r])
    /\ Return(r, "closed")
    /\ UNCHANGED <<mu, partitionVars, subVars, publisherVars, got, acks>>

\* Under the lock: there is something to read, and the cursor moves past it.
CheckData(r) ==
    LET s == SubOf[r]
        msgs == ReadMsgs(log, offset[s], rmax[r])
    IN  /\ rpc[r] = "check"
        /\ LockFree
        /\ Open(s)
        /\ msgs # <<>>
        /\ offset' = [offset EXCEPT ![s] = NextCursor(r, msgs)]
        /\ got' = [got EXCEPT ![s] = @ \o msgs]
        /\ Return(r, "msgs")
        /\ UNCHANGED <<mu, partitionVars, ready, publisherVars, acks>>

\* Under the lock: nothing to read.  The lock is released and select blocks.
CheckEmpty(r) ==
    LET s == SubOf[r]
    IN  /\ rpc[r] = "check"
        /\ LockFree
        /\ Open(s)
        /\ ReadMsgs(log, offset[s], rmax[r]) = <<>>
        /\ rpc' = [rpc EXCEPT ![r] = "wait"]
        /\ UNCHANGED <<mu, partitionVars, subVars, publisherVars, rmax, ctxDone,
                       ret, got, acks>>

\* The three cases of the select, chosen arbitrarily when several are ready.
WakeReady(r) ==
    LET s == SubOf[r]
    IN  /\ rpc[r] = "wait"
        /\ ready[s]
        /\ ready' = [ready EXCEPT ![s] = FALSE]
        /\ rpc' = [rpc EXCEPT ![r] = "check"]
        /\ UNCHANGED <<mu, partitionVars, offset, publisherVars, rmax, ctxDone,
                       ret, got, acks>>

WakeDone(r) ==
    /\ rpc[r] = "wait"
    /\ Done(SubOf[r])
    /\ Return(r, "closed")
    /\ UNCHANGED <<mu, partitionVars, subVars, publisherVars, got, acks>>

WakeCtx(r) ==
    /\ rpc[r] = "wait"
    /\ ctxDone[r]
    /\ Return(r, "ctx")
    /\ UNCHANGED <<mu, partitionVars, subVars, publisherVars, got, acks>>

-----------------------------------------------------------------------------

\* What a goroutine does on its own once it holds mu.
PublishStep(p) ==
    AppendNext(p) \/ AppendFails(p) \/ ReturnPublish(p) \/ \E s \in Subs : Signal(p, s)
CloseStep == EndClose \/ \E s \in Subs : CloseSub(s)

\* What a Read does on its own: its turn under mu, and its wake-up.
CheckStep(r) == CheckClosed(r) \/ CheckData(r) \/ CheckEmpty(r)
WakeStep(r) == WakeReady(r) \/ WakeDone(r) \/ WakeCtx(r)

Next ==
    \/ \E p \in Publishers :
          PublishStep(p) \/ \E b \in Batches : BeginPublish(p, b)
    \/ \E s \in Subs : Subscribe(s) \/ Unsubscribe(s)
    \/ BeginClose
    \/ CloseStep
    \/ \E r \in Readers :
          \/ CheckStep(r) \/ WakeStep(r) \/ CancelCtx(r)
          \/ \E max \in ReadSizes : StartRead(r, max)

Spec == Init /\ [][Next]_vars

\* A goroutine that holds the lock goes on, and a select whose case stays
\* ready takes it (weak fairness: the Go scheduler is preemptive and fair).  A
\* goroutine that wants mu gets it although others take it in between: the
\* starvation mode of sync.Mutex hands the lock to whoever waited for 1 ms
\* (strong fairness).  Nobody is obliged to publish, read, subscribe, cancel
\* or close.
Fairness ==
    /\ \A p \in Publishers : WF_vars(PublishStep(p))
    /\ WF_vars(CloseStep)
    /\ \A r \in Readers : WF_vars(WakeStep(r)) /\ SF_vars(CheckStep(r))

FairSpec == Spec /\ Fairness

=============================================================================

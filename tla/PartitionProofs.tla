-------------------------- MODULE PartitionProofs --------------------------
(***************************************************************************)
(* The safety of Partition.tla for any number of publishers, readers and   *)
(* subscriptions, any batches and any length of the log.  InductiveInv is  *)
(* shown to hold initially and to be preserved, one lemma per group of its *)
(* conjuncts, one step per action.                                         *)
(***************************************************************************)
EXTENDS PartitionProps, StoreProofs

-----------------------------------------------------------------------------
\* The inductive invariant

\* mu is held by the publisher that is inside PublishBatch, or by the closer;
\* a publisher that is not inside has nothing under way.
LockInv ==
    /\ \A p \in Publishers : ppc[p] # "idle" <=> mu = p
    /\ \A p \in Publishers : ppc[p] = "idle" => appended[p] = 0
    /\ mu = Closer => closed

\* Position in the log is offset, and the log stays within its bound.
LogInv ==
    /\ Len(log) <= MaxLog
    /\ \A i \in 1 .. Len(log) : log[i].Offset = i - 1

\* The part of a batch that was appended ends the log, in the batch's order,
\* behind everything any subscription has read and any publish was promised.
PublishInv ==
    \A p \in Publishers : ppc[p] # "idle" =>
        /\ batch[p] \in Batches /\ batch[p] # <<>>
        /\ appended[p] <= Len(batch[p])
        /\ ppc[p] = "append" => appended[p] < Len(batch[p])
        /\ ppc[p] = "notify" => appended[p] = Len(batch[p])
        /\ ~closed
        /\ appended[p] <= Len(log)
        /\ Len(log) - appended[p] + Len(batch[p]) <= MaxLog
        /\ appended[p] > 0 => base[p] = Len(log) - appended[p]
        /\ \A i \in 1 .. appended[p] :
              log[Len(log) - appended[p] + i].Payload = batch[p][i]
        /\ \A c \in acks : c.base + Len(c.batch) <= Len(log) - appended[p]
        /\ ppc[p] = "append" =>
              \A s \in Subs : offset[s] <= Len(log) - appended[p]

\* Only what Subscribe returned is registered, only what it returned is read,
\* and a read never asks for less than one message.
RegistryInv ==
    /\ subs \subseteq created
    /\ \A s \in Subs \ created : offset[s] = 0
    /\ \A r \in Readers : rpc[r] # "idle" => SubOf[r] \in created /\ rmax[r] > 0

\* Acknowledged batches are not empty: two of them never share a base.
AckInv == \A c \in acks : c.batch # <<>>

\* Somebody is about to put the token into ready[s].
WakeUnderWay(s) ==
    \E p \in Publishers : \/ ppc[p] = "append" /\ appended[p] > 0
                          \/ ppc[p] = "notify" /\ s \in todo[p]

\* A sleeping reader with something to read has its token or will get it.
WakeInv ==
    SingleReader /\ ~StoreMayFail =>
        \A r \in Readers :
            rpc[r] = "wait" /\ SubOf[r] \in subs /\ Unread(SubOf[r]) =>
                ready[SubOf[r]] \/ WakeUnderWay(SubOf[r])

\* All of it together is preserved by every step of the partition, and implies
\* the safety properties above: the argument why interleavings cannot matter.
InductiveInv ==
    /\ TypeOK
    /\ LockInv
    /\ LogInv
    /\ PublishInv
    /\ RegistryInv
    /\ DeliveredIsPrefix
    /\ AckInv
    /\ AckedBatchesAreContiguous
    /\ DoneClosedOnce
    /\ ClosedHasNoSubscribers
    /\ WakeInv

-----------------------------------------------------------------------------
\* It is inductive

\* The names of single checks and assignments stand for their definitions.
USE DEF LockFree, Unlock, Accepting, CloseDone, Open, Registered, FirstOffset,
        ToVisit, NextCursor

\* The initial states satisfy InductiveInv.
LEMMA InitInv == Init => InductiveInv
<1> SUFFICES ASSUME Init PROVE InductiveInv
  OBVIOUS
<1>1. <<>> \in Seq(Message) /\ <<>> \in Seq(Payloads) /\ Len(<<>>) = 0
  OBVIOUS
<1>2. 1 \in MachineInts
  BY StoreAssumption DEF MachineInts
<1>3. TypeOK
  BY <1>1, <1>2 DEF Init, TypeOK
<1>4. LockInv /\ LogInv /\ PublishInv
  BY <1>1, PartitionAssumption DEF Init, LockInv, LogInv, PublishInv
<1>5. DeliveredIsPrefix
  BY <1>1, SubSeqEmpty DEF Init, DeliveredIsPrefix
<1>6. /\ RegistryInv /\ AckInv /\ AckedBatchesAreContiguous
      /\ DoneClosedOnce /\ ClosedHasNoSubscribers /\ WakeInv
  BY DEF Init, RegistryInv, AckInv, AckedBatchesAreContiguous,
         DoneClosedOnce, ClosedHasNoSubscribers, WakeInv
<1>7. QED
  BY <1>3, <1>4, <1>5, <1>6 DEF InductiveInv

-----------------------------------------------------------------------------
\* What the steps that touch the log do to it

\* Append puts the next payload of the batch behind the log.
LEMMA AppendNextEffect ==
    ASSUME InductiveInv, NEW p \in Publishers, AppendNext(p)
    PROVE  /\ mu = p
           /\ batch[p] \in Seq(Payloads) /\ Len(batch[p]) \in Nat
           /\ appended[p] \in Nat /\ appended[p] + 1 <= Len(batch[p])
           /\ Len(log) \in Nat /\ Len(log) + 1 <= MaxLog
           /\ log' \in Seq(Message)
           /\ Len(log') = Len(log) + 1
           /\ \A i \in 1 .. Len(log) : log'[i] = log[i]
           /\ log'[Len(log) + 1] = [Offset |-> Len(log),
                                    Payload |-> batch[p][appended[p] + 1]]
<1>1. /\ ppc[p] = "append" /\ mu = p
      /\ log' = AppendMsg(log, batch[p][appended[p] + 1])
  BY DEF AppendNext, InductiveInv, LockInv
<1>2. /\ batch[p] \in Seq(Payloads) /\ appended[p] \in Nat
      /\ log \in Seq(Message)
  BY DEF InductiveInv, TypeOK
<1>3. Len(batch[p]) \in Nat /\ Len(log) \in Nat
  BY <1>2, LenProperties
<1>4. /\ appended[p] < Len(batch[p])
      /\ Len(log) - appended[p] + Len(batch[p]) <= MaxLog
  BY <1>1 DEF InductiveInv, PublishInv
<1>5. appended[p] + 1 \in 1 .. Len(batch[p]) /\ Len(log) + 1 <= MaxLog
  BY <1>2, <1>3, <1>4, PartitionAssumption
<1>6. batch[p][appended[p] + 1] \in Payloads
  BY <1>2, <1>5, ElementOfSeq
<1>7. QED
  BY <1>1, <1>2, <1>3, <1>5, <1>6, AppendMsgProperties

\* A log longer at its end has the same beginning.
LEMMA SamePrefix ==
    ASSUME NEW S, NEW m \in Seq(S), NEW n \in Seq(S), NEW k \in Nat,
           k <= Len(m), k <= Len(n), \A i \in 1 .. k : m[i] = n[i]
    PROVE  SubSeq(m, 1, k) = SubSeq(n, 1, k)
<1>1. Len(m) \in Nat /\ Len(n) \in Nat
  BY LenProperties
<1>2. \A i \in 1 .. k : m[i] \in S /\ n[i] \in S
  BY <1>1, ElementOfSeq
<1>3. /\ SubSeq(m, 1, k) \in Seq(S) /\ SubSeq(n, 1, k) \in Seq(S)
      /\ Len(SubSeq(m, 1, k)) = k /\ Len(SubSeq(n, 1, k)) = k
      /\ \A i \in 1 .. k : SubSeq(m, 1, k)[i] = m[i] /\ SubSeq(n, 1, k)[i] = n[i]
  BY <1>2, SubSeqProperties
<1>4. QED
  BY <1>3, SeqEqual

\* A successful read moves the cursor from offset[s] to some end within the
\* log, and what it returns is the stretch in between.
LEMMA CheckDataEffect ==
    ASSUME InductiveInv, NEW r \in Readers, CheckData(r)
    PROVE  LET s == SubOf[r]
           IN  /\ s \in Subs
               /\ \E end \in Nat :
                     /\ end <= Len(log) /\ offset[s] < end
                     /\ offset' = [offset EXCEPT ![s] = end]
                     /\ got' = [got EXCEPT ![s] = SubSeq(log, 1, end)]
                     /\ SubSeq(log, 1, end) \in Seq(Message)
<1> DEFINE s == SubOf[r]
           msgs == ReadMsgs(log, offset[s], rmax[r])
           end == ReadEnd(log, offset[s], rmax[r])
<1>1. /\ s \in Subs /\ log \in Seq(Message) /\ offset[s] \in Nat
      /\ rmax[r] \in MachineInts
  BY PartitionAssumption DEF InductiveInv, TypeOK
<1>2. Len(log) \in Nat /\ Len(log) <= MaxInt
  BY <1>1, LenProperties, PartitionAssumption, StoreAssumption DEF InductiveInv, LogInv
<1>3. /\ offset[s] <= Len(log) /\ got[s] = SubSeq(log, 1, offset[s])
      /\ \A i \in 1 .. Len(log) : log[i].Offset = i - 1
  BY <1>1 DEF InductiveInv, DeliveredIsPrefix, LogInv
<1>4. offset[s] \in MachineInts
  BY <1>1, <1>2, <1>3, StoreAssumption DEF MachineInts
<1>5. /\ msgs # <<>>
      /\ offset' = [offset EXCEPT ![s] = msgs[Len(msgs)].Offset + 1]
      /\ got' = [got EXCEPT ![s] = got[s] \o msgs]
  BY DEF CheckData
<1>6. ~(offset[s] < 0 \/ offset[s] >= Len(log) \/ rmax[r] <= 0)
  BY <1>1, <1>2, <1>4, <1>5, ReadMsgsProperties
<1>7. /\ end \in offset[s] + 1 .. Len(log)
      /\ msgs = SubSeq(log, offset[s] + 1, end)
      /\ Len(msgs) = end - offset[s]
      /\ \A k \in 1 .. end - offset[s] : msgs[k] = log[offset[s] + k]
  BY <1>1, <1>2, <1>4, <1>6, ReadMsgsProperties
<1> HIDE DEF msgs, end
<1>8. /\ end \in Nat /\ end <= Len(log) /\ offset[s] < end
      /\ Len(msgs) \in 1 .. end - offset[s]
      /\ offset[s] + (end - offset[s]) = end
  <2>1. \A i, j, l \in Nat : i \in j + 1 .. l =>
           i \in Nat /\ i <= l /\ j < i /\ i - j \in 1 .. i - j /\ j + (i - j) = i
    OBVIOUS
  <2>2. /\ end \in offset[s] + 1 .. Len(log) /\ Len(msgs) = end - offset[s]
        /\ offset[s] \in Nat /\ Len(log) \in Nat
    BY <1>1, <1>2, <1>7
  <2>3. end \in Nat
    BY <2>2
  <2>4. QED
    BY <2>1, <2>2, <2>3
<1>9. msgs[Len(msgs)] = log[end]
  BY <1>7, <1>8
<1>10. msgs[Len(msgs)].Offset + 1 = end
  <2>1. log[end].Offset = end - 1
    BY <1>1, <1>2, <1>3, <1>8
  <2>2. QED
    BY <1>8, <1>9, <2>1
<1>11. got[s] \o msgs = SubSeq(log, 1, end)
  <2>1. /\ 1 \in 1 .. Len(log) + 1
        /\ offset[s] \in 1 - 1 .. Len(log)
        /\ end \in offset[s] .. Len(log)
    BY <1>1, <1>2, <1>3, <1>8
  <2>2. SubSeq(log, 1, offset[s]) \o SubSeq(log, offset[s] + 1, end)
           = SubSeq(log, 1, end)
    BY <1>1, <2>1, ConcatAdjacentSubSeq
  <2>3. QED
    BY <1>3, <1>7, <2>2
<1>12. SubSeq(log, 1, end) \in Seq(Message)
  <2>1. \A i \in 1 .. end : log[i] \in Message
    BY <1>1, <1>2, <1>8, ElementOfSeq
  <2>2. QED
    BY <1>8, <2>1, SubSeqProperties
<1>13. QED
  BY <1>1, <1>5, <1>8, <1>10, <1>11, <1>12

\* A read that finds nothing has seen the whole log.
LEMMA CheckEmptyEffect ==
    ASSUME InductiveInv, NEW r \in Readers, CheckEmpty(r)
    PROVE  ~Unread(SubOf[r])
<1> DEFINE s == SubOf[r]
<1>1. /\ s \in Subs /\ log \in Seq(Message) /\ offset[s] \in Nat
      /\ rmax[r] \in MachineInts /\ rmax[r] > 0
  BY PartitionAssumption DEF InductiveInv, TypeOK, RegistryInv, CheckEmpty
<1>2. Len(log) \in Nat /\ Len(log) <= MaxInt /\ offset[s] <= Len(log)
  BY <1>1, LenProperties, PartitionAssumption, StoreAssumption
     DEF InductiveInv, LogInv, DeliveredIsPrefix
<1>3. offset[s] \in MachineInts
  BY <1>1, <1>2, StoreAssumption DEF MachineInts
<1>4. ReadMsgs(log, offset[s], rmax[r]) = <<>>
  BY DEF CheckEmpty
<1>5. CASE offset[s] < Len(log)
  <2>1. ~(offset[s] < 0 \/ offset[s] >= Len(log) \/ rmax[r] <= 0)
    BY <1>1, <1>2, <1>5, StoreAssumption DEF MachineInts
  <2>2. PICK end \in offset[s] + 1 .. Len(log) :
           Len(ReadMsgs(log, offset[s], rmax[r])) = end - offset[s]
    BY <1>1, <1>2, <1>3, <2>1, ReadMsgsProperties
  <2>3. Len(ReadMsgs(log, offset[s], rmax[r])) > 0
    BY <1>1, <1>2, <2>2
  <2>4. QED
    BY <1>4, <2>3
<1>6. QED
  BY <1>5 DEF Unread

-----------------------------------------------------------------------------
\* One lemma per conjunct of the invariant

\* Every step leaves every variable a value of its type.
LEMMA TypeStep == InductiveInv /\ [Next]_vars => TypeOK'
<1> SUFFICES ASSUME InductiveInv, [Next]_vars PROVE TypeOK'
  OBVIOUS
<1>1. TypeOK
  BY DEF InductiveInv
<1> USE <1>1 DEF TypeOK, partitionVars, subVars, publisherVars, readerVars
<1>2. CASE UNCHANGED vars
  BY <1>2 DEF vars
<1>3. ASSUME NEW p \in Publishers, NEW b \in Batches, BeginPublish(p, b)
      PROVE TypeOK'
  <2>1. b \in Seq(Payloads)
    BY PartitionAssumption
  <2>2. batch' \in [Publishers -> Seq(Payloads)]
    BY <1>3, <2>1 DEF BeginPublish
  <2>3. /\ mu' \in Publishers \union {Closer, NoOne}
        /\ ppc' \in [Publishers -> {"idle", "append", "notify"}]
    BY <1>3 DEF BeginPublish
  <2>4. UNCHANGED <<log, closed, subs, created, closes, offset, ready, appended,
                    base, todo, rpc, rmax, ctxDone, ret, got, acks>>
    BY <1>3 DEF BeginPublish
  <2>5. QED
    BY <2>2, <2>3, <2>4
<1>4. ASSUME NEW p \in Publishers, AppendNext(p) PROVE TypeOK'
  <2>1. log' \in Seq(Message) /\ Len(log) \in Nat
    BY <1>4, AppendNextEffect
  <2>2. UNCHANGED <<mu, closed, subs, created, closes, offset, ready, batch,
                    rpc, rmax, ctxDone, ret, got, acks>>
    BY <1>4 DEF AppendNext
  <2>3. ppc' \in [Publishers -> {"idle", "append", "notify"}]
    BY <1>4 DEF AppendNext
  <2>4. appended' \in [Publishers -> Nat] /\ base' \in [Publishers -> Nat]
    BY <1>4, <2>1 DEF AppendNext, NextOffset
  <2>5. todo' \in [Publishers -> SUBSET Subs]
    BY <1>4 DEF AppendNext
  <2>6. QED
    BY <2>1, <2>2, <2>3, <2>4, <2>5
<1>5. ASSUME NEW p \in Publishers, FinishPublish(p),
             acks' \subseteq [base : Nat, batch : Seq(Payloads)]
      PROVE TypeOK'
  <2>1. <<>> \in Seq(Payloads)
    OBVIOUS
  <2>2. QED
    BY <1>5, <2>1 DEF FinishPublish
<1>6. ASSUME NEW p \in Publishers, AppendFails(p) PROVE TypeOK'
  BY <1>5, <1>6 DEF AppendFails
<1>7. ASSUME NEW p \in Publishers, NEW s \in Subs, Signal(p, s) PROVE TypeOK'
  BY <1>7 DEF Signal
<1>8. ASSUME NEW p \in Publishers, ReturnPublish(p) PROVE TypeOK'
  <2>1. [base |-> base[p], batch |-> batch[p]] \in [base : Nat, batch : Seq(Payloads)]
    OBVIOUS
  <2>2. acks' \subseteq [base : Nat, batch : Seq(Payloads)]
    BY <1>8, <2>1 DEF ReturnPublish
  <2>3. QED
    BY <1>5, <1>8, <2>2 DEF ReturnPublish
<1>9. ASSUME NEW s \in Subs, Subscribe(s) PROVE TypeOK'
  BY <1>9 DEF Subscribe
<1>10. ASSUME NEW s \in Subs, Unsubscribe(s) PROVE TypeOK'
  BY <1>10 DEF Unsubscribe
<1>11. CASE BeginClose
  BY <1>11 DEF BeginClose
<1>12. ASSUME NEW s \in Subs, CloseSub(s) PROVE TypeOK'
  BY <1>12 DEF CloseSub
<1>13. CASE EndClose
  BY <1>13 DEF EndClose
<1>14. ASSUME NEW r \in Readers, NEW max \in ReadSizes, StartRead(r, max)
       PROVE TypeOK'
  <2>1. max \in MachineInts /\ 1 \in MachineInts
    BY PartitionAssumption, StoreAssumption DEF MachineInts
  <2>2. QED
    BY <1>14, <2>1 DEF StartRead
<1>15. ASSUME NEW r \in Readers, CancelCtx(r) PROVE TypeOK'
  BY <1>15 DEF CancelCtx
<1>16. ASSUME NEW r \in Readers, CheckClosed(r) PROVE TypeOK'
  BY <1>16 DEF CheckClosed, Return
<1>17. ASSUME NEW r \in Readers, CheckData(r) PROVE TypeOK'
  <2>1. offset' \in [Subs -> Nat] /\ got' \in [Subs -> Seq(Message)]
    BY <1>17, CheckDataEffect
  <2>2. QED
    BY <1>17, <2>1 DEF CheckData, Return
<1>18. ASSUME NEW r \in Readers, CheckEmpty(r) PROVE TypeOK'
  BY <1>18 DEF CheckEmpty
<1>19. ASSUME NEW r \in Readers, WakeReady(r) PROVE TypeOK'
  BY <1>19 DEF WakeReady
<1>20. ASSUME NEW r \in Readers, WakeDone(r) PROVE TypeOK'
  BY <1>20 DEF WakeDone, Return
<1>21. ASSUME NEW r \in Readers, WakeCtx(r) PROVE TypeOK'
  BY <1>21 DEF WakeCtx, Return
<1>22. QED
  BY <1>2, <1>3, <1>4, <1>6, <1>7, <1>8, <1>9, <1>10, <1>11, <1>12, <1>13,
     <1>14, <1>15, <1>16, <1>17, <1>18, <1>19, <1>20, <1>21
     DEF Next, PublishStep, CloseStep, CheckStep, WakeStep

\* Only the holder of the lock is inside a critical section.
LEMMA LockStep == InductiveInv /\ [Next]_vars => LockInv'
<1> SUFFICES ASSUME InductiveInv, [Next]_vars PROVE LockInv'
  OBVIOUS
<1>1. TypeOK /\ LockInv
  BY DEF InductiveInv
<1> USE <1>1, PartitionAssumption DEF TypeOK, LockInv
<1>2. ASSUME UNCHANGED <<mu, ppc, closed, appended>> PROVE LockInv'
  BY <1>2
<1>3. ASSUME NEW p \in Publishers, NEW b \in Batches, BeginPublish(p, b)
      PROVE LockInv'
  BY <1>3 DEF BeginPublish, partitionVars
<1>4. ASSUME NEW p \in Publishers, AppendNext(p) PROVE LockInv'
  BY <1>4 DEF AppendNext
<1>5. ASSUME NEW p \in Publishers, ppc[p] # "idle", FinishPublish(p) PROVE LockInv'
  BY <1>5 DEF FinishPublish, partitionVars
<1>6. ASSUME NEW p \in Publishers, AppendFails(p) \/ ReturnPublish(p) PROVE LockInv'
  BY <1>5, <1>6 DEF AppendFails, ReturnPublish
<1>7. CASE BeginClose
  BY <1>7 DEF BeginClose, publisherVars
<1>8. CASE EndClose
  BY <1>8 DEF EndClose, publisherVars, partitionVars
<1>9. QED
  BY <1>2, <1>3, <1>4, <1>6, <1>7, <1>8
     DEF Next, PublishStep, CloseStep, CheckStep, WakeStep, vars, partitionVars,
         publisherVars, Signal, Subscribe, Unsubscribe, CloseSub, StartRead,
         CancelCtx, CheckClosed, CheckData, CheckEmpty, WakeReady, WakeDone, WakeCtx

\* The log stays within its bound and offsets stay indices.
LEMMA LogStep == InductiveInv /\ [Next]_vars => LogInv'
<1> SUFFICES ASSUME InductiveInv, [Next]_vars PROVE LogInv'
  OBVIOUS
<1>1. LogInv
  BY DEF InductiveInv
<1>2. CASE UNCHANGED log
  BY <1>1, <1>2 DEF LogInv
<1>3. ASSUME NEW p \in Publishers, AppendNext(p) PROVE LogInv'
  <2>1. /\ Len(log) \in Nat /\ Len(log) + 1 <= MaxLog
        /\ Len(log') = Len(log) + 1
        /\ \A i \in 1 .. Len(log) : log'[i] = log[i]
        /\ log'[Len(log) + 1] = [Offset |-> Len(log),
                                 Payload |-> batch[p][appended[p] + 1]]
    BY <1>3, AppendNextEffect
  <2>2. \A i \in 1 .. Len(log) + 1 : log'[i].Offset = i - 1
    BY <1>1, <2>1 DEF LogInv
  <2>3. QED
    BY <2>1, <2>2 DEF LogInv
<1>4. QED
  BY <1>2, <1>3
     DEF Next, PublishStep, CloseStep, CheckStep, WakeStep, vars, partitionVars,
         BeginPublish, AppendFails, ReturnPublish, FinishPublish, Signal,
         Subscribe, Unsubscribe, BeginClose, CloseSub, EndClose, StartRead,
         CancelCtx, CheckClosed, CheckData, CheckEmpty, WakeReady, WakeDone, WakeCtx

\* Registered implies created; done is closed exactly when a subscription
\* leaves the registry; a closed and unlocked partition has no subscriptions.
LEMMA RegistryStep ==
    InductiveInv /\ [Next]_vars =>
        RegistryInv' /\ DoneClosedOnce' /\ ClosedHasNoSubscribers'
<1> SUFFICES ASSUME InductiveInv, [Next]_vars
             PROVE  RegistryInv' /\ DoneClosedOnce' /\ ClosedHasNoSubscribers'
  OBVIOUS
<1> DEFINE Goal == RegistryInv /\ DoneClosedOnce /\ ClosedHasNoSubscribers
<1>1. TypeOK /\ LockInv /\ Goal
  BY DEF InductiveInv
<1> USE <1>1, PartitionAssumption
<1>2. ASSUME UNCHANGED <<subs, created, closes, closed, offset, rpc, rmax, mu>>
      PROVE  Goal'
  BY <1>2 DEF RegistryInv, DoneClosedOnce, ClosedHasNoSubscribers
<1>3. ASSUME UNCHANGED <<subs, created, closes, offset, rpc, rmax, closed>>,
             mu # Closer \/ subs = {}
      PROVE  Goal'
  BY <1>3 DEF RegistryInv, DoneClosedOnce, ClosedHasNoSubscribers
<1>4. ASSUME UNCHANGED <<subs, created, closes, offset, rpc, rmax, closed>>,
             mu = NoOne
      PROVE  Goal'
  BY <1>3, <1>4
<1>5. ASSUME NEW p \in Publishers, PublishStep(p) PROVE Goal'
  <2>1. mu # Closer
    BY <1>5 DEF PublishStep, AppendNext, AppendFails, ReturnPublish, Signal, LockInv
  <2>2. QED
    BY <1>3, <1>5, <2>1
       DEF PublishStep, AppendNext, AppendFails, ReturnPublish, FinishPublish,
           Signal, partitionVars, subVars, readerVars
<1>6. ASSUME NEW s \in Subs, Subscribe(s) PROVE Goal'
  <2>1. RegistryInv'
    BY <1>6 DEF Subscribe, subVars, readerVars, RegistryInv
  <2>2. DoneClosedOnce' /\ ClosedHasNoSubscribers'
    BY <1>6 DEF Subscribe, DoneClosedOnce, ClosedHasNoSubscribers, RegistryInv
  <2>3. QED
    BY <2>1, <2>2
<1>7. ASSUME NEW s \in Subs, s \in subs,
             subs' = subs \ {s}, closes' = [closes EXCEPT ![s] = @ + 1],
             UNCHANGED <<created, closed, offset, rpc, rmax, mu>>
      PROVE  Goal'
  <2>1. RegistryInv'
    BY <1>7 DEF RegistryInv
  <2>2. DoneClosedOnce'
    BY <1>7 DEF DoneClosedOnce, RegistryInv, TypeOK
  <2>3. ClosedHasNoSubscribers'
    BY <1>7 DEF ClosedHasNoSubscribers
  <2>4. QED
    BY <2>1, <2>2, <2>3
<1>8. ASSUME NEW s \in Subs, Unsubscribe(s) \/ CloseSub(s) PROVE Goal'
  BY <1>7, <1>8 DEF Unsubscribe, CloseSub, subVars, readerVars
<1>9. CASE BeginClose
  BY <1>9 DEF BeginClose, subVars, readerVars, RegistryInv, DoneClosedOnce,
              ClosedHasNoSubscribers
<1>10. CASE EndClose
  BY <1>3, <1>10 DEF EndClose, partitionVars, subVars, readerVars
<1>11. ASSUME NEW r \in Readers, NEW max \in ReadSizes, StartRead(r, max)
       PROVE  Goal'
  <2>1. SubOf[r] \in created /\ rmax' = [rmax EXCEPT ![r] = IF max <= 0 THEN 1 ELSE max]
    BY <1>11 DEF StartRead
  <2>2. max \in Int
    BY StoreAssumption DEF MachineInts
  <2>3. \A q \in Readers : rpc'[q] # "idle" => SubOf[q] \in created' /\ rmax'[q] > 0
    BY <1>11, <2>1, <2>2 DEF StartRead, RegistryInv, TypeOK, partitionVars
  <2>4. RegistryInv'
    BY <1>11, <2>3 DEF StartRead, RegistryInv, partitionVars, subVars
  <2>5. QED
    BY <1>11, <2>4 DEF StartRead, DoneClosedOnce, ClosedHasNoSubscribers, partitionVars
<1>12. ASSUME NEW r \in Readers, CheckData(r) PROVE Goal'
  <2>1. SubOf[r] \in created
    BY <1>12 DEF CheckData, RegistryInv
  <2>2. \A s \in Subs \ created : offset'[s] = 0
    BY <1>12, <2>1 DEF CheckData, RegistryInv, TypeOK
  <2>3. RegistryInv'
    BY <1>12, <2>2 DEF CheckData, Return, RegistryInv, TypeOK, partitionVars
  <2>4. QED
    BY <1>12, <2>3 DEF CheckData, DoneClosedOnce, ClosedHasNoSubscribers, partitionVars
<1>13. ASSUME NEW r \in Readers,
              UNCHANGED <<subs, created, closes, closed, offset, rmax, mu>>,
              \/ rpc' = rpc
              \/ rpc[r] # "idle" /\ \E pc : rpc' = [rpc EXCEPT ![r] = pc]
       PROVE  Goal'
  <2>1. RegistryInv'
    BY <1>13 DEF RegistryInv, TypeOK
  <2>2. QED
    BY <1>13, <2>1 DEF DoneClosedOnce, ClosedHasNoSubscribers
<1>14. ASSUME NEW r \in Readers, CancelCtx(r) \/ WakeStep(r) \/ CheckClosed(r) \/ CheckEmpty(r)
       PROVE  Goal'
  <2>1. UNCHANGED <<subs, created, closes, closed, offset, rmax, mu>>
    BY <1>14 DEF CancelCtx, WakeStep, WakeReady, WakeDone, WakeCtx, CheckClosed,
                 CheckEmpty, Return, partitionVars, subVars
  <2>2. \/ rpc' = rpc
        \/ rpc[r] # "idle" /\ \E pc : rpc' = [rpc EXCEPT ![r] = pc]
    BY <1>14 DEF CancelCtx, WakeStep, WakeReady, WakeDone, WakeCtx, CheckClosed,
                 CheckEmpty, Return
  <2>3. QED
    BY <1>13, <2>1, <2>2
<1>15. ASSUME NEW p \in Publishers, NEW b \in Batches, BeginPublish(p, b)
       PROVE  Goal'
  BY <1>4, <1>15 DEF BeginPublish, partitionVars, subVars, readerVars
<1>16. CASE UNCHANGED vars
  BY <1>2, <1>16 DEF vars, partitionVars, subVars, readerVars
<1>17. QED
  BY <1>5, <1>6, <1>8, <1>9, <1>10, <1>11, <1>12, <1>14, <1>15, <1>16
     DEF Next, CloseStep, CheckStep

\* What was delivered stays the log up to the cursor: appends leave the read
\* part of the log alone, and a read extends it by the stretch it returns.
LEMMA DeliveredStep == InductiveInv /\ [Next]_vars => DeliveredIsPrefix'
<1> SUFFICES ASSUME InductiveInv, [Next]_vars PROVE DeliveredIsPrefix'
  OBVIOUS
<1>1. TypeOK /\ DeliveredIsPrefix
  BY DEF InductiveInv
<1>2. CASE UNCHANGED <<log, offset, got>>
  BY <1>1, <1>2 DEF DeliveredIsPrefix
<1>3. ASSUME NEW p \in Publishers, AppendNext(p) PROVE DeliveredIsPrefix'
  <2>1. UNCHANGED <<offset, got>>
    BY <1>3 DEF AppendNext, subVars
  <2>2. ASSUME NEW s \in Subs
        PROVE  offset[s] <= Len(log') /\ got[s] = SubSeq(log', 1, offset[s])
    <3>1. /\ offset[s] \in Nat /\ Len(log) \in Nat /\ offset[s] <= Len(log)
          /\ log \in Seq(Message) /\ log' \in Seq(Message)
          /\ Len(log') = Len(log) + 1
          /\ \A i \in 1 .. Len(log) : log'[i] = log[i]
      BY <1>1, <1>3, AppendNextEffect DEF TypeOK, DeliveredIsPrefix
    <3>2. offset[s] <= Len(log') /\ \A i \in 1 .. offset[s] : log[i] = log'[i]
      BY <3>1
    <3>3. SubSeq(log, 1, offset[s]) = SubSeq(log', 1, offset[s])
      BY <3>1, <3>2, SamePrefix
    <3>4. QED
      BY <1>1, <3>2, <3>3 DEF DeliveredIsPrefix
  <2>3. QED
    BY <2>1, <2>2 DEF DeliveredIsPrefix
<1>4. ASSUME NEW r \in Readers, CheckData(r) PROVE DeliveredIsPrefix'
  <2>1. PICK end \in Nat :
           /\ end <= Len(log)
           /\ offset' = [offset EXCEPT ![SubOf[r]] = end]
           /\ got' = [got EXCEPT ![SubOf[r]] = SubSeq(log, 1, end)]
    BY <1>4, CheckDataEffect
  <2>2. log' = log
    BY <1>4 DEF CheckData, partitionVars
  <2>3. QED
    BY <1>1, <2>1, <2>2 DEF TypeOK, DeliveredIsPrefix
<1>5. QED
  BY <1>2, <1>3, <1>4
     DEF Next, PublishStep, CloseStep, CheckStep, WakeStep, vars, partitionVars,
         subVars, BeginPublish, AppendFails, ReturnPublish, FinishPublish, Signal,
         Subscribe, Unsubscribe, BeginClose, CloseSub, EndClose, StartRead,
         CancelCtx, CheckClosed, CheckEmpty, WakeReady, WakeDone, WakeCtx

\* The part of a batch in the log ends the log, and only its publisher moves it.
LEMMA PublishInvStep == InductiveInv /\ [Next]_vars => PublishInv'
<1> SUFFICES ASSUME InductiveInv, [Next]_vars PROVE PublishInv'
  OBVIOUS
<1>1. TypeOK /\ LockInv /\ PublishInv /\ DeliveredIsPrefix
  BY DEF InductiveInv
<1>2. CASE UNCHANGED <<ppc, batch, appended, base, log, closed, offset, acks>>
  BY <1>1, <1>2 DEF PublishInv
<1>3. ASSUME NEW p \in Publishers, NEW b \in Batches, BeginPublish(p, b)
      PROVE  PublishInv'
  <2>1. \A q \in Publishers : q # p => ppc'[q] = "idle"
    BY <1>1, <1>3, PartitionAssumption DEF BeginPublish, TypeOK, LockInv
  <2>2. /\ ppc'[p] = "append" /\ batch'[p] = b /\ b # <<>> /\ ~closed'
        /\ UNCHANGED <<appended, log, closed, offset, acks>>
        /\ Len(log) + Len(b) <= MaxLog
    BY <1>1, <1>3 DEF BeginPublish, TypeOK, partitionVars, subVars
  <2>3. appended[p] = 0
    BY <1>1, <1>3 DEF BeginPublish, LockInv
  <2>4. b \in Seq(Payloads) /\ Len(b) \in Nat /\ Len(b) > 0 /\ Len(log) \in Nat
    BY <1>1, <2>2, PartitionAssumption, EmptySeq, LenProperties DEF TypeOK
  <2>5. /\ appended'[p] = 0 /\ 0 < Len(batch'[p]) /\ batch'[p] \in Batches
        /\ Len(log') = Len(log) /\ Len(log) - 0 + Len(b) <= MaxLog
    BY <2>2, <2>3, <2>4, PartitionAssumption
  <2>6. /\ \A c \in acks' : c.base + Len(c.batch) <= Len(log') - 0
        /\ \A s \in Subs : offset'[s] <= Len(log') - 0
    BY <1>1, <2>2, <2>4 DEF InductiveInv, AckedBatchesAreContiguous,
                            DeliveredIsPrefix
  <2>7. QED
    BY <2>1, <2>2, <2>4, <2>5, <2>6 DEF PublishInv
<1>4. ASSUME NEW p \in Publishers, AppendNext(p) PROVE PublishInv'
  <2>1. \A q \in Publishers : q # p => ppc'[q] = "idle"
    BY <1>1, <1>4 DEF AppendNext, TypeOK, LockInv
  <2> DEFINE n == appended[p]
             b == batch[p]
             l == Len(log)
  <2>2. /\ ppc[p] = "append" /\ batch' = batch /\ n \in Nat /\ l \in Nat
        /\ b \in Batches /\ b # <<>> /\ Len(b) \in Nat /\ n < Len(b)
        /\ appended'[p] = n + 1
        /\ base'[p] = IF n = 0 THEN l ELSE base[p]
        /\ ppc'[p] = IF n + 1 = Len(b) THEN "notify" ELSE "append"
        /\ UNCHANGED <<closed, offset, acks>> /\ ~closed
        /\ n <= l /\ l - n + Len(b) <= MaxLog
        /\ n > 0 => base[p] = l - n
    BY <1>1, <1>4, AppendNextEffect DEF AppendNext, subVars, NextOffset, TypeOK, PublishInv
  <2>3. /\ Len(log') = l + 1
        /\ \A i \in 1 .. l : log'[i] = log[i]
        /\ log'[l + 1] = [Offset |-> l, Payload |-> b[n + 1]]
    BY <1>4, AppendNextEffect
  <2>4. Len(log') - (n + 1) = l - n
    BY <2>2, <2>3, SMTT(30)
  <2>5. \A i \in 1 .. n + 1 : log'[l - n + i].Payload = b[i]
    <3>1. ASSUME NEW i \in 1 .. n PROVE log'[l - n + i].Payload = b[i]
      <4>1. l - n + i \in 1 .. l
        BY <2>2
      <4>2. log[l - n + i].Payload = b[i]
        BY <1>1, <2>2 DEF PublishInv
      <4>3. QED
        BY <2>2, <2>3, <4>1, <4>2
    <3>2. log'[l - n + (n + 1)].Payload = b[n + 1]
      <4>1. l - n + (n + 1) = l + 1
        BY <2>2
      <4>2. QED
        BY <2>3, <4>1
    <3>3. \A i \in 1 .. n + 1 : i \in 1 .. n \/ i = n + 1
      BY <2>2
    <3>4. QED
      BY <3>1, <3>2, <3>3
  <2>6. \A c \in acks' : c.base + Len(c.batch) <= l - n
    BY <1>1, <2>2 DEF PublishInv
  <2>7. \A s \in Subs : offset'[s] <= l - n
    BY <1>1, <2>2 DEF PublishInv
  <2> HIDE DEF n, b, l
  <2>8. /\ batch'[p] \in Batches /\ batch'[p] # <<>>
        /\ appended'[p] <= Len(batch'[p])
        /\ ppc'[p] = "append" => appended'[p] < Len(batch'[p])
        /\ ppc'[p] = "notify" => appended'[p] = Len(batch'[p])
        /\ ~closed'
        /\ appended'[p] <= Len(log')
        /\ Len(log') - appended'[p] + Len(batch'[p]) <= MaxLog
        /\ appended'[p] > 0 => base'[p] = Len(log') - appended'[p]
    BY <2>2, <2>3, <2>4 DEF b
  <2>9. /\ \A i \in 1 .. appended'[p] :
              log'[Len(log') - appended'[p] + i].Payload = batch'[p][i]
        /\ \A c \in acks' : c.base + Len(c.batch) <= Len(log') - appended'[p]
        /\ ppc'[p] = "append" =>
              \A s \in Subs : offset'[s] <= Len(log') - appended'[p]
    BY <2>2, <2>4, <2>5, <2>6, <2>7 DEF b
  <2>10. QED
    BY <2>1, <2>8, <2>9 DEF PublishInv
<1>5. ASSUME NEW p \in Publishers, FinishPublish(p), ppc[p] # "idle"
      PROVE  PublishInv'
  <2>1. \A q \in Publishers : ppc'[q] = "idle"
    BY <1>1, <1>5 DEF FinishPublish, TypeOK, LockInv
  <2>2. QED
    BY <2>1 DEF PublishInv
<1>6. ASSUME NEW p \in Publishers, AppendFails(p) \/ ReturnPublish(p) PROVE PublishInv'
  BY <1>5, <1>6 DEF AppendFails, ReturnPublish
<1>7. ASSUME mu = NoOne, ppc' = ppc PROVE PublishInv'
  <2>1. \A q \in Publishers : ppc'[q] = "idle"
    BY <1>1, <1>7, PartitionAssumption DEF LockInv, TypeOK
  <2>2. QED
    BY <2>1 DEF PublishInv
<1>8. CASE BeginClose
  BY <1>7, <1>8 DEF BeginClose, publisherVars
<1>9. ASSUME NEW r \in Readers, CheckData(r) PROVE PublishInv'
  BY <1>7, <1>9 DEF CheckData, publisherVars
<1>10. QED
  BY <1>2, <1>3, <1>4, <1>6, <1>8, <1>9
     DEF Next, PublishStep, CloseStep, CheckStep, WakeStep, vars, partitionVars,
         subVars, publisherVars, Signal, Subscribe, Unsubscribe, CloseSub, EndClose,
         StartRead, CancelCtx, CheckClosed, CheckEmpty, WakeReady, WakeDone, WakeCtx

\* Acknowledged batches stay where they are and the new one lies behind them.
LEMMA AckStep ==
    InductiveInv /\ [Next]_vars => AckInv' /\ AckedBatchesAreContiguous'
<1> SUFFICES ASSUME InductiveInv, [Next]_vars
             PROVE  AckInv' /\ AckedBatchesAreContiguous'
  OBVIOUS
<1>1. TypeOK /\ AckInv /\ AckedBatchesAreContiguous
  BY DEF InductiveInv
<1>2. CASE UNCHANGED <<log, acks>>
  BY <1>1, <1>2 DEF AckInv, AckedBatchesAreContiguous
<1>3. ASSUME NEW p \in Publishers, AppendNext(p)
      PROVE  AckInv' /\ AckedBatchesAreContiguous'
  <2>1. /\ acks' = acks /\ Len(log) \in Nat /\ Len(log') = Len(log) + 1
        /\ \A i \in 1 .. Len(log) : log'[i] = log[i]
    BY <1>3, AppendNextEffect DEF AppendNext
  <2>2. ASSUME NEW c \in acks
        PROVE  /\ c.base + Len(c.batch) <= Len(log')
               /\ \A i \in 1 .. Len(c.batch) :
                     log'[c.base + i] = [Offset |-> c.base + i - 1,
                                         Payload |-> c.batch[i]]
    <3>1. /\ c.base \in Nat /\ Len(c.batch) \in Nat
          /\ c.base + Len(c.batch) <= Len(log)
          /\ \A i \in 1 .. Len(c.batch) :
                log[c.base + i] = [Offset |-> c.base + i - 1, Payload |-> c.batch[i]]
      BY <1>1, LenProperties DEF TypeOK, AckedBatchesAreContiguous
    <3>2. \A i \in 1 .. Len(c.batch) : c.base + i \in 1 .. Len(log)
      BY <2>1, <3>1
    <3>3. \A i \in 1 .. Len(c.batch) : log'[c.base + i] = log[c.base + i]
      BY <2>1, <3>2
    <3>4. c.base + Len(c.batch) <= Len(log')
      BY <2>1, <3>1
    <3>5. \A i \in 1 .. Len(c.batch) :
             log'[c.base + i] = [Offset |-> c.base + i - 1, Payload |-> c.batch[i]]
      BY <3>1, <3>3, Zenon
    <3>6. QED
      BY <3>4, <3>5
  <2>3. QED
    BY <1>1, <2>1, <2>2 DEF AckInv, AckedBatchesAreContiguous
<1>4. ASSUME NEW p \in Publishers, ReturnPublish(p)
      PROVE  AckInv' /\ AckedBatchesAreContiguous'
  <2> DEFINE new == [base |-> base[p], batch |-> batch[p]]
  <2>1. /\ log' = log /\ acks' = acks \union {new} /\ ppc[p] = "notify"
    BY <1>4 DEF ReturnPublish, FinishPublish, partitionVars
  <2>2. /\ batch[p] # <<>> /\ batch[p] \in Seq(Payloads)
        /\ Len(batch[p]) \in Nat /\ Len(batch[p]) > 0 /\ Len(log) \in Nat
        /\ appended[p] = Len(batch[p]) /\ Len(batch[p]) <= Len(log)
        /\ base[p] \in Nat /\ base[p] = Len(log) - Len(batch[p])
    BY <1>1, <2>1, EmptySeq, LenProperties DEF InductiveInv, PublishInv, TypeOK
  <2>3. \A c \in acks : c.base + Len(c.batch) <= base[p]
    BY <2>1, <2>2 DEF InductiveInv, PublishInv
  <2>4. \A i \in 1 .. Len(batch[p]) :
           log[base[p] + i] = [Offset |-> base[p] + i - 1, Payload |-> batch[p][i]]
    <3>1. ASSUME NEW i \in 1 .. Len(batch[p])
          PROVE  log[base[p] + i] = [Offset |-> base[p] + i - 1, Payload |-> batch[p][i]]
      <4>1. base[p] + i \in 1 .. Len(log)
        BY <2>2
      <4>2. log[base[p] + i].Payload = batch[p][i]
        BY <2>1, <2>2 DEF InductiveInv, PublishInv
      <4>3. log[base[p] + i].Offset = base[p] + i - 1
        <5>1. \A j \in 1 .. Len(log) : log[j].Offset = j - 1
          BY DEF InductiveInv, LogInv
        <5>2. base[p] \in Int /\ i \in Int
          BY <2>2
        <5>3. QED
          BY <4>1, <5>1, <5>2
      <4>4. log[base[p] + i] \in Message
        BY <1>1, <4>1, ElementOfSeq DEF TypeOK
      <4>5. QED
        BY <4>2, <4>3, <4>4 DEF Message
    <3>2. QED
      BY <3>1
  <2>5. \A c \in acks : c.base \in Nat /\ Len(c.batch) \in Nat /\ Len(c.batch) > 0
    BY <1>1, EmptySeq, LenProperties DEF TypeOK, AckInv
  <2>6. AckInv'
    BY <1>1, <2>1, <2>2 DEF AckInv
  <2>7. ASSUME NEW c \in acks' PROVE
           /\ c.base + Len(c.batch) <= Len(log)
           /\ \A i \in 1 .. Len(c.batch) :
                 log[c.base + i] = [Offset |-> c.base + i - 1, Payload |-> c.batch[i]]
    <3>1. CASE c \in acks
      BY <1>1, <3>1 DEF AckedBatchesAreContiguous
    <3>2. CASE c = new
      <4>1. c.base = base[p] /\ c.batch = batch[p]
        BY <3>2
      <4>2. base[p] + Len(batch[p]) <= Len(log)
        BY <2>2
      <4>3. QED
        BY <2>4, <4>1, <4>2
    <3>3. QED
      BY <2>1, <3>1, <3>2
  <2>8. ASSUME NEW c \in acks', NEW d \in acks', c.base <= d.base
        PROVE  c = d \/ c.base + Len(c.batch) <= d.base
    <3>1. CASE c \in acks /\ d \in acks
      BY <1>1, <2>8, <3>1 DEF AckedBatchesAreContiguous
    <3>2. CASE c \in acks /\ d = new
      BY <2>3, <3>2
    <3>3. CASE c = new /\ d \in acks
      <4>1. d.base + Len(d.batch) <= base[p] /\ c.base = base[p]
        BY <2>3, <3>3
      <4>2. QED
        BY <2>2, <2>5, <2>8, <3>3, <4>1
    <3>4. QED
      BY <2>1, <3>1, <3>2, <3>3
  <2>9. QED
    BY <2>1, <2>6, <2>7, <2>8 DEF AckedBatchesAreContiguous
<1>5. QED
  BY <1>2, <1>3, <1>4
     DEF Next, PublishStep, CloseStep, CheckStep, WakeStep, vars, partitionVars,
         subVars, BeginPublish, AppendFails, FinishPublish, Signal,
         Subscribe, Unsubscribe, BeginClose, CloseSub, EndClose, StartRead,
         CancelCtx, CheckClosed, CheckData, CheckEmpty, WakeReady, WakeDone, WakeCtx

\* A sleeping reader with something to read keeps its token, or its publisher
\* is still on the way to it: only the reader itself takes the token, and the
\* wake-up loop starts from the registry as it is when the batch is complete.
LEMMA WakeInvStep == InductiveInv /\ [Next]_vars => WakeInv'
<1> SUFFICES ASSUME InductiveInv, [Next]_vars, SingleReader, ~StoreMayFail,
                    NEW r \in Readers,
                    rpc'[r] = "wait", SubOf[r] \in subs', Unread(SubOf[r])'
             PROVE  ready'[SubOf[r]] \/ WakeUnderWay(SubOf[r])'
  BY DEF WakeInv, SingleReader
<1> DEFINE s == SubOf[r]
           Goal == ready'[s] \/ WakeUnderWay(s)'
<1>1. /\ TypeOK /\ LockInv /\ WakeInv /\ s \in Subs
      /\ \A q \in Readers : q # r => SubOf[q] # s
  BY PartitionAssumption DEF InductiveInv, SingleReader
<1> HIDE DEF s
<1>2. ASSUME rpc[r] = "wait", s \in subs, Unread(s)
      PROVE  ready[s] \/ WakeUnderWay(s)
  BY <1>1, <1>2 DEF WakeInv, s
<1>3. ASSUME rpc'[r] = rpc[r], s \in subs, UNCHANGED <<log, offset>>,
             ready[s] => ready'[s], WakeUnderWay(s) => Goal
      PROVE  Goal
  BY <1>2, <1>3 DEF Unread, s
<1>4. ASSUME NEW p \in Publishers, NEW b \in Batches, BeginPublish(p, b) PROVE Goal
  <2>1. ~WakeUnderWay(s)
    BY <1>1, <1>4, PartitionAssumption DEF BeginPublish, LockInv, WakeUnderWay
  <2>2. QED
    BY <1>3, <1>4, <2>1 DEF BeginPublish, partitionVars, subVars, readerVars, s
<1>5. ASSUME NEW p \in Publishers, AppendNext(p) PROVE Goal
  <2>1. s \in subs
    BY <1>5 DEF AppendNext, s
  <2>2. /\ appended'[p] = appended[p] + 1 /\ appended[p] \in Nat
        /\ \/ ppc'[p] = "notify" /\ todo'[p] = subs
           \/ ppc'[p] = "append"
    BY <1>1, <1>5 DEF AppendNext, TypeOK
  <2>3. appended'[p] > 0
    BY <2>2
  <2>4. QED
    BY <2>1, <2>2, <2>3 DEF WakeUnderWay
<1>6. ASSUME NEW p \in Publishers, NEW t \in Subs, Signal(p, t) PROVE Goal
  <2>1. /\ rpc' = rpc /\ subs' = subs /\ UNCHANGED <<log, offset, ppc, appended>>
        /\ ready' = [ready EXCEPT ![t] = TRUE]
        /\ todo' = [todo EXCEPT ![p] = @ \ {t}]
    BY <1>6 DEF Signal, partitionVars, readerVars
  <2>2. CASE s = t
    BY <1>1, <2>1, <2>2 DEF TypeOK
  <2>3. CASE s # t
    <3>1. WakeUnderWay(s) => WakeUnderWay(s)'
      BY <1>1, <2>1, <2>3 DEF WakeUnderWay, TypeOK
    <3>2. ready[s] => ready'[s]
      BY <1>1, <2>1, <2>3 DEF TypeOK
    <3>3. QED
      BY <1>3, <2>1, <3>1, <3>2 DEF s
  <2>4. QED
    BY <2>2, <2>3
<1>7. ASSUME NEW p \in Publishers, ReturnPublish(p) PROVE Goal
  <2>1. ~WakeUnderWay(s)
    BY <1>1, <1>7 DEF ReturnPublish, LockInv, WakeUnderWay
  <2>2. QED
    BY <1>3, <1>7, <2>1 DEF ReturnPublish, FinishPublish, partitionVars, subVars,
                            readerVars, s
<1>8. ASSUME UNCHANGED <<log, offset, ready, ppc, appended, todo>>,
             rpc'[r] = rpc[r],
             subs' \subseteq subs
      PROVE  Goal
  <2>1. WakeUnderWay(s) => WakeUnderWay(s)'
    BY <1>8 DEF WakeUnderWay
  <2>2. QED
    BY <1>3, <1>8, <2>1 DEF s
<1>9. ASSUME NEW t \in Subs, Subscribe(t) PROVE Goal
  <2>1. s # t
    BY <1>1, <1>9 DEF Subscribe, readerVars, InductiveInv, RegistryInv, s
  <2>2. s \in subs
    BY <1>9, <2>1 DEF Subscribe, s
  <2>3. WakeUnderWay(s) => WakeUnderWay(s)'
    BY <1>9 DEF Subscribe, publisherVars, WakeUnderWay
  <2>4. QED
    BY <1>3, <1>9, <2>2, <2>3 DEF Subscribe, subVars, readerVars
<1>10. ASSUME NEW t \in Subs, Unsubscribe(t) \/ CloseSub(t) PROVE Goal
  <2>1. /\ UNCHANGED <<log, offset, ready, ppc, appended, todo, rpc>>
        /\ subs' = subs \ {t}
    BY <1>10 DEF Unsubscribe, CloseSub, subVars, publisherVars, readerVars
  <2>2. QED
    BY <1>8, <2>1
<1>11. ASSUME BeginClose \/ EndClose PROVE Goal
  <2>1. UNCHANGED <<log, offset, ready, ppc, appended, todo, rpc, subs>>
    BY <1>11 DEF BeginClose, EndClose, partitionVars, subVars, publisherVars,
                 readerVars
  <2>2. QED
    BY <1>8, <2>1
<1>12. ASSUME NEW q \in Readers, NEW max \in ReadSizes, StartRead(q, max) PROVE Goal
  <2>1. q # r
    BY <1>1, <1>12 DEF StartRead, TypeOK
  <2>2. QED
    BY <1>1, <1>8, <1>12, <2>1 DEF StartRead, TypeOK, partitionVars, subVars,
                                   publisherVars
<1>13. ASSUME NEW q \in Readers, CancelCtx(q) PROVE Goal
  BY <1>8, <1>13 DEF CancelCtx, partitionVars, subVars, publisherVars
<1>14. ASSUME NEW q \in Readers, CheckClosed(q) \/ WakeDone(q) \/ WakeCtx(q) PROVE Goal
  <2>1. q # r
    BY <1>1, <1>14 DEF CheckClosed, WakeDone, WakeCtx, Return, TypeOK
  <2>2. QED
    BY <1>1, <1>8, <1>14, <2>1 DEF CheckClosed, WakeDone, WakeCtx, Return, TypeOK,
                                   partitionVars, subVars, publisherVars
<1>15. ASSUME NEW q \in Readers, CheckData(q) PROVE Goal
  <2>1. q # r
    BY <1>1, <1>15 DEF CheckData, Return, TypeOK
  <2>2. SubOf[q] # s /\ SubOf[q] \in Subs
    BY <1>1, <2>1, PartitionAssumption
  <2>3. /\ rpc'[r] = rpc[r] /\ subs' = subs /\ log' = log /\ offset'[s] = offset[s]
        /\ UNCHANGED <<ready, ppc, appended, todo>>
    BY <1>1, <1>15, <2>1, <2>2
       DEF CheckData, Return, TypeOK, partitionVars, publisherVars
  <2>4. Unread(s) /\ s \in subs
    BY <2>3 DEF Unread, s
  <2>5. QED
    BY <1>2, <2>3, <2>4 DEF WakeUnderWay
<1>16. ASSUME NEW q \in Readers, CheckEmpty(q) PROVE Goal
  <2>1. UNCHANGED <<log, offset, subs, ready, ppc, appended, todo>>
    BY <1>16 DEF CheckEmpty, partitionVars, subVars, publisherVars
  <2>2. q # r
    BY <1>16, <2>1, CheckEmptyEffect DEF Unread
  <2>3. rpc'[r] = rpc[r]
    BY <1>1, <1>16, <2>2 DEF CheckEmpty, TypeOK
  <2>4. QED
    BY <1>8, <2>1, <2>3
<1>17. ASSUME NEW q \in Readers, WakeReady(q) PROVE Goal
  <2>1. q # r
    BY <1>1, <1>17 DEF WakeReady, TypeOK
  <2>2. SubOf[q] # s /\ SubOf[q] \in Subs
    BY <1>1, <2>1, PartitionAssumption
  <2>3. /\ rpc'[r] = rpc[r] /\ ready'[s] = ready[s]
        /\ UNCHANGED <<subs, log, offset, ppc, appended, todo>>
    BY <1>1, <1>17, <2>1, <2>2
       DEF WakeReady, TypeOK, partitionVars, publisherVars
  <2>4. Unread(s) /\ s \in subs
    BY <2>3 DEF Unread, s
  <2>5. QED
    BY <1>2, <2>3, <2>4 DEF WakeUnderWay
<1>18. ASSUME UNCHANGED vars PROVE Goal
  BY <1>8, <1>18 DEF vars, partitionVars, subVars, publisherVars, readerVars
<1>19. Goal
  <2>1. ASSUME NEW p \in Publishers, PublishStep(p) PROVE Goal
    BY <1>5, <1>6, <1>7, <2>1 DEF PublishStep, AppendFails
  <2>2. ASSUME NEW q \in Readers, CheckStep(q) \/ WakeStep(q) PROVE Goal
    BY <1>14, <1>15, <1>16, <1>17, <2>2 DEF CheckStep, WakeStep
  <2>3. ASSUME CloseStep PROVE Goal
    BY <1>10, <1>11, <2>3 DEF CloseStep
  <2> HIDE DEF Goal
  <2>4. QED
    BY <1>4, <1>9, <1>10, <1>11, <1>12, <1>13, <1>18, <2>1, <2>2, <2>3 DEF Next
<1>20. QED
  BY <1>19 DEF s

-----------------------------------------------------------------------------

\* Every step preserves InductiveInv.
LEMMA NextInv == InductiveInv /\ [Next]_vars => InductiveInv'
  BY TypeStep, LockStep, LogStep, PublishInvStep, RegistryStep, DeliveredStep,
     AckStep, WakeInvStep DEF InductiveInv

\* The inductive invariant holds in every reachable state.
THEOREM Invariance == Spec => []InductiveInv
  BY InitInv, NextInv, PTL DEF Spec

\* Type correctness.
THEOREM TypeCorrect == Spec => []TypeOK
<1>1. InductiveInv => TypeOK
  BY DEF InductiveInv
<1>2. QED
  BY Invariance, <1>1, PTL

\* The log's Read is what the Store interface promises, whatever from and max
\* are: cutting down before adding makes overflow impossible.
THEOREM ReadIsCorrect == Spec => []ReadMeetsContract
<1>1. ASSUME InductiveInv PROVE ReadMeetsContract
  <2>1. /\ log \in Seq(Message) /\ Len(log) <= MaxLog
        /\ \A i \in 1 .. Len(log) : log[i].Offset = i - 1
    BY <1>1 DEF InductiveInv, TypeOK, LogInv
  <2>2. Len(log) <= MaxInt
    BY <2>1, LenProperties, PartitionAssumption, StoreAssumption
  <2>3. QED
    BY <2>1, <2>2, ContractHolds DEF ReadMeetsContract
<1>2. QED
  BY Invariance, <1>1, PTL

\* Every subscription gets the log from its beginning, without gaps, repeats
\* or reordering, even if several goroutines read it.
THEOREM Delivery == Spec => []DeliveredIsPrefix
<1>1. InductiveInv => DeliveredIsPrefix
  BY DEF InductiveInv
<1>2. QED
  BY Invariance, <1>1, PTL

\* Acknowledged batches are contiguous, permanent and disjoint, store failures
\* of other batches notwithstanding.
THEOREM BatchAtomicity == Spec => []AckedBatchesAreContiguous
<1>1. InductiveInv => AckedBatchesAreContiguous
  BY DEF InductiveInv
<1>2. QED
  BY Invariance, <1>1, PTL

\* No done channel is closed twice and none is forgotten.
THEOREM NoDoubleClose == Spec => [](DoneClosedOnce /\ ClosedHasNoSubscribers)
<1>1. InductiveInv => DoneClosedOnce /\ ClosedHasNoSubscribers
  BY DEF InductiveInv
<1>2. QED
  BY Invariance, <1>1, PTL

\* With one reader per subscription and a store that does not fail, no wake-up
\* is lost.  Both assumptions are needed.
THEOREM WakeUp ==
    ASSUME SingleReader, ~StoreMayFail
    PROVE  Spec => []NoLostWakeup
<1>1. ASSUME InductiveInv PROVE NoLostWakeup
  <2>1. SUFFICES ASSUME NEW r \in Readers, Forgotten(r) PROVE FALSE
    BY DEF NoLostWakeup
  <2>2. /\ rpc[r] = "wait" /\ SubOf[r] \in subs /\ Unread(SubOf[r])
        /\ ~ready[SubOf[r]] /\ mu = NoOne
    BY <2>1 DEF Forgotten
  <2>3. ready[SubOf[r]] \/ WakeUnderWay(SubOf[r])
    BY <1>1, <2>2 DEF InductiveInv, WakeInv
  <2>4. ~WakeUnderWay(SubOf[r])
    BY <1>1, <2>2, PartitionAssumption DEF InductiveInv, LockInv, WakeUnderWay
  <2>5. QED
    BY <2>2, <2>3, <2>4
<1>2. QED
  BY Invariance, <1>1, PTL

-----------------------------------------------------------------------------
\* Partition.tla implements BroadcastLog.tla, for all values of the constants:
\* every step of a goroutine is one step of the abstract log or leaves it as it is.

\* The payloads of the first k messages of a log.
Visible(m, k) == SubSeq(PayloadsOf(m), 1, k)

\* The payloads of a log, message by message.
LEMMA PayloadsOfProperties ==
    ASSUME NEW m \in Seq(Message)
    PROVE  /\ PayloadsOf(m) \in Seq(Payloads)
           /\ Len(PayloadsOf(m)) = Len(m)
           /\ \A i \in 1 .. Len(m) : PayloadsOf(m)[i] = m[i].Payload
<1>1. Len(m) \in Nat /\ \A i \in 1 .. Len(m) : m[i].Payload \in Payloads
  <2>1. \A i \in 1 .. Len(m) : m[i] \in Message
    BY ElementOfSeq
  <2>2. QED
    BY <2>1, LenProperties DEF Message
<1>2. QED
  BY <1>1 DEF PayloadsOf

\* The part of the log that is visible is a prefix of it.
LEMMA VisibleProperties ==
    ASSUME NEW m \in Seq(Message), NEW k \in Nat, k <= Len(m)
    PROVE  /\ Visible(m, k) \in Seq(Payloads)
           /\ Len(Visible(m, k)) = k
           /\ \A i \in 1 .. k : Visible(m, k)[i] = m[i].Payload
<1>1. /\ PayloadsOf(m) \in Seq(Payloads) /\ Len(m) \in Nat
      /\ Len(PayloadsOf(m)) = Len(m)
      /\ \A i \in 1 .. Len(m) : PayloadsOf(m)[i] = m[i].Payload
  BY PayloadsOfProperties, LenProperties
<1>2. \A i \in 1 .. k : i \in 1 .. Len(m) /\ PayloadsOf(m)[i] \in Payloads
  BY <1>1, ElementOfSeq
<1>3. /\ Visible(m, k) \in Seq(Payloads) /\ Len(Visible(m, k)) = k
      /\ \A i \in 1 .. k : Visible(m, k)[i] = PayloadsOf(m)[i]
  BY <1>2, SubSeqProperties DEF Visible
<1>4. QED
  BY <1>1, <1>2, <1>3

\* Messages behind position k do not show in the first k.
LEMMA VisibleSame ==
    ASSUME NEW m \in Seq(Message), NEW n \in Seq(Message), NEW k \in Nat,
           k <= Len(m), k <= Len(n), \A i \in 1 .. k : m[i] = n[i]
    PROVE  Visible(m, k) = Visible(n, k)
<1>1. /\ Visible(m, k) \in Seq(Payloads) /\ Visible(n, k) \in Seq(Payloads)
      /\ Len(Visible(m, k)) = Len(Visible(n, k)) /\ Len(Visible(m, k)) = k
      /\ \A i \in 1 .. k : Visible(m, k)[i] = Visible(n, k)[i]
  BY VisibleProperties, SMTT(30)
<1>2. QED
  BY <1>1, SeqEqual

\* A log that shows n payloads of batch b behind its first k messages.
LEMMA VisibleGrows ==
    ASSUME NEW m \in Seq(Message), NEW k \in Nat, NEW b \in Seq(Payloads),
           NEW n \in Nat, n <= Len(b), k + n <= Len(m),
           \A i \in 1 .. n : m[k + i].Payload = b[i]
    PROVE  Visible(m, k + n) = Visible(m, k) \o SubSeq(b, 1, n)
<1> DEFINE head == Visible(m, k)
           tail == SubSeq(b, 1, n)
           whole == Visible(m, k + n)
<1>1. Len(m) \in Nat /\ Len(b) \in Nat /\ k <= Len(m) /\ k + n \in Nat
  BY LenProperties
<1>2. /\ head \in Seq(Payloads) /\ Len(head) = k
      /\ \A i \in 1 .. k : head[i] = m[i].Payload
  BY <1>1, VisibleProperties
<1>3. /\ whole \in Seq(Payloads) /\ Len(whole) = k + n
      /\ \A i \in 1 .. k + n : whole[i] = m[i].Payload
  BY <1>1, VisibleProperties
<1>4. /\ tail \in Seq(Payloads) /\ Len(tail) = n
      /\ \A i \in 1 .. n : tail[i] = b[i]
  <2>1. \A i \in 1 .. n : b[i] \in Payloads
    BY <1>1, ElementOfSeq
  <2>2. QED
    BY <2>1, SubSeqProperties
<1> HIDE DEF head, tail, whole
<1>5. /\ head \o tail \in Seq(Payloads) /\ Len(head \o tail) = k + n
      /\ \A i \in 1 .. k + n : (head \o tail)[i] =
            IF i <= k THEN head[i] ELSE tail[i - k]
  BY <1>2, <1>4, ConcatProperties, ZenonT(30)
<1>6. ASSUME NEW i \in 1 .. k + n PROVE whole[i] = (head \o tail)[i]
  <2>1. CASE i <= k
    <3>1. i \in 1 .. k
      BY <2>1
    <3>2. head[i] = m[i].Payload /\ (head \o tail)[i] = head[i]
      BY <1>2, <1>5, <2>1, <3>1
    <3>3. QED
      BY <1>3, <3>2
  <2>2. CASE ~(i <= k)
    <3>1. i - k \in 1 .. n /\ k + (i - k) = i
      BY <2>2
    <3>2. m[k + (i - k)].Payload = b[i - k]
      BY <3>1
    <3>3. tail[i - k] = b[i - k] /\ (head \o tail)[i] = tail[i - k]
      BY <1>4, <1>5, <2>2, <3>1
    <3>4. whole[i] = m[k + (i - k)].Payload
      BY <1>3, <3>1
    <3>5. QED
      BY <3>2, <3>3, <3>4
  <2>3. QED
    BY <2>1, <2>2
<1>7. QED
  BY <1>3, <1>5, <1>6, SeqEqual DEF whole, head, tail

\* With the lock held by p, CHOOSE in Hidden can only mean p.
LEMMA ChosenPublisher ==
    ASSUME NEW pc, NEW p \in Publishers, pc[p] = "append",
           \A q \in Publishers : q # p => pc[q] # "append"
    PROVE  (CHOOSE q \in Publishers : pc[q] = "append") = p
  OBVIOUS

-----------------------------------------------------------------------------
\* The refinement mapping, step by step

Content == Visible(log, Len(log) - Hidden)

\* How much of the log is hidden, by the phase the lock holder is in.
LEMMA HiddenByPhase ==
    ASSUME InductiveInv
    PROVE  /\ \A p \in Publishers : ppc[p] = "append" => Hidden = appended[p]
           /\ (\A p \in Publishers : ppc[p] # "append") => Hidden = 0
<1>1. LockInv
  BY DEF InductiveInv
<1>2. ASSUME NEW p \in Publishers, ppc[p] = "append" PROVE Hidden = appended[p]
  <2>1. \A q \in Publishers : q # p => ppc[q] # "append"
    BY <1>1, <1>2 DEF LockInv
  <2>2. QED
    BY <1>2, <2>1, ChosenPublisher DEF Hidden
<1>3. QED
  BY <1>2 DEF Hidden

\* The same in the next state.
LEMMA HiddenByPhaseNext ==
    ASSUME InductiveInv, [Next]_vars
    PROVE  /\ \A p \in Publishers : ppc'[p] = "append" => Hidden' = appended'[p]
           /\ (\A p \in Publishers : ppc'[p] # "append") => Hidden' = 0
<1>1. InductiveInv'
  BY NextInv
<1>2. LockInv'
  BY <1>1 DEF InductiveInv
<1>3. ASSUME NEW p \in Publishers, ppc'[p] = "append" PROVE Hidden' = appended'[p]
  <2>1. \A q \in Publishers : q # p => ppc'[q] # "append"
    BY <1>2, <1>3 DEF LockInv
  <2>2. QED
    BY <1>3, <2>1, ChosenPublisher DEF Hidden
<1>4. QED
  BY <1>3 DEF Hidden

\* Initial states are initial states of BroadcastLog.
LEMMA InitImplements == Init => Promise!Init
<1> SUFFICES ASSUME Init PROVE Promise!Init
  OBVIOUS
<1>1. Hidden = 0
  BY DEF Init, Hidden
<1>2. PayloadsOf(<<>>) = <<>>
  BY DEF PayloadsOf
<1>3. SubSeq(PayloadsOf(log), 1, Len(log) - Hidden) = <<>>
  BY <1>1, SubSeqEmpty DEF Init
<1>4. \A s \in Subs : StatusOf(s) = "new" /\ PayloadsOf(got[s]) = <<>>
  BY <1>2 DEF Init, StatusOf
<1>5. QED
  BY <1>3, <1>4 DEF Promise!Init, Init

\* A step that shows nothing outside.
LEMMA Invisible ==
    ASSUME InductiveInv, [Next]_vars,
           Content' = Content, UNCHANGED <<closed, created, closes, got>>
    PROVE  UNCHANGED Promise!vars
<1>1. SubSeq(PayloadsOf(log), 1, Len(log) - Hidden)'
         = SubSeq(PayloadsOf(log), 1, Len(log) - Hidden)
  BY DEF Content, Visible
<1>2. [s \in Subs |-> StatusOf(s)]' = [s \in Subs |-> StatusOf(s)]
  BY DEF StatusOf
<1>3. QED
  BY <1>1, <1>2 DEF Promise!vars

\* Every step is a step of BroadcastLog or leaves its variables alone.
LEMMA StepImplements == InductiveInv /\ [Next]_vars => [Promise!Next]_(Promise!vars)
<1> SUFFICES ASSUME InductiveInv, [Next]_vars PROVE [Promise!Next]_(Promise!vars)
  OBVIOUS
<1> DEFINE Goal == [Promise!Next]_(Promise!vars)
<1>1. /\ TypeOK /\ LockInv /\ PublishInv /\ InductiveInv'
      /\ Len(log) \in Nat /\ log \in Seq(Message)
  BY NextInv, LenProperties DEF InductiveInv, TypeOK
\* Steps at which nobody is appending, before or after.
<1>2. ASSUME UNCHANGED <<log, ppc, appended>> PROVE Content' = Content
  BY <1>2 DEF Content, Hidden
<1>3. ASSUME UNCHANGED <<log, ppc, appended, closed, created, closes, got>>
      PROVE  Goal
  BY <1>2, <1>3, Invisible
<1> HIDE DEF Goal
<1>4. ASSUME NEW p \in Publishers, NEW b \in Batches, BeginPublish(p, b) PROVE Goal
  <2>1. Hidden = 0
    BY <1>1, <1>4, HiddenByPhase, PartitionAssumption DEF BeginPublish, LockInv
  <2>2. Hidden' = 0
    BY <1>1, <1>4, HiddenByPhaseNext DEF BeginPublish, LockInv, TypeOK
  <2>3. UNCHANGED <<log, closed, created, closes, got>>
    BY <1>4 DEF BeginPublish, partitionVars
  <2>4. QED
    BY <2>1, <2>2, <2>3, Invisible DEF Content, Goal
<1>5. ASSUME NEW p \in Publishers, ppc[p] = "append", ~closed,
             NEW n \in Nat, Visible(log', Len(log) - appended[p] + n)
                = Visible(log, Len(log) - appended[p]) \o SubSeq(batch[p], 1, n),
             n \in 1 .. Len(batch[p]), n = Len(batch[p]) \/ StoreMayFail,
             Len(log') - Hidden' = Len(log) - appended[p] + n,
             UNCHANGED <<closed, created, closes, got>>
      PROVE  Goal
  <2>1. batch[p] \in Batches /\ Hidden = appended[p]
    BY <1>1, <1>5, HiddenByPhase DEF PublishInv
  <2>2. SubSeq(PayloadsOf(log), 1, Len(log) - Hidden)'
           = SubSeq(PayloadsOf(log), 1, Len(log) - Hidden) \o SubSeq(batch[p], 1, n)
    BY <1>5, <2>1 DEF Visible
  <2>3. UNCHANGED <<[s \in Subs |-> StatusOf(s)], [s \in Subs |-> PayloadsOf(got[s])]>>
    BY <1>5 DEF StatusOf
  <2>4. Promise!Publish(batch[p])
    BY <1>5, <2>2, <2>3 DEF Promise!Publish
  <2>5. QED
    BY <2>1, <2>4 DEF Goal, Promise!Next
<1>6. ASSUME NEW p \in Publishers, AppendNext(p) PROVE Goal
  <2> DEFINE k == Len(log) - appended[p]
  <2>1. /\ ppc[p] = "append" /\ appended[p] \in Nat /\ appended[p] <= Len(log)
        /\ batch[p] \in Seq(Payloads) /\ Len(batch[p]) \in Nat
        /\ appended[p] + 1 <= Len(batch[p]) /\ ~closed
        /\ \A i \in 1 .. appended[p] : log[k + i].Payload = batch[p][i]
        /\ k \in Nat
    <3>1. /\ appended[p] \in Nat /\ batch[p] \in Seq(Payloads) /\ Len(batch[p]) \in Nat
          /\ appended[p] + 1 <= Len(batch[p]) /\ ppc[p] = "append"
      BY <1>6, AppendNextEffect DEF AppendNext
    <3>2. /\ appended[p] <= Len(log) /\ ~closed
          /\ \A i \in 1 .. appended[p] : log[k + i].Payload = batch[p][i]
      BY <1>1, <3>1 DEF PublishInv
    <3>3. k \in Nat
      <4>1. Len(log) \in Nat
        BY <1>1
      <4>2. QED
        BY <3>1, <3>2, <4>1
    <3> HIDE DEF k
    <3>4. QED
      BY <3>1, <3>2, <3>3
  <2> HIDE DEF k
  <2>2. /\ log' \in Seq(Message) /\ Len(log') = Len(log) + 1
        /\ \A i \in 1 .. Len(log) : log'[i] = log[i]
        /\ appended'[p] = appended[p] + 1
        /\ UNCHANGED <<closed, created, closes, got>>
        /\ \A q \in Publishers : q # p => ppc'[q] = "idle"
    BY <1>1, <1>6, AppendNextEffect DEF AppendNext, TypeOK, LockInv
  <2>3. Hidden = appended[p]
    BY <2>1, HiddenByPhase
  <2>4. CASE appended[p] + 1 = Len(batch[p])
    <3>1. ppc'[p] = "notify"
      BY <1>1, <1>6, <2>4 DEF AppendNext, TypeOK
    <3>2. Hidden' = 0
      BY <2>2, <3>1, HiddenByPhaseNext
    <3>3. PublishInv'
      BY <1>1 DEF InductiveInv
    <3>4. \A i \in 1 .. Len(batch[p]) : log'[k + i].Payload = batch[p][i]
      <4>1. batch' = batch /\ appended'[p] = Len(batch[p])
            /\ Len(log') - appended'[p] = k
        BY <1>1, <1>6, <2>1, <2>2, <2>4 DEF AppendNext, k
      <4>2. QED
        BY <3>1, <3>3, <4>1 DEF PublishInv
    <3>5. /\ k + Len(batch[p]) = Len(log') /\ k <= Len(log) /\ k <= Len(log')
          /\ \A i \in 1 .. k : log'[i] = log[i]
      BY <1>1, <2>1, <2>2, <2>4 DEF k
    <3>6. Visible(log', k + Len(batch[p]))
             = Visible(log', k) \o SubSeq(batch[p], 1, Len(batch[p]))
      <4>1. Len(batch[p]) <= Len(batch[p]) /\ k + Len(batch[p]) <= Len(log')
        BY <2>1, <3>5
      <4>2. QED
        BY <2>1, <2>2, <3>4, <4>1, VisibleGrows
    <3>7. Visible(log', k) = Visible(log, k)
      BY <1>1, <2>1, <2>2, <3>5, VisibleSame
    <3>8. Len(log') - Hidden' = k + Len(batch[p]) /\ Len(batch[p]) \in 1 .. Len(batch[p])
      BY <2>1, <2>2, <3>2, <3>5
    <3>9. QED
      BY <1>5, <2>1, <2>2, <3>6, <3>7, <3>8 DEF k
  <2>5. CASE appended[p] + 1 # Len(batch[p])
    <3>1. ppc'[p] = "append"
      BY <1>1, <1>6, <2>1, <2>5 DEF AppendNext, TypeOK
    <3>2. Hidden' = appended[p] + 1
      BY <2>2, <3>1, HiddenByPhaseNext
    <3>3. /\ Len(log') - Hidden' = k /\ k <= Len(log) /\ k <= Len(log')
          /\ \A i \in 1 .. k : log'[i] = log[i]
      BY <1>1, <2>1, <2>2, <3>2 DEF k
    <3>4. Visible(log', k) = Visible(log, k)
      BY <1>1, <2>1, <2>2, <3>3, VisibleSame
    <3>5. Content' = Content
      BY <2>3, <3>3, <3>4 DEF Content, k
    <3>6. QED
      BY <2>2, <3>5, Invisible DEF Goal
  <2>6. QED
    BY <2>4, <2>5
<1>7. ASSUME NEW p \in Publishers, AppendFails(p) PROVE Goal
  <2> DEFINE n == appended[p]
             k == Len(log) - n
  <2>1. /\ ppc[p] = "append" /\ n \in Nat /\ n <= Len(log) /\ k \in Nat
        /\ batch[p] \in Seq(Payloads) /\ Len(batch[p]) \in Nat
        /\ n < Len(batch[p]) /\ ~closed /\ StoreMayFail
        /\ \A i \in 1 .. n : log[k + i].Payload = batch[p][i]
    BY <1>1, <1>7, LenProperties DEF AppendFails, PublishInv, TypeOK
  <2>2. UNCHANGED <<log, closed, created, closes, got>>
    BY <1>7 DEF AppendFails, FinishPublish, partitionVars
  <2>3. \A q \in Publishers : ppc'[q] = "idle"
    BY <1>1, <1>7 DEF AppendFails, FinishPublish, LockInv, TypeOK
  <2>4. Hidden = n /\ Hidden' = 0
    BY <2>1, <2>3, HiddenByPhase, HiddenByPhaseNext
  <2>5. k + n = Len(log) /\ Len(log') - Hidden' = k + n /\ k + n <= Len(log)
    BY <1>1, <2>1, <2>2, <2>4
  <2>6. CASE n = 0
    <3>1. Content' = Content
      BY <2>2, <2>4, <2>6 DEF Content
    <3>2. QED
      BY <2>2, <3>1, Invisible DEF Goal
  <2>7. CASE n # 0
    <3>1. n <= Len(batch[p]) /\ n \in 1 .. Len(batch[p])
      BY <2>1, <2>7
    <3>2. Visible(log, k + n) = Visible(log, k) \o SubSeq(batch[p], 1, n)
      BY <1>1, <2>1, <2>5, <3>1, VisibleGrows
    <3>3. QED
      BY <1>5, <2>1, <2>2, <2>5, <3>1, <3>2
  <2>8. QED
    BY <2>6, <2>7
<1>8. ASSUME NEW p \in Publishers, NEW s \in Subs, Signal(p, s) PROVE Goal
  BY <1>3, <1>8 DEF Signal, partitionVars
<1>9. ASSUME NEW p \in Publishers, ReturnPublish(p) PROVE Goal
  <2>1. UNCHANGED <<log, closed, created, closes, got>>
    BY <1>9 DEF ReturnPublish, FinishPublish, partitionVars
  <2>2. \A q \in Publishers : ppc[q] # "append" /\ ppc'[q] # "append"
    BY <1>1, <1>9 DEF ReturnPublish, FinishPublish, LockInv, TypeOK
  <2>3. Hidden = 0 /\ Hidden' = 0
    BY <2>2, HiddenByPhase, HiddenByPhaseNext
  <2>4. QED
    BY <2>1, <2>3, Invisible DEF Content, Goal

<1>10. ASSUME NEW s \in Subs, Subscribe(s) PROVE Goal
  <2>1. UNCHANGED <<log, ppc, appended, closed, got, closes>>
    BY <1>10 DEF Subscribe, publisherVars
  <2>2. s \notin created /\ created' = created \union {s} /\ ~closed
    BY <1>10 DEF Subscribe
  <2>3. closes[s] = 0
    BY <2>2 DEF InductiveInv, DoneClosedOnce
  <2>4. Content' = Content
    BY <1>2, <2>1
  <2>5. [t \in Subs |-> StatusOf(t)]'
           = [[t \in Subs |-> StatusOf(t)] EXCEPT ![s] = "live"]
    BY <2>1, <2>2, <2>3 DEF StatusOf
  <2>6. StatusOf(s) = "new"
    BY <2>2 DEF StatusOf
  <2>7. Promise!Join(s)
    BY <2>1, <2>2, <2>4, <2>5, <2>6 DEF Promise!Join, Content, Visible
  <2>8. QED
    BY <2>7 DEF Goal, Promise!Next
<1>11. ASSUME NEW s \in Subs, Unsubscribe(s) PROVE Goal
  <2>1. /\ UNCHANGED <<log, ppc, appended, closed, got, created>> /\ mu = NoOne
        /\ s \in subs /\ closes' = [closes EXCEPT ![s] = @ + 1]
    BY <1>11 DEF Unsubscribe, publisherVars
  <2>2. s \in created /\ closes[s] = 0 /\ closes \in [Subs -> Nat] /\ ~closed
    BY <2>1, PartitionAssumption
       DEF InductiveInv, RegistryInv, DoneClosedOnce, ClosedHasNoSubscribers, TypeOK
  <2>3. closes'[s] = 1 /\ \A t \in Subs : t # s => closes'[t] = closes[t]
    BY <2>1, <2>2
  <2>4. Content' = Content
    BY <1>2, <2>1
  <2>5. [t \in Subs |-> StatusOf(t)]'
           = [[t \in Subs |-> StatusOf(t)] EXCEPT ![s] = "gone"]
    <3>1. StatusOf(s)' = "gone"
      BY <2>1, <2>2, <2>3 DEF StatusOf
    <3>2. \A t \in Subs : t # s => StatusOf(t)' = StatusOf(t)
      BY <2>1, <2>3 DEF StatusOf
    <3>3. QED
      BY <3>1, <3>2
  <2>6. StatusOf(s) = "live"
    BY <2>2 DEF StatusOf
  <2>7. Promise!Leave(s)
    BY <2>1, <2>4, <2>5, <2>6 DEF Promise!Leave, Content, Visible
  <2>8. QED
    BY <2>7 DEF Goal, Promise!Next
<1>12. ASSUME BeginClose PROVE Goal
  <2>1. /\ UNCHANGED <<log, ppc, appended, created, closes, got>>
        /\ ~closed /\ closed' = TRUE
    BY <1>12 DEF BeginClose, publisherVars
  <2>2. Content' = Content
    BY <1>2, <2>1
  <2>3. \A t \in Subs : StatusOf(t)' = IF StatusOf(t) = "new" THEN "new" ELSE "gone"
    BY <2>1 DEF StatusOf
  <2>4. Promise!Shut
    <3> DEFINE st == [t \in Subs |-> StatusOf(t)]
    <3>1. st' = [t \in Subs |-> IF st[t] = "new" THEN "new" ELSE "gone"]
      BY <2>3
    <3>2. QED
      BY <2>1, <2>2, <3>1 DEF Promise!Shut, Content, Visible
  <2>5. QED
    BY <2>4 DEF Goal, Promise!Next
<1>13. ASSUME NEW s \in Subs, CloseSub(s) PROVE Goal
  <2>1. UNCHANGED <<log, ppc, appended, closed, got, created>> /\ closed
    BY <1>1, <1>13 DEF CloseSub, publisherVars, LockInv
  <2>2. Content' = Content
    BY <1>2, <2>1
  <2>3. [t \in Subs |-> StatusOf(t)]' = [t \in Subs |-> StatusOf(t)]
    BY <2>1 DEF StatusOf
  <2>4. UNCHANGED Promise!vars
    BY <2>1, <2>2, <2>3 DEF Promise!vars, Content, Visible
  <2>5. QED
    BY <2>4 DEF Goal
<1>14. ASSUME EndClose PROVE Goal
  BY <1>3, <1>14 DEF EndClose, partitionVars, publisherVars
<1>15. ASSUME NEW r \in Readers, NEW max \in ReadSizes, StartRead(r, max) PROVE Goal
  BY <1>3, <1>15 DEF StartRead, partitionVars, publisherVars
<1>16. ASSUME NEW r \in Readers, CheckClosed(r) \/ CheckEmpty(r) \/ WakeStep(r) \/ CancelCtx(r)
       PROVE  Goal
  BY <1>3, <1>16 DEF CheckClosed, CheckEmpty, WakeStep, WakeReady, WakeDone, WakeCtx,
                     CancelCtx, partitionVars, publisherVars
<1>17. ASSUME NEW r \in Readers, CheckData(r) PROVE Goal
  <2> DEFINE s == SubOf[r]
             n == Len(PayloadsOf(got[s]))
  <2>1. PICK end \in Nat :
           /\ s \in Subs /\ end <= Len(log) /\ offset[s] < end
           /\ got' = [got EXCEPT ![s] = SubSeq(log, 1, end)]
           /\ SubSeq(log, 1, end) \in Seq(Message)
    BY <1>17, CheckDataEffect
  <2>2. /\ UNCHANGED <<log, ppc, appended, closed, created, closes>> /\ mu = NoOne
        /\ ~closed /\ ~Done(s)
    BY <1>17 DEF CheckData, partitionVars, publisherVars
  <2>3. Hidden = 0
    BY <1>1, <2>2, HiddenByPhase, PartitionAssumption DEF LockInv
  <2>4. Content' = Content /\ Content = Visible(log, Len(log))
    BY <1>1, <1>2, <2>2, <2>3 DEF Content
  <2>5. /\ Content \in Seq(Payloads) /\ Len(Content) = Len(log)
        /\ \A i \in 1 .. Len(log) : Content[i] = log[i].Payload
    BY <1>1, <2>4, VisibleProperties
  <2>6. /\ got[s] \in Seq(Message) /\ got[s] = SubSeq(log, 1, offset[s])
        /\ offset[s] \in Nat /\ offset[s] <= Len(log)
    BY <1>1, <2>1 DEF InductiveInv, DeliveredIsPrefix, TypeOK
  <2>7. n = offset[s]
    <3>1. \A i \in 1 .. offset[s] : log[i] \in Message
      BY <1>1, <2>6, ElementOfSeq
    <3>2. Len(got[s]) = offset[s]
      BY <2>6, <3>1, SubSeqProperties
    <3>3. QED
      BY <2>6, <3>2, PayloadsOfProperties
  <2>8. PayloadsOf(SubSeq(log, 1, end)) = SubSeq(Content, 1, end)
    <3> DEFINE x == PayloadsOf(SubSeq(log, 1, end))
               y == SubSeq(Content, 1, end)
    <3>1. \A i \in 1 .. end : log[i] \in Message /\ Content[i] \in Payloads
      BY <1>1, <2>1, <2>5, ElementOfSeq
    <3>2. /\ Len(SubSeq(log, 1, end)) = end
          /\ \A i \in 1 .. end : SubSeq(log, 1, end)[i] = log[i]
      BY <2>1, <3>1, SubSeqProperties
    <3>3. /\ x \in Seq(Payloads) /\ Len(x) = end
          /\ \A i \in 1 .. end : x[i] = log[i].Payload
      BY <2>1, <3>2, PayloadsOfProperties
    <3>4. /\ y \in Seq(Payloads) /\ Len(y) = end
          /\ \A i \in 1 .. end : y[i] = Content[i]
      BY <2>1, <3>1, SubSeqProperties
    <3>5. \A i \in 1 .. end : x[i] = y[i]
      BY <1>1, <2>1, <2>5, <3>3, <3>4
    <3>6. QED
      BY <3>3, <3>4, <3>5, SeqEqual
  <2>9. end - n \in 1 .. Len(Content) - n /\ n + (end - n) = end
    BY <1>1, <2>1, <2>5, <2>6, <2>7
  <2>10. [t \in Subs |-> StatusOf(t)]' = [t \in Subs |-> StatusOf(t)]
    BY <2>2 DEF StatusOf
  <2>11. StatusOf(s) = "live"
    <3>1. s \in created
      BY <1>17 DEF CheckData, InductiveInv, RegistryInv
    <3>2. closes[s] = 0
      BY <1>1, <2>1, <2>2 DEF Done, TypeOK
    <3>3. QED
      BY <2>2, <3>1, <3>2 DEF StatusOf
  <2>12. [t \in Subs |-> PayloadsOf(got[t])]'
            = [[t \in Subs |-> PayloadsOf(got[t])] EXCEPT
                 ![s] = SubSeq(Content, 1, n + (end - n))]
    BY <1>1, <2>1, <2>8, <2>9 DEF TypeOK
  <2>13. Promise!Deliver(s)
    <3> DEFINE d == [t \in Subs |-> PayloadsOf(got[t])]
    <3>1. d[s] = PayloadsOf(got[s])
      BY <2>1
    <3>2. \E j \in 1 .. Len(Content) - Len(d[s]) :
             d' = [d EXCEPT ![s] = SubSeq(Content, 1, Len(d[s]) + j)]
      BY <2>9, <2>12, <3>1
    <3>3. QED
      BY <2>1, <2>2, <2>4, <2>10, <2>11, <3>2 DEF Promise!Deliver, Content, Visible
  <2>14. QED
    BY <2>1, <2>13 DEF Goal, Promise!Next
<1>18. ASSUME UNCHANGED vars PROVE Goal
  BY <1>3, <1>18 DEF vars, partitionVars, publisherVars
<1>19. Goal
  <2>1. ASSUME NEW p \in Publishers, PublishStep(p) PROVE Goal
    BY <1>6, <1>7, <1>8, <1>9, <2>1 DEF PublishStep
  <2>2. ASSUME NEW r \in Readers, CheckStep(r) PROVE Goal
    BY <1>16, <1>17, <2>2 DEF CheckStep
  <2>3. ASSUME CloseStep PROVE Goal
    BY <1>14, <1>13, <2>3 DEF CloseStep
  <2>4. QED
    BY <1>4, <1>10, <1>11, <1>12, <1>15, <1>16, <1>18, <2>1, <2>2, <2>3 DEF Next
<1>20. QED
  BY <1>19 DEF Goal

\* The partition is a broadcast log: whatever publishers, readers and closers
\* do at the same time, the outside sees whole batches appear in one step,
\* deliveries in log order, and nothing after the end.
THEOREM Refinement == Spec => ImplementsPromise
<1>1. Spec => Promise!Init /\ [][Promise!Next]_(Promise!vars)
  BY InitImplements, StepImplements, Invariance, PTL DEF Spec
<1>2. QED
  BY <1>1 DEF ImplementsPromise, Promise!Spec

\* A subscription that was closed, or whose partition was, delivers nothing.
THEOREM Finality == Spec => NothingAfterDone
<1>1. ASSUME InductiveInv, [Next]_vars, NEW s \in Subs, Done(s) \/ closed
      PROVE  got'[s] = got[s]
  <2>1. CASE UNCHANGED got
    BY <2>1
  <2>2. ASSUME NEW r \in Readers, CheckData(r) PROVE got'[s] = got[s]
    <3>1. SubOf[r] # s
      BY <1>1, <2>2 DEF CheckData
    <3>2. PICK end \in Nat : got' = [got EXCEPT ![SubOf[r]] = SubSeq(log, 1, end)]
      BY <1>1, <2>2, CheckDataEffect
    <3>3. QED
      BY <1>1, <3>1, <3>2 DEF InductiveInv, TypeOK
  <2>3. QED
    BY <1>1, <2>1, <2>2
       DEF Next, PublishStep, CloseStep, CheckStep, WakeStep, vars, BeginPublish,
           AppendNext, AppendFails, ReturnPublish, FinishPublish, Signal, Subscribe,
           Unsubscribe, BeginClose, CloseSub, EndClose, StartRead, CancelCtx,
           CheckClosed, CheckEmpty, WakeReady, WakeDone, WakeCtx
<1>2. InductiveInv /\ [Next]_vars =>
         [\A s \in Subs : Done(s) \/ closed => got'[s] = got[s]]_vars
  BY <1>1
<1>3. QED
  BY Invariance, <1>2, PTL DEF Spec, NothingAfterDone

=============================================================================

--------------------------- MODULE BatcherProofs ---------------------------
(***************************************************************************)
(* The safety of Batcher.tla for any number of callers, timers, payloads   *)
(* and any size of a batch.  InductiveInv is shown to hold initially and   *)
(* to be preserved, one lemma per group of conjuncts.                      *)
(***************************************************************************)
EXTENDS BatcherProps, SequenceTheorems, TLAPS

-----------------------------------------------------------------------------
\* The inductive invariant

\* Verbs and places agree, and an answer is there exactly while it is recorded;
\* a batch that was acknowledged is in the topic.
GoroutineInv ==
    \A p \in Procs :
        /\ pc[p] = "idle" <=> verb[p] = "none"
        /\ verb[p] = "timer" => p \in Timers
        /\ pc[p] = "record" <=> answer[p] # "none"
        /\ answer[p] = "ok" => ToSet(hand[p]) \subseteq ToSet(log)
        /\ verb[p] = "close" => closed

\* At most the timer in the field runs, its goroutine does not, and a timer in
\* the field that does not run any more has yet to flush.
TimerInv ==
    /\ armed \subseteq {timer}
    /\ \A t \in armed : pc[t] = "idle"
    /\ timer \in Timers \ armed => pc[timer] = "flush"

\* What a Close has emptied stays empty, also before it returns.
CloseInv ==
    /\ closeEnded # {} => closed
    /\ \A p \in Procs :
          verb[p] = "close" /\ pc[p] \in {"send", "record"} => buf = <<>> /\ armed = {}

\* Used by one goroutine at a time, the batcher is done with what was taken, or
\* one batch is under way and nothing is buffered behind it.
AloneInv ==
    ~overlapped =>
        /\ \A p, q \in Procs :
              pc[p] \in {"send", "record"} /\ pc[q] \in {"send", "record"} => p = q
        /\ \A p \in Procs :
              /\ pc[p] = "send" => ~failed /\ buf = <<>> /\ taken = log \o hand[p]
              /\ pc[p] = "record" =>
                    /\ ~failed /\ buf = <<>> /\ IsPrefix(log, taken)
                    /\ answer[p] = "ok" => log = taken
        /\ ~Sending =>
              /\ ~failed => log = taken
              /\ failed => buf = <<>> /\ IsPrefix(log, taken)

InductiveInv ==
    /\ TypeOK
    /\ GoroutineInv
    /\ TakenOnceInOrder
    /\ TimerInv
    /\ NothingStranded
    /\ LossIsRemembered
    /\ CloseInv
    /\ NothingAfterClose
    /\ AloneInv

-----------------------------------------------------------------------------

\* The names of single checks and assignments stand for their definitions.
USE DEF Admits, FullBuffer, DropTimer, EmptyBuffer, RecordError

-----------------------------------------------------------------------------
\* Sequences

\* What is appended to a sequence leaves it a prefix.
LEMMA PrefixOfConcat ==
    ASSUME NEW S, NEW s \in Seq(S), NEW t \in Seq(S)
    PROVE  IsPrefix(s, s \o t)
<1>1. Len(s) \in Nat /\ Len(t) \in Nat /\ Len(s \o t) = Len(s) + Len(t)
  BY ConcatProperties, LenProperties
<1>2. CASE s = <<>>
  BY <1>1, <1>2, SubSeqEmpty DEF IsPrefix
<1>3. CASE s # <<>>
  <2>1. Len(s) \in Nat \ {0}
    BY <1>3, EmptySeq
  <2>2. SubSeq(s \o t, 1, Len(s)) = SubSeq(s, 1, Len(s))
    BY <2>1, SubSeqOfConcat1
  <2>3. QED
    BY <1>1, <2>2 DEF IsPrefix
<1>4. QED
  BY <1>2, <1>3

\* A sequence is a prefix of itself.
LEMMA PrefixOfItself ==
    ASSUME NEW S, NEW s \in Seq(S)
    PROVE  IsPrefix(s, s)
  BY LenProperties DEF IsPrefix

\* The elements of a concatenation are those of its parts.
LEMMA SetOfConcat ==
    ASSUME NEW S, NEW s \in Seq(S), NEW t \in Seq(S)
    PROVE  ToSet(s \o t) = ToSet(s) \union ToSet(t)
<1>1. /\ Len(s) \in Nat /\ Len(t) \in Nat
      /\ DOMAIN s = 1 .. Len(s) /\ DOMAIN t = 1 .. Len(t)
      /\ s \o t \in Seq(S) /\ Len(s \o t) = Len(s) + Len(t)
      /\ DOMAIN (s \o t) = 1 .. Len(s) + Len(t)
      /\ \A i \in 1 .. Len(s) + Len(t) :
            (s \o t)[i] = IF i <= Len(s) THEN s[i] ELSE t[i - Len(s)]
  BY ConcatProperties, LenProperties
<1>2. ASSUME NEW x \in ToSet(s) PROVE x \in ToSet(s \o t)
  <2>1. PICK i \in 1 .. Len(s) : x = s[i]
    BY <1>1, <1>2 DEF ToSet
  <2>2. i \in 1 .. Len(s) + Len(t) /\ (s \o t)[i] = x
    BY <1>1, <2>1
  <2>3. QED
    BY <1>1, <2>2 DEF ToSet
<1>3. ASSUME NEW x \in ToSet(t) PROVE x \in ToSet(s \o t)
  <2>1. PICK i \in 1 .. Len(t) : x = t[i]
    BY <1>1, <1>3 DEF ToSet
  <2>2. Len(s) + i \in 1 .. Len(s) + Len(t) /\ (s \o t)[Len(s) + i] = x
    BY <1>1, <2>1
  <2>3. QED
    BY <1>1, <2>2 DEF ToSet
<1>4. ASSUME NEW x \in ToSet(s \o t) PROVE x \in ToSet(s) \union ToSet(t)
  <2>1. PICK i \in 1 .. Len(s) + Len(t) : x = (s \o t)[i]
    BY <1>1, <1>4 DEF ToSet
  <2>2. CASE i <= Len(s)
    <3>1. i \in DOMAIN s /\ x = s[i]
      BY <1>1, <2>1, <2>2
    <3>2. QED
      BY <3>1 DEF ToSet
  <2>3. CASE i > Len(s)
    <3>1. i - Len(s) \in DOMAIN t /\ x = t[i - Len(s)]
      BY <1>1, <2>1, <2>3
    <3>2. QED
      BY <3>1 DEF ToSet
  <2>4. QED
    BY <1>1, <2>1, <2>2, <2>3
<1>5. QED
  BY <1>2, <1>3, <1>4

\* Append adds one element.
LEMMA SetOfAppend ==
    ASSUME NEW S, NEW s \in Seq(S), NEW x \in S
    PROVE  ToSet(Append(s, x)) = ToSet(s) \union {x}
<1>1. Append(s, x) = s \o <<x>> /\ <<x>> \in Seq(S)
  BY AppendIsConcat
<1>2. ToSet(<<x>>) = {x}
  BY DEF ToSet
<1>3. ToSet(s \o <<x>>) = ToSet(s) \union ToSet(<<x>>)
  BY <1>1, SetOfConcat, ZenonT(30)
<1>4. QED
  BY <1>1, <1>2, <1>3

\* The empty sequence has no elements.
LEMMA SetOfEmpty == ToSet(<<>>) = {}
  BY DEF ToSet

-----------------------------------------------------------------------------
\* Types and goroutines

\* The initial states satisfy InductiveInv.
LEMMA InitInv == Init => InductiveInv
<1> SUFFICES ASSUME Init PROVE InductiveInv
  OBVIOUS
<1>1. <<>> \in Seq(Messages) /\ <<>> \o <<>> = <<>>
  BY ConcatEmptySeq
<1>2. TypeOK
  BY <1>1, BatcherAssumption DEF Init, TypeOK, Procs
<1>3. GoroutineInv /\ TimerInv /\ CloseInv
  BY BatcherAssumption DEF Init, GoroutineInv, TimerInv, CloseInv
<1>4. TakenOnceInOrder /\ NothingStranded /\ NothingAfterClose
  BY <1>1 DEF Init, TakenOnceInOrder, NothingStranded, NothingAfterClose
<1>5. LossIsRemembered
  BY SetOfEmpty DEF Init, LossIsRemembered
<1>6. AloneInv
  BY DEF Init, AloneInv, Sending
<1>7. QED
  BY <1>2, <1>3, <1>4, <1>5, <1>6 DEF InductiveInv

\* Every step gives every variable a value of its type.
LEMMA TypeInductive == InductiveInv /\ [Next]_vars => TypeOK'
<1> SUFFICES ASSUME InductiveInv, [Next]_vars PROVE TypeOK'
  OBVIOUS
<1> USE DEF InductiveInv, TypeOK
<1>1. ASSUME NEW p \in Callers, NEW m \in Unused, Add(p, m) PROVE TypeOK'
  <2>1. m \in Messages /\ p \in Procs
    BY DEF Unused, Procs
  <2>2. Append(buf, m) \in Seq(Messages) /\ Append(accepted, m) \in Seq(Messages)
    BY <2>1, AppendProperties
  <2>3. buf' \in Seq(Messages) /\ accepted' \in Seq(Messages)
    BY <1>1, <2>2 DEF Add
  <2>4. timer' \in Timers \union {None} /\ armed' \subseteq Timers
    BY <1>1 DEF Add
  <2>5. /\ pc' \in [Procs -> {"idle", "flush", "send", "record"}]
        /\ verb' \in [Procs -> {"none", "add", "flush", "close", "timer"}]
    BY <1>1, <2>1 DEF Add, Goto
  <2>6. overlapped' \in BOOLEAN
    BY <1>1 DEF Add, Sending
  <2>7. QED
    BY <1>1, <2>3, <2>4, <2>5, <2>6 DEF Add
<1>2. ASSUME NEW p \in Callers, CallFlush(p) \/ CallClose(p) PROVE TypeOK'
  BY <1>2 DEF CallFlush, CallClose, Goto, fields, history, Procs
<1>3. ASSUME NEW t \in Timers, Fire(t) PROVE TypeOK'
  BY <1>3 DEF Fire, Goto, fields, history, Procs
<1>4. ASSUME NEW p \in Procs, TakeBatch(p) PROVE TypeOK'
  <2>1. taken \o buf \in Seq(Messages) /\ <<>> \in Seq(Messages)
    BY ConcatProperties
  <2>2. /\ taken' \in Seq(Messages) /\ buf' \in Seq(Messages)
        /\ hand' \in [Procs -> Seq(Messages)]
    BY <1>4, <2>1 DEF TakeBatch
  <2>3. /\ pc' \in [Procs -> {"idle", "flush", "send", "record"}]
        /\ verb' \in [Procs -> {"none", "add", "flush", "close", "timer"}]
        /\ closeEnded' \subseteq {"ok", "error"}
    BY <1>4 DEF TakeBatch, Return, Goto
  <2>4. overlapped' \in BOOLEAN
    BY <1>4 DEF TakeBatch, Sending
  <2>5. QED
    BY <1>4, <2>2, <2>3, <2>4 DEF TakeBatch
<1>5. ASSUME NEW p \in Procs, Send(p) PROVE TypeOK'
  <2>1. log \o hand[p] \in Seq(Messages)
    BY ConcatProperties
  <2>2. QED
    BY <1>5, <2>1 DEF Send, Goto, fields, history
<1>6. ASSUME NEW p \in Procs, Record(p) PROVE TypeOK'
  <2>1. answer[p] \in {"ok", "error"}
    BY <1>6 DEF Record, GoroutineInv
  <2>2. QED
    BY <1>6, <2>1, EmptySeq DEF Record, Return, Goto
<1>7. CASE UNCHANGED vars
  BY <1>7 DEF vars, fields, goroutines, history
<1>8. QED
  BY <1>1, <1>2, <1>3, <1>4, <1>5, <1>6, <1>7 DEF Next, FlushStep

\* Verbs, places and answers stay together.
LEMMA GoroutineInductive == InductiveInv /\ [Next]_vars => GoroutineInv'
<1> SUFFICES ASSUME InductiveInv, [Next]_vars PROVE GoroutineInv'
  OBVIOUS
<1> USE DEF InductiveInv, GoroutineInv, TypeOK, Goto
<1>1. ASSUME NEW p \in Callers, NEW m \in Unused, Add(p, m) PROVE GoroutineInv'
  BY <1>1 DEF Add, Procs
<1>2. ASSUME NEW p \in Callers, CallFlush(p) \/ CallClose(p) PROVE GoroutineInv'
  BY <1>2 DEF CallFlush, CallClose, fields, history, Procs
<1>3. ASSUME NEW t \in Timers, Fire(t) PROVE GoroutineInv'
  BY <1>3 DEF Fire, TimerInv, fields, history, Procs
<1>4. ASSUME NEW p \in Procs, TakeBatch(p) PROVE GoroutineInv'
  <2>1. \A q \in Procs \ {p} : pc'[q] = pc[q] /\ verb'[q] = verb[q] /\ hand'[q] = hand[q]
    BY <1>4 DEF TakeBatch, Return
  <2>2. \/ pc'[p] = "idle" /\ verb'[p] = "none"
        \/ pc'[p] = "send" /\ verb'[p] = verb[p] /\ verb[p] # "none"
    BY <1>4 DEF TakeBatch, Return
  <2>3. answer[p] = "none" /\ answer' = answer /\ log' = log /\ closed' = closed
    BY <1>4 DEF TakeBatch
  <2>4. QED
    BY <2>1, <2>2, <2>3, ZenonT(30)
<1>5. ASSUME NEW p \in Procs, Send(p) PROVE GoroutineInv'
  <2>1. ToSet(log \o hand[p]) = ToSet(log) \union ToSet(hand[p])
    BY SetOfConcat
  <2>2. ToSet(log) \subseteq ToSet(log')
    BY <1>5, <2>1 DEF Send
  <2>3. answer'[p] = "ok" => ToSet(hand[p]) \subseteq ToSet(log')
    BY <1>5, <2>1 DEF Send
  <2>4. QED
    BY <1>5, <2>2, <2>3 DEF Send, fields, history
<1>6. ASSUME NEW p \in Procs, Record(p) PROVE GoroutineInv'
  BY <1>6 DEF Record, Return
<1>7. CASE UNCHANGED vars
  BY <1>7 DEF vars, fields, goroutines, history
<1>8. QED
  BY <1>1, <1>2, <1>3, <1>4, <1>5, <1>6, <1>7 DEF Next, FlushStep

\* At most the timer in the field runs.
LEMMA TimerInductive == InductiveInv /\ [Next]_vars => TimerInv'
<1> SUFFICES ASSUME InductiveInv, [Next]_vars PROVE TimerInv'
  OBVIOUS
<1> USE DEF InductiveInv, TimerInv, TypeOK, Goto
<1>1. ASSUME NEW p \in Callers, NEW m \in Unused, Add(p, m) PROVE TimerInv'
  BY <1>1, BatcherAssumption DEF Add, FreeTimer, Procs
<1>2. ASSUME NEW p \in Callers, CallFlush(p) \/ CallClose(p) PROVE TimerInv'
  BY <1>2, BatcherAssumption DEF CallFlush, CallClose, fields, history, Procs
<1>3. ASSUME NEW t \in Timers, Fire(t) PROVE TimerInv'
  BY <1>3 DEF Fire, fields, history, Procs
<1>4. ASSUME NEW p \in Procs, TakeBatch(p) PROVE TimerInv'
  BY <1>4, BatcherAssumption DEF TakeBatch
<1>5. ASSUME NEW p \in Procs, Send(p) PROVE TimerInv'
  BY <1>5 DEF Send, fields, history, Procs
<1>6. ASSUME NEW p \in Procs, Record(p) PROVE TimerInv'
  BY <1>6 DEF Record, Return, Procs
<1>7. CASE UNCHANGED vars
  BY <1>7 DEF vars, fields, goroutines, history
<1>8. QED
  BY <1>1, <1>2, <1>3, <1>4, <1>5, <1>6, <1>7 DEF Next, FlushStep

-----------------------------------------------------------------------------
\* Where payloads are

\* Only TakeBatch moves payloads, and all of them.
LEMMA TakenInductive == InductiveInv /\ [Next]_vars => TakenOnceInOrder'
<1> SUFFICES ASSUME InductiveInv, [Next]_vars PROVE TakenOnceInOrder'
  OBVIOUS
<1>1. /\ taken \in Seq(Messages) /\ buf \in Seq(Messages) /\ accepted \in Seq(Messages)
      /\ taken \o buf = accepted
  BY DEF InductiveInv, TypeOK, TakenOnceInOrder
<1>2. ASSUME NEW p \in Callers, NEW m \in Unused, Add(p, m) PROVE TakenOnceInOrder'
  <2>1. m \in Messages /\ <<m>> \in Seq(Messages)
    BY DEF Unused
  <2>2. Append(buf, m) = buf \o <<m>> /\ Append(accepted, m) = accepted \o <<m>>
    BY <1>1, <2>1, AppendIsConcat
  <2>3. taken \o (buf \o <<m>>) = (taken \o buf) \o <<m>>
    BY <1>1, <2>1, ConcatAssociative
  <2>4. QED
    BY <1>1, <1>2, <2>2, <2>3 DEF Add, TakenOnceInOrder
<1>3. ASSUME NEW p \in Procs, TakeBatch(p) PROVE TakenOnceInOrder'
  <2>1. taken \o buf \in Seq(Messages) /\ (taken \o buf) \o <<>> = taken \o buf
    BY <1>1, ConcatProperties, ConcatEmptySeq
  <2>2. \/ buf' = buf /\ taken' = taken
        \/ buf' = <<>> /\ taken' = taken \o buf
    BY <1>3 DEF TakeBatch
  <2>3. accepted' = accepted
    BY <1>3 DEF TakeBatch
  <2>4. QED
    BY <1>1, <2>1, <2>2, <2>3 DEF TakenOnceInOrder
<1>4. ASSUME UNCHANGED <<taken, buf, accepted>> PROVE TakenOnceInOrder'
  BY <1>1, <1>4 DEF TakenOnceInOrder
<1>5. QED
  BY <1>2, <1>3, <1>4 DEF Next, FlushStep, CallFlush, CallClose, Fire, Send, Record,
     vars, fields, goroutines, history

\* Who leaves a payload behind has started a timer or is about to flush.
LEMMA StrandedInductive == InductiveInv /\ [Next]_vars => NothingStranded'
<1> SUFFICES ASSUME InductiveInv, [Next]_vars PROVE NothingStranded'
  OBVIOUS
<1> USE DEF InductiveInv, NothingStranded, AboutToFlush, TypeOK, Goto
<1>1. ASSUME NEW p \in Callers, NEW m \in Unused, Add(p, m) PROVE NothingStranded'
  <2>1. CASE FullBuffer(buf')
    BY <1>1, <2>1 DEF Add, Procs
  <2>2. CASE ~FullBuffer(buf')
    <3>1. Append(buf, m) \in Seq(Messages)
      BY AppendProperties DEF Unused
    <3>2. Len(buf') \in Nat /\ Len(buf') < MaxBatch
      BY <1>1, <2>2, <3>1, LenProperties, BatcherAssumption DEF Add
    <3>3. CASE ~linger
      BY <1>1, <3>2, <3>3 DEF Add
    <3>4. CASE linger /\ timer = None
      BY <1>1, <2>2, <3>4 DEF Add
    <3>5. CASE linger /\ timer # None
      <4>1. timer \in Procs /\ (timer \in armed \/ pc[timer] = "flush")
        BY <3>5 DEF TimerInv, Procs
      <4>2. timer' = timer /\ armed' = armed /\ pc' = pc /\ linger' = linger
        BY <1>1, <2>2, <3>5 DEF Add
      <4>3. QED
        BY <3>5, <4>1, <4>2
    <3>6. QED
      BY <3>3, <3>4, <3>5
  <2>3. QED
    BY <2>1, <2>2
<1>2. ASSUME NEW p \in Callers, CallFlush(p) \/ CallClose(p) PROVE NothingStranded'
  BY <1>2 DEF CallFlush, CallClose, fields, history, Procs
<1>3. ASSUME NEW t \in Timers, Fire(t) PROVE NothingStranded'
  BY <1>3 DEF Fire, fields, history, Procs
<1>4. ASSUME NEW p \in Procs, TakeBatch(p) PROVE NothingStranded'
  BY <1>4 DEF TakeBatch
<1>5. ASSUME NEW p \in Procs, Send(p) PROVE NothingStranded'
  BY <1>5 DEF Send, fields, history, Procs
<1>6. ASSUME NEW p \in Procs, Record(p) PROVE NothingStranded'
  BY <1>6 DEF Record, Return, Procs
<1>7. CASE UNCHANGED vars
  BY <1>7 DEF vars, fields, goroutines, history
<1>8. QED
  BY <1>1, <1>2, <1>3, <1>4, <1>5, <1>6, <1>7 DEF Next, FlushStep

\* A payload is accounted for if it is buffered, in flight or in the topic.
LEMMA LossInductive == InductiveInv /\ [Next]_vars => LossIsRemembered'
<1> SUFFICES ASSUME InductiveInv, [Next]_vars PROVE LossIsRemembered'
  OBVIOUS
<1> DEFINE Kept == ToSet(buf) \union InFlight \union ToSet(log)
<1> USE DEF InductiveInv, TypeOK, Goto
<1>1. failed \/ ToSet(accepted) \subseteq Kept
  BY DEF LossIsRemembered
<1>2. SUFFICES failed' \/ ToSet(accepted)' \subseteq Kept'
  BY DEF LossIsRemembered
<1>3. InFlight =
        UNION { ToSet(hand[p]) : p \in { q \in Procs : pc[q] \in {"send", "record"} } }
  BY DEF InFlight
<1>4. ASSUME NEW p \in Callers, NEW m \in Unused, Add(p, m)
      PROVE  failed' \/ ToSet(accepted)' \subseteq Kept'
  <2>1. m \in Messages
    BY DEF Unused
  <2>2. /\ ToSet(Append(buf, m)) = ToSet(buf) \union {m}
        /\ ToSet(Append(accepted, m)) = ToSet(accepted) \union {m}
    BY <2>1, SetOfAppend
  <2>3. InFlight' = InFlight
    <3>1. \A q \in Procs : pc'[q] \in {"send", "record"} <=> pc[q] \in {"send", "record"}
      BY <1>4 DEF Add, Procs
    <3>2. hand' = hand
      BY <1>4 DEF Add
    <3>3. QED
      BY <3>1, <3>2 DEF InFlight
  <2>4. /\ failed' = failed /\ log' = log
        /\ buf' = Append(buf, m) /\ accepted' = Append(accepted, m)
    BY <1>4 DEF Add
  <2>5. QED
    BY <1>1, <2>2, <2>3, <2>4
<1>5. ASSUME NEW p \in Procs, TakeBatch(p)
      PROVE  failed' \/ ToSet(accepted)' \subseteq Kept'
  <2>1. failed' = failed /\ log' = log /\ accepted' = accepted
    BY <1>5 DEF TakeBatch
  <2>2. CASE buf = <<>>
    <3>1. \A q \in Procs : pc'[q] \in {"send", "record"} <=> pc[q] \in {"send", "record"}
      BY <1>5, <2>2 DEF TakeBatch, Return
    <3>2. hand' = hand /\ buf' = buf
      BY <1>5, <2>2 DEF TakeBatch
    <3>3. InFlight' = InFlight
      BY <3>1, <3>2 DEF InFlight
    <3>4. QED
      BY <1>1, <2>1, <3>2, <3>3
  <2>3. CASE buf # <<>>
    <3>1. /\ hand' = [hand EXCEPT ![p] = buf]
          /\ pc' = [pc EXCEPT ![p] = "send"] /\ pc[p] = "flush"
      BY <1>5, <2>3 DEF TakeBatch
    <3>2. ToSet(buf) \subseteq InFlight'
      <4>1. pc'[p] \in {"send", "record"} /\ hand'[p] = buf
        BY <3>1
      <4>2. QED
        BY <4>1 DEF InFlight
    <3>3. InFlight \subseteq InFlight'
      <4>1. \A q \in Procs : pc[q] \in {"send", "record"} =>
                pc'[q] \in {"send", "record"} /\ hand'[q] = hand[q]
        BY <3>1
      <4>2. ASSUME NEW x \in InFlight PROVE x \in InFlight'
        <5>1. PICK q \in Procs : pc[q] \in {"send", "record"} /\ x \in ToSet(hand[q])
          BY <4>2 DEF InFlight
        <5>2. pc'[q] \in {"send", "record"} /\ x \in ToSet(hand'[q])
          BY <4>1, <5>1
        <5>3. QED
          BY <5>2 DEF InFlight
      <4>3. QED
        BY <4>2
    <3>4. QED
      BY <1>1, <2>1, <3>2, <3>3
  <2>4. QED
    BY <2>2, <2>3
<1>6. ASSUME NEW p \in Procs, Send(p)
      PROVE  failed' \/ ToSet(accepted)' \subseteq Kept'
  <2>1. failed' = failed /\ buf' = buf /\ accepted' = accepted /\ hand' = hand
    BY <1>6 DEF Send, fields, history
  <2>2. \A q \in Procs : pc[q] \in {"send", "record"} => pc'[q] \in {"send", "record"}
    BY <1>6 DEF Send
  <2>3. InFlight \subseteq InFlight'
    BY <2>1, <2>2 DEF InFlight
  <2>4. ToSet(log \o hand[p]) = ToSet(log) \union ToSet(hand[p])
    BY SetOfConcat
  <2>5. ToSet(log) \subseteq ToSet(log')
    BY <1>6, <2>4 DEF Send
  <2>6. QED
    BY <1>1, <2>1, <2>3, <2>5
<1>7. ASSUME NEW p \in Procs, Record(p)
      PROVE  failed' \/ ToSet(accepted)' \subseteq Kept'
  <2>1. /\ pc[p] = "record" /\ answer[p] \in {"ok", "error"}
        /\ failed' = (failed \/ answer[p] = "error")
        /\ buf' = buf /\ log' = log /\ accepted' = accepted
        /\ hand' = [hand EXCEPT ![p] = <<>>]
    BY <1>7 DEF Record, GoroutineInv
  <2>2. CASE answer[p] = "error"
    BY <2>1, <2>2
  <2>3. CASE answer[p] = "ok"
    <3>1. ToSet(hand[p]) \subseteq ToSet(log)
      BY <2>3 DEF GoroutineInv
    <3>2. \A q \in Procs \ {p} : pc'[q] = pc[q] /\ hand'[q] = hand[q]
      BY <1>7, <2>1 DEF Record, Return
    <3>3. InFlight \subseteq InFlight' \union ToSet(log)
      BY <3>1, <3>2, ZenonT(30) DEF InFlight
    <3>4. QED
      BY <1>1, <2>1, <2>3, <3>3
  <2>4. QED
    BY <2>1, <2>2, <2>3
<1>8. ASSUME UNCHANGED <<failed, buf, log, accepted, hand>>,
             \A q \in Procs : pc'[q] \in {"send", "record"} <=> pc[q] \in {"send", "record"}
      PROVE  failed' \/ ToSet(accepted)' \subseteq Kept'
  <2>1. InFlight' = InFlight
    BY <1>8 DEF InFlight
  <2>2. QED
    BY <1>1, <1>8, <2>1
<1>9. ASSUME NEW p \in Callers, CallFlush(p) \/ CallClose(p)
      PROVE  failed' \/ ToSet(accepted)' \subseteq Kept'
  <2>1. UNCHANGED <<failed, buf, log, accepted, hand>>
    BY <1>9 DEF CallFlush, CallClose, fields, history
  <2>2. pc[p] = "idle" /\ pc' = [pc EXCEPT ![p] = "flush"]
    BY <1>9 DEF CallFlush, CallClose
  <2>3. QED
    BY <1>8, <2>1, <2>2
<1>10. ASSUME NEW t \in Timers, Fire(t)
       PROVE  failed' \/ ToSet(accepted)' \subseteq Kept'
  <2>1. UNCHANGED <<failed, buf, log, accepted, hand>>
    BY <1>10 DEF Fire, fields, history
  <2>2. pc[t] = "idle" /\ pc' = [pc EXCEPT ![t] = "flush"]
    BY <1>10 DEF Fire, TimerInv
  <2>3. QED
    BY <1>8, <2>1, <2>2
<1>11. CASE UNCHANGED vars
  <2>1. UNCHANGED <<failed, buf, log, accepted, hand, pc>>
    BY <1>11 DEF vars, fields, goroutines, history
  <2>2. QED
    BY <1>8, <2>1
<1>12. QED
  BY <1>4, <1>5, <1>6, <1>7, <1>9, <1>10, <1>11 DEF Next, FlushStep

-----------------------------------------------------------------------------
\* After Close

\* What a Close has emptied stays empty.
LEMMA CloseInductive ==
    InductiveInv /\ [Next]_vars => CloseInv' /\ NothingAfterClose'
<1> SUFFICES ASSUME InductiveInv, [Next]_vars PROVE CloseInv' /\ NothingAfterClose'
  OBVIOUS
<1> USE DEF InductiveInv, CloseInv, NothingAfterClose, TypeOK, Goto
<1>1. ASSUME NEW p \in Callers, NEW m \in Unused, Add(p, m)
      PROVE  CloseInv' /\ NothingAfterClose'
  <2>1. \A q \in Procs : verb'[q] # "close"
    BY <1>1 DEF Add, GoroutineInv
  <2>2. closeEnded' = {}
    BY <1>1 DEF Add
  <2>3. QED
    BY <2>1, <2>2
<1>2. ASSUME NEW p \in Callers, CallFlush(p) \/ CallClose(p)
      PROVE  CloseInv' /\ NothingAfterClose'
  BY <1>2 DEF CallFlush, CallClose, fields, history, Procs
<1>3. ASSUME NEW t \in Timers, Fire(t) PROVE CloseInv' /\ NothingAfterClose'
  BY <1>3 DEF Fire, fields, history, Procs
<1>4. ASSUME NEW p \in Procs, TakeBatch(p) PROVE CloseInv' /\ NothingAfterClose'
  <2>1. buf' = <<>> /\ armed' = {} /\ closed' = closed
    BY <1>4 DEF TakeBatch, TimerInv
  <2>2. closeEnded' # {} => closed
    BY <1>4 DEF TakeBatch, Return, GoroutineInv
  <2>3. QED
    BY <2>1, <2>2
<1>5. ASSUME NEW p \in Procs, Send(p) PROVE CloseInv' /\ NothingAfterClose'
  BY <1>5 DEF Send, fields, history, Procs
<1>6. ASSUME NEW p \in Procs, Record(p) PROVE CloseInv' /\ NothingAfterClose'
  <2>1. buf' = buf /\ armed' = armed /\ closed' = closed
    BY <1>6 DEF Record
  <2>2. closeEnded' # {} => closed /\ buf = <<>> /\ armed = {}
    BY <1>6 DEF Record, Return, GoroutineInv
  <2>3. \A q \in Procs : pc'[q] \in {"send", "record"} => pc[q] = pc'[q] /\ verb'[q] = verb[q]
    BY <1>6 DEF Record, Return
  <2>4. QED
    BY <2>1, <2>2, <2>3
<1>7. CASE UNCHANGED vars
  BY <1>7 DEF vars, fields, goroutines, history
<1>8. QED
  BY <1>1, <1>2, <1>3, <1>4, <1>5, <1>6, <1>7 DEF Next, FlushStep

-----------------------------------------------------------------------------
\* One goroutine at a time

\* Without overlap one goroutine at most is at work on a batch.
LEMMA AloneInductive == InductiveInv /\ [Next]_vars => AloneInv'
<1> SUFFICES ASSUME InductiveInv, [Next]_vars, ~overlapped' PROVE AloneInv'
  BY DEF AloneInv
<1> USE DEF InductiveInv, TypeOK, Goto
<1> DEFINE AtWork(q) == pc[q] \in {"send", "record"}
<1>1. ~overlapped
  BY DEF Next, FlushStep, Add, CallFlush, CallClose, Fire, TakeBatch, Send, Record,
     vars, fields, goroutines, history
<1>2. ASSUME NEW p \in Callers, NEW m \in Unused, Add(p, m) PROVE AloneInv'
  <2>1. ~Sending /\ ~failed /\ log = taken
    BY <1>1, <1>2 DEF Add, AloneInv
  <2>2. \A q \in Procs : ~(pc'[q] \in {"send", "record"})
    BY <1>2, <2>1 DEF Add, Sending, Procs
  <2>3. failed' = failed /\ log' = log /\ taken' = taken
    BY <1>2 DEF Add
  <2>4. QED
    BY <2>1, <2>2, <2>3 DEF AloneInv, Sending
<1>3. ASSUME NEW p \in Procs, TakeBatch(p) PROVE AloneInv'
  <2>1. failed' = failed /\ log' = log /\ answer' = answer /\ pc[p] = "flush"
    BY <1>3 DEF TakeBatch
  <2>2. CASE buf = <<>>
    <3>1. buf' = buf /\ taken' = taken /\ hand' = hand
      BY <1>3, <2>2 DEF TakeBatch
    <3>2. pc' = [pc EXCEPT ![p] = "idle"]
      BY <1>3, <2>2 DEF TakeBatch, Return
    <3>3. \A q \in Procs : pc'[q] = pc[q] \/ (~AtWork(q) /\ pc'[q] = "idle")
      BY <2>1, <3>2
    <3>4. Sending' <=> Sending
      BY <3>3 DEF Sending
    <3>5. QED
      BY <1>1, <2>1, <2>2, <3>1, <3>3, <3>4 DEF AloneInv
  <2>3. CASE buf # <<>>
    <3>1. ~Sending
      BY <1>3, <2>3 DEF TakeBatch
    <3>2. ~failed /\ log = taken
      BY <1>1, <2>3, <3>1 DEF AloneInv
    <3>3. /\ buf' = <<>> /\ taken' = taken \o buf /\ hand' = [hand EXCEPT ![p] = buf]
          /\ pc' = [pc EXCEPT ![p] = "send"]
      BY <1>3, <2>3 DEF TakeBatch
    <3>4. \A q \in Procs \ {p} : ~(pc'[q] \in {"send", "record"})
      BY <3>1, <3>3 DEF Sending
    <3>5. pc'[p] = "send" /\ hand'[p] = buf
      BY <3>3
    <3>6. QED
      BY <2>1, <3>2, <3>3, <3>4, <3>5 DEF AloneInv, Sending
  <2>4. QED
    BY <2>2, <2>3
<1>4. ASSUME NEW p \in Procs, Send(p) PROVE AloneInv'
  <2>1. /\ pc[p] = "send" /\ pc' = [pc EXCEPT ![p] = "record"]
        /\ failed' = failed /\ buf' = buf /\ taken' = taken
        /\ \/ log' = log \o hand[p]
           \/ log' = log /\ answer' = [answer EXCEPT ![p] = "error"]
    BY <1>4 DEF Send, fields, history
  <2>2. Sending
    BY <2>1 DEF Sending
  <2>3. /\ ~failed /\ buf = <<>> /\ taken = log \o hand[p]
        /\ \A q \in Procs : AtWork(q) => q = p
    BY <1>1, <2>1 DEF AloneInv
  <2>4. \A q \in Procs \ {p} : ~(pc'[q] \in {"send", "record"})
    BY <2>1, <2>3
  <2>5. IsPrefix(log, log \o hand[p]) /\ IsPrefix(log \o hand[p], log \o hand[p])
    BY PrefixOfConcat, PrefixOfItself, ConcatProperties
  <2>6. IsPrefix(log', taken')
    BY <2>1, <2>3, <2>5
  <2>7. answer'[p] = "ok" => log' = taken'
    BY <2>1, <2>3
  <2>8. pc'[p] = "record"
    BY <2>1
  <2>9. QED
    BY <2>1, <2>3, <2>4, <2>6, <2>7, <2>8 DEF AloneInv, Sending
<1>5. ASSUME NEW p \in Procs, Record(p) PROVE AloneInv'
  <2>1. /\ pc[p] = "record" /\ answer[p] \in {"ok", "error"}
        /\ failed' = (failed \/ answer[p] = "error")
        /\ buf' = buf /\ log' = log /\ taken' = taken
    BY <1>5 DEF Record, GoroutineInv
  <2>2. /\ ~failed /\ buf = <<>> /\ IsPrefix(log, taken)
        /\ answer[p] = "ok" => log = taken
        /\ \A q \in Procs : AtWork(q) => q = p
    BY <1>1, <2>1 DEF AloneInv
  <2>3. \A q \in Procs : ~(pc'[q] \in {"send", "record"})
    BY <1>5, <2>2 DEF Record, Return
  <2>4. QED
    BY <2>1, <2>2, <2>3 DEF AloneInv, Sending
<1>6. ASSUME UNCHANGED <<failed, buf, log, taken, hand, answer>>,
             \A q \in Procs : pc'[q] = pc[q] \/ (~AtWork(q) /\ pc'[q] = "flush")
      PROVE  AloneInv'
  <2>1. Sending' <=> Sending
    BY <1>6 DEF Sending
  <2>2. QED
    BY <1>1, <1>6, <2>1 DEF AloneInv
<1>7. ASSUME NEW p \in Callers, CallFlush(p) \/ CallClose(p) PROVE AloneInv'
  <2>1. UNCHANGED <<failed, buf, log, taken, hand, answer>>
    BY <1>7 DEF CallFlush, CallClose, fields, history
  <2>2. pc[p] = "idle" /\ pc' = [pc EXCEPT ![p] = "flush"]
    BY <1>7 DEF CallFlush, CallClose
  <2>3. \A q \in Procs : pc'[q] = pc[q] \/ (~AtWork(q) /\ pc'[q] = "flush")
    BY <2>2
  <2>4. QED
    BY <1>6, <2>1, <2>3
<1>8. ASSUME NEW t \in Timers, Fire(t) PROVE AloneInv'
  <2>1. UNCHANGED <<failed, buf, log, taken, hand, answer>>
    BY <1>8 DEF Fire, fields, history
  <2>2. pc[t] = "idle" /\ pc' = [pc EXCEPT ![t] = "flush"]
    BY <1>8 DEF Fire, TimerInv
  <2>3. \A q \in Procs : pc'[q] = pc[q] \/ (~AtWork(q) /\ pc'[q] = "flush")
    BY <2>2
  <2>4. QED
    BY <1>6, <2>1, <2>3
<1>9. CASE UNCHANGED vars
  <2>1. UNCHANGED <<failed, buf, log, taken, hand, answer>> /\ pc' = pc
    BY <1>9 DEF vars, fields, goroutines, history
  <2>2. \A q \in Procs : pc'[q] = pc[q]
    BY <2>1
  <2>3. QED
    BY <1>6, <2>1, <2>2
<1>10. QED
  BY <1>2, <1>3, <1>4, <1>5, <1>7, <1>8, <1>9 DEF Next, FlushStep

\* SentIsPrefix follows: the topic is what was taken, or lacks the end of it.
LEMMA PrefixInv == InductiveInv => SentIsPrefix
<1> SUFFICES ASSUME InductiveInv, ~overlapped PROVE IsPrefix(log, accepted)
  BY DEF SentIsPrefix
<1>1. /\ log \in Seq(Messages) /\ taken \in Seq(Messages) /\ buf \in Seq(Messages)
      /\ hand \in [Procs -> Seq(Messages)] /\ accepted = taken \o buf
  BY DEF InductiveInv, TypeOK, TakenOnceInOrder
<1>2. CASE log = taken
  BY <1>1, <1>2, PrefixOfConcat
<1>3. CASE buf = <<>> /\ IsPrefix(log, taken)
  BY <1>1, <1>3, ConcatEmptySeq
<1>4. CASE \E p \in Procs : pc[p] = "send"
  <2>1. PICK p \in Procs : buf = <<>> /\ taken = log \o hand[p]
    BY <1>4 DEF InductiveInv, AloneInv
  <2>2. accepted = log \o hand[p]
    BY <1>1, <2>1, ConcatEmptySeq
  <2>3. QED
    BY <1>1, <2>2, PrefixOfConcat
<1>5. QED
  BY <1>2, <1>3, <1>4 DEF InductiveInv, AloneInv, Sending

-----------------------------------------------------------------------------
\* What holds in every behaviour

\* The inductive invariant holds in every reachable state (Batcher).
THEOREM Invariance == Spec => []InductiveInv
<1>1. InductiveInv /\ [Next]_vars => InductiveInv'
  BY TypeInductive, GoroutineInductive, TakenInductive, TimerInductive, StrandedInductive,
     LossInductive, CloseInductive, AloneInductive DEF InductiveInv
<1>2. QED
  BY InitInv, <1>1, PTL DEF Spec

\* Every variable holds a value of its Go type.
THEOREM TypeCorrect == Spec => []TypeOK
<1>1. InductiveInv => TypeOK
  BY DEF InductiveInv
<1>2. QED
  BY Invariance, <1>1, PTL

\* No buffered payload waits for somebody who does not come (Batcher.Add).
THEOREM Unstranded == Spec => []NothingStranded
<1>1. InductiveInv => NothingStranded
  BY DEF InductiveInv
<1>2. QED
  BY Invariance, <1>1, PTL

\* Flushes that overlap take each payload once and in order (Batcher.Flush).
THEOREM TakenOnce == Spec => []TakenOnceInOrder
<1>1. InductiveInv => TakenOnceInOrder
  BY DEF InductiveInv
<1>2. QED
  BY Invariance, <1>1, PTL

\* A payload that was lost has left its error in the batcher (Batcher.err).
THEOREM NoSilentLoss == Spec => []LossIsRemembered
<1>1. InductiveInv => LossIsRemembered
  BY DEF InductiveInv
<1>2. QED
  BY Invariance, <1>1, PTL

\* After a Close has returned nothing is buffered and no timer runs (Batcher.Close).
THEOREM ClosedIsEmpty == Spec => []NothingAfterClose
<1>1. InductiveInv => NothingAfterClose
  BY DEF InductiveInv
<1>2. QED
  BY Invariance, <1>1, PTL

\* Used by one goroutine at a time, what was sent is a prefix of what was added,
\* without a gap, whatever fails (Batcher.Flush).
THEOREM NoGap == Spec => []SentIsPrefix
  BY Invariance, PrefixInv, PTL

=============================================================================

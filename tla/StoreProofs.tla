---------------------------- MODULE StoreProofs ----------------------------
(***************************************************************************)
(* Lemmas about Append and Read of the partition log, for every log and    *)
(* every pair of machine integers.                                         *)
(***************************************************************************)
EXTENDS Store, SequenceTheorems, TLAPS

\* Append puts one message with the next offset behind an unchanged log.
LEMMA AppendMsgProperties ==
    ASSUME NEW m \in Seq(Message), NEW payload \in Payloads
    PROVE  /\ AppendMsg(m, payload) \in Seq(Message)
           /\ Len(AppendMsg(m, payload)) = Len(m) + 1
           /\ \A i \in 1 .. Len(m) : AppendMsg(m, payload)[i] = m[i]
           /\ AppendMsg(m, payload)[Len(m) + 1]
                 = [Offset |-> Len(m), Payload |-> payload]
<1>1. [Offset |-> NextOffset(m), Payload |-> payload] \in Message
  BY LenProperties DEF Message, NextOffset
<1>2. QED
  BY <1>1, AppendProperties DEF AppendMsg, NextOffset

\* The machine addition in memoryLog.Read never wraps: the slice ends where
\* from + max ends in the integers, or at the end of the log.
LEMMA ReadEndIsExact ==
    ASSUME NEW n \in Nat, n <= MaxInt,
           NEW from \in MachineInts, NEW max \in MachineInts,
           NEW m, Len(m) = n,
           0 <= from, from < n, 0 < max
    PROVE  /\ ReadEnd(m, from, max) = Lesser(n, from + max)
           /\ ReadEnd(m, from, max) \in from + 1 .. n
  BY StoreAssumption DEF ReadEnd, WrappingSum, Lesser, MachineInts

\* Read returns the messages of one stretch of the log; it returns nothing
\* exactly when from is outside the log or max is not positive.
LEMMA ReadMsgsProperties ==
    ASSUME NEW m \in Seq(Message), Len(m) <= MaxInt,
           NEW from \in MachineInts, NEW max \in MachineInts
    PROVE  /\ from < 0 \/ from >= Len(m) \/ max <= 0 => ReadMsgs(m, from, max) = <<>>
           /\ ~(from < 0 \/ from >= Len(m) \/ max <= 0) =>
                 LET end == ReadEnd(m, from, max)
                 IN  /\ end = Lesser(Len(m), from + max)
                     /\ end \in from + 1 .. Len(m)
                     /\ ReadMsgs(m, from, max) = SubSeq(m, from + 1, end)
                     /\ ReadMsgs(m, from, max) \in Seq(Message)
                     /\ Len(ReadMsgs(m, from, max)) = end - from
                     /\ \A k \in 1 .. end - from :
                           ReadMsgs(m, from, max)[k] = m[from + k]
<1>1. Len(m) \in Nat
  BY LenProperties
<1>2. CASE from < 0 \/ from >= Len(m) \/ max <= 0
  BY <1>2 DEF ReadMsgs
<1>3. CASE ~(from < 0 \/ from >= Len(m) \/ max <= 0)
  <2> DEFINE end == ReadEnd(m, from, max)
  <2>1. end = Lesser(Len(m), from + max) /\ end \in from + 1 .. Len(m)
    BY <1>1, <1>3, ReadEndIsExact DEF MachineInts
  <2>2. ReadMsgs(m, from, max) = SubSeq(m, from + 1, end)
    BY <1>3 DEF ReadMsgs
  <2>3. \A i \in from + 1 .. end : m[i] \in Message
    BY <1>1, <1>3, <2>1, ElementOfSeq DEF MachineInts
  <2>4. from + 1 \in Int /\ end \in Int /\ from + 1 <= end
    BY <1>1, <1>3, <2>1 DEF MachineInts
  <2> HIDE DEF end
  <2>5. /\ SubSeq(m, from + 1, end) \in Seq(Message)
        /\ Len(SubSeq(m, from + 1, end)) = end - from
        /\ \A k \in 1 .. end - from : SubSeq(m, from + 1, end)[k] = m[from + k]
    <3>1. /\ SubSeq(m, from + 1, end) \in Seq(Message)
          /\ Len(SubSeq(m, from + 1, end)) = end - (from + 1) + 1
          /\ \A k \in 1 .. end - (from + 1) + 1 :
                SubSeq(m, from + 1, end)[k] = m[from + 1 + k - 1]
      BY <2>3, <2>4, SubSeqProperties
    <3>2. end - (from + 1) + 1 = end - from
      BY <2>4 DEF MachineInts
    <3>3. ASSUME NEW k \in 1 .. end - from PROVE from + 1 + k - 1 = from + k
      BY <2>4 DEF MachineInts
    <3>4. QED
      BY <3>1, <3>2, <3>3
  <2>6. QED
    BY <1>3, <2>1, <2>2, <2>5 DEF end
<1>4. QED
  BY <1>2, <1>3

\* In a log whose offsets are its indices, Read answers with exactly the
\* messages in [from, from + max), in order.
LEMMA ContractHolds ==
    ASSUME NEW m \in Seq(Message), Len(m) <= MaxInt,
           \A i \in 1 .. Len(m) : m[i].Offset = i - 1,
           NEW from \in MachineInts, NEW max \in MachineInts
    PROVE  ReadContract(m, from, max)
<1> DEFINE result == ReadMsgs(m, from, max)
           wanted == { i \in 1 .. Len(m) : /\ from >= 0
                                           /\ from <= m[i].Offset
                                           /\ m[i].Offset < from + max }
<1>1. /\ Len(m) \in Nat /\ Len(m) <= MaxInt /\ m \in Seq(Message)
      /\ \A i \in 1 .. Len(m) : m[i].Offset = i - 1
  BY LenProperties, StoreAssumption
<1>2. from \in Int /\ max \in Int
  BY StoreAssumption DEF MachineInts
<1>3. CASE from < 0 \/ from >= Len(m) \/ max <= 0
  <2>1. result = <<>> /\ Len(result) = 0
    BY <1>1, <1>3, ReadMsgsProperties
  <2>2. wanted = {}
    BY <1>1, <1>2, <1>3
  <2>3. QED
    BY <2>1, <2>2 DEF ReadContract
<1>4. CASE ~(from < 0 \/ from >= Len(m) \/ max <= 0)
  <2> DEFINE end == ReadEnd(m, from, max)
  <2>1. /\ end = Lesser(Len(m), from + max) /\ end \in from + 1 .. Len(m)
        /\ Len(result) = end - from
        /\ \A k \in 1 .. end - from : result[k] = m[from + k]
    BY <1>1, <1>4, ReadMsgsProperties
  <2> HIDE DEF end, result
  <2>2. wanted = from + 1 .. end
    BY <1>1, <1>2, <1>4, <2>1 DEF Lesser
  <2>3. \A i \in from + 1 .. end : i - from \in 1 .. end - from /\ from + (i - from) = i
    BY <1>1, <1>2, <2>1
  <2>4. \A k \in 1 .. end - from : from + k \in from + 1 .. end /\ from + k \in 1 .. Len(m)
    BY <1>1, <1>2, <1>4, <2>1
  <2>5. { result[k] : k \in 1 .. Len(result) } = { m[i] : i \in wanted }
    <3> HIDE DEF wanted
    <3>1. ASSUME NEW k \in 1 .. Len(result)
          PROVE  \E i \in wanted : result[k] = m[i]
      BY <2>1, <2>2, <2>4
    <3>2. ASSUME NEW i \in wanted
          PROVE  \E k \in 1 .. Len(result) : m[i] = result[k]
      <4>1. i - from \in 1 .. Len(result) /\ result[i - from] = m[i]
        BY <2>1, <2>2, <2>3
      <4>2. QED
        BY <4>1
    <3>3. ASSUME NEW v \in { result[k] : k \in 1 .. Len(result) }
          PROVE  v \in { m[i] : i \in wanted }
      BY <3>1
    <3>4. ASSUME NEW v \in { m[i] : i \in wanted }
          PROVE  v \in { result[k] : k \in 1 .. Len(result) }
      BY <3>2
    <3>5. QED
      BY <3>3, <3>4
  <2>6. ASSUME NEW j \in 1 .. Len(result), NEW k \in 1 .. Len(result), j < k
        PROVE  result[j].Offset < result[k].Offset
    <3>1. result[j] = m[from + j] /\ result[k] = m[from + k]
      BY <2>1
    <3>2. m[from + j].Offset = from + j - 1 /\ m[from + k].Offset = from + k - 1
      <4>1. from + j \in 1 .. Len(m) /\ from + k \in 1 .. Len(m)
        BY <2>1, <2>4
      <4>2. QED
        BY <1>1, <1>2, <4>1
    <3>3. QED
      BY <1>2, <2>1, <2>6, <3>1, <3>2
  <2>7. QED
    BY <2>5, <2>6 DEF ReadContract, result
<1>5. QED
  BY <1>3, <1>4

=============================================================================

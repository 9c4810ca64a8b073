------------------------------- MODULE Store -------------------------------
(***************************************************************************)
(* The partition log of broker/store.go: type Message, the Store interface *)
(* and its in-memory implementation memoryLog, as operators on a sequence  *)
(* of messages.  The sequence m stands for the field msgs; Go index i is   *)
(* m[i + 1].  Partition.tla calls these operators under its lock.          *)
(***************************************************************************)
EXTENDS Integers, Sequences

CONSTANTS
    Payloads,   \* what a message carries: opaque bytes, never inspected here
    MaxInt      \* largest signed machine integer (2^63 - 1 for int64)

ASSUME StoreAssumption == MaxInt \in Nat \ {0}

\* The values of Go's int and int64.
MachineInts == -MaxInt - 1 .. MaxInt

Message == [Offset : Nat, Payload : Payloads]

Lesser(a, b) == IF a <= b THEN a ELSE b

\* A sum of two machine integers, in two's complement: it wraps at most once.
WrappingSum(a, b) ==
    LET sum == a + b
    IN  IF sum > MaxInt THEN sum - 2 * (MaxInt + 1)
        ELSE IF sum < -MaxInt - 1 THEN sum + 2 * (MaxInt + 1)
        ELSE sum

-----------------------------------------------------------------------------

\* memoryLog.Len, which is also the offset that Append returns.
NextOffset(m) == Len(m)

\* The log after memoryLog.Append(payload).
AppendMsg(m, payload) ==
    Append(m, [Offset |-> NextOffset(m), Payload |-> payload])

\* A slip in Read: adding first and clamping afterwards.
ReadEndUnclamped(m, from, max) == Lesser(Len(m), WrappingSum(from, max))

\* The end of the slice that memoryLog.Read copies: max is first cut down to
\* what is left, so that the addition stays in range.
ReadEnd(m, from, max) ==
    Lesser(Len(m), WrappingSum(from, Lesser(max, Len(m) - from)))

\* memoryLog.Read(from, max): the messages, <<>> standing for nil.
ReadMsgs(m, from, max) ==
    IF from < 0 \/ from >= Len(m) \/ max <= 0
    THEN <<>>
    ELSE SubSeq(m, from + 1, ReadEnd(m, from, max))

\* What the Store interface promises of Read(from, max), over the integers:
\* exactly the messages whose offset lies in [from, from + max), in offset
\* order, and nothing for a negative from.
ReadContract(m, from, max) ==
    LET result == ReadMsgs(m, from, max)
        wanted == { i \in 1 .. Len(m) : /\ from >= 0
                                        /\ from <= m[i].Offset
                                        /\ m[i].Offset < from + max }
    IN  /\ { result[k] : k \in 1 .. Len(result) } = { m[i] : i \in wanted }
        /\ \A j, k \in 1 .. Len(result) :
              j < k => result[j].Offset < result[k].Offset

=============================================================================

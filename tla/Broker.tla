------------------------------- MODULE Broker -------------------------------
(***************************************************************************)
(* The facade: broker/broker.go.  A map from topic names to partitions,    *)
(* guarded by a read-write mutex, over partitions that have their own      *)
(* locks.  Every operation but CreateTopic and Close first looks its topic *)
(* up under the read lock, releases that lock, and only then works on the  *)
(* partition: Close may run in between.  Close holds the write lock while  *)
(* it closes one partition after the other.                                *)
(*                                                                         *)
(* An operation of a partition is one step here: Partition.tla shows that  *)
(* a partition behaves so (theorem Refinement of PartitionProofs).     *)
(* Partitions are heap objects, reached through the map or through a       *)
(* pointer that a lookup has returned.                                     *)
(***************************************************************************)
EXTENDS Integers, Sequences, FiniteSets

CONSTANTS
    Topics,         \* the names that callers use
    InvalidNames,   \* those that ValidateTopicName refuses
    Partitions,     \* heap addresses of partitions
    Subs,           \* subscriptions that can be handed out
    Callers,        \* goroutines that use the broker, one call at a time
    Closers,        \* goroutines that call Close
    Batches,        \* what is published
    MaxTopics,      \* WithMaxTopics; 0 or less means no limit
    MaxLog,         \* bound: longest log of a partition
    None            \* no partition, no holder of the lock

\* What may come into a topic.
Payloads == UNION { { batch[i] : i \in 1 .. Len(batch) } : batch \in Batches }

ASSUME BrokerAssumption ==
    /\ InvalidNames \subseteq Topics
    /\ \A batch \in Batches : batch \in Seq(Payloads)
    /\ MaxTopics \in Int /\ MaxLog \in Nat
    /\ None \notin Partitions /\ None \notin Callers \union Closers

VARIABLES
    writer,     \* the closer that holds Broker.mu for writing, or None
    closed,     \* Broker.closed
    topics,     \* Broker.topics: the partition of each name, or None
    logs,       \* logs[q]: the log of partition q
    shut,       \* shut[q]: Partition.closed
    subs,       \* subs[q]: Partition.subs
    subAt,      \* subAt[s]: the partition that subscription s belongs to
    call,       \* call[c]: the call that c is in
    result,     \* result[c]: how the last call of c ended
    closing,    \* partitions that the running Close has still to close
    home,       \* history: the partition last registered under each name
    closeReturned   \* history: some Close has returned

brokerVars == <<writer, closed, topics, closing, home, closeReturned>>
partVars == <<logs, shut, subs, subAt>>
callerVars == <<call, result>>
vars == <<brokerVars, partVars, callerVars>>

Operations == {"create", "publish", "subscribe", "count", "list"}

\* A call: what and for which topic, the partition once found, and, for the
\* properties, whether its topic had been created and Close had returned
\* before the call began.
Idle == [op |-> "none", topic |-> None, part |-> None,
         known |-> FALSE, late |-> FALSE]

Registered == { t \in Topics : topics[t] # None }

\* Partitions not yet allocated by newPartition.
Fresh == { q \in Partitions : \A t \in Topics : home[t] # q }

Init ==
    /\ writer = None
    /\ closed = FALSE
    /\ topics = [t \in Topics |-> None]
    /\ logs = [q \in Partitions |-> <<>>]
    /\ shut = [q \in Partitions |-> FALSE]
    /\ subs = [q \in Partitions |-> {}]
    /\ subAt = [s \in Subs |-> None]
    /\ call = [c \in Callers |-> Idle]
    /\ result = [c \in Callers |-> "none"]
    /\ closing = {}
    /\ home = [t \in Topics |-> None]
    /\ closeReturned = FALSE

-----------------------------------------------------------------------------
\* Single checks, each with what a slip would make of it

\* The limit that CreateTopic enforces.
Full == MaxTopics > 0 /\ Cardinality(Registered) >= MaxTopics

\* The duplicate check in CreateTopic, and the map access of a lookup.
DuplicateNever(t) == FALSE
Duplicate(t) == topics[t] # None
Exists(t) == topics[t] # None

\* The map that Close leaves.
NilMap == <<>>
EmptyMap == [t \in Topics |-> None]

\* The check of closed with which every operation begins.
RefusesNothing == FALSE
Refuses == closed

\* The check of Partition.closed by partition operations.
Takes(q) == ~shut[q]

\* Whether a Close has nothing left to do, and whether it may run.
CloseIgnoresLock == TRUE
LockFree == writer = None

\* What Close leaves of the write lock.
LockKept == UNCHANGED writer
Unlock == writer' = None

-----------------------------------------------------------------------------
\* Calls

\* Bounds of the model, applied before a call begins so that none gets stuck.
InFlight(op) == Cardinality({ c \in Callers : call[c].op = op })
WithinBounds(op) ==
    /\ op = "create" => Cardinality(Fresh) > InFlight("create")
    /\ op = "subscribe" =>
          Cardinality({ s \in Subs : subAt[s] = None }) > InFlight("subscribe")
    /\ op = "publish" =>
          \A q \in Partitions, batch \in Batches :
              Len(logs[q]) + (1 + InFlight("publish")) * Len(batch) <= MaxLog

Begin(c, op, t) ==
    /\ call[c] = Idle
    /\ WithinBounds(op)
    /\ call' = [call EXCEPT ![c] = [op |-> op, topic |-> t, part |-> None,
                                    known |-> home[t] # None,
                                    late |-> closeReturned]]
    /\ result' = [result EXCEPT ![c] = "none"]
    /\ UNCHANGED <<brokerVars, partVars>>

Return(c, how) ==
    /\ call' = [call EXCEPT ![c] = Idle]
    /\ result' = [result EXCEPT ![c] = how]

\* Between calls.
InCall(c, op) == call[c].op = op /\ call[c].part = None /\ LockFree

\* CreateTopic refuses, for the first reason that applies.
CreateRefused(c) ==
    LET t == call[c].topic
    IN  /\ InCall(c, "create")
        /\ \/ Refuses /\ Return(c, "closed")
           \/ ~Refuses /\ t \in InvalidNames /\ Return(c, "invalid")
           \/ /\ ~Refuses /\ t \notin InvalidNames
              /\ Duplicate(t) /\ Return(c, "exists")
           \/ /\ ~Refuses /\ t \notin InvalidNames /\ ~Duplicate(t)
              /\ Full /\ Return(c, "toomany")
        /\ UNCHANGED <<brokerVars, partVars>>

\* CreateTopic gets that far; the store factory may still return nil.
CreateTopic(c) ==
    LET t == call[c].topic
    IN  /\ InCall(c, "create")
        /\ ~Refuses /\ t \notin InvalidNames /\ ~Duplicate(t) /\ ~Full
        /\ \/ /\ Return(c, "nostore")
              /\ UNCHANGED brokerVars
           \/ /\ \E q \in Fresh :
                    /\ topics' = [topics EXCEPT ![t] = q]
                    /\ home' = [home EXCEPT ![t] = q]
              /\ Return(c, "ok")
              /\ UNCHANGED <<writer, closed, closing, closeReturned>>
        /\ UNCHANGED partVars

\* ListTopics and TopicCount.
List(c) ==
    /\ InCall(c, "list")
    /\ Return(c, IF Refuses THEN "closed" ELSE "ok")
    /\ UNCHANGED <<brokerVars, partVars>>

\* Broker.topic fails: closed comes before not found.
LookupFails(c) ==
    /\ \E op \in {"publish", "subscribe", "count"} : InCall(c, op)
    /\ \/ Refuses /\ Return(c, "closed")
       \/ ~Refuses /\ ~Exists(call[c].topic) /\ Return(c, "notfound")
    /\ UNCHANGED <<brokerVars, partVars>>

\* Broker.topic finds the partition; the read lock is released.
Lookup(c) ==
    /\ \E op \in {"publish", "subscribe", "count"} : InCall(c, op)
    /\ ~Refuses
    /\ Exists(call[c].topic)
    /\ call' = [call EXCEPT ![c].part = topics[call[c].topic]]
    /\ UNCHANGED <<brokerVars, partVars, result>>

Found(c, op) == call[c].op = op /\ call[c].part # None

\* Partition.Publish or PublishBatch, on the partition found before.
Publish(c) ==
    LET q == call[c].part
    IN  /\ Found(c, "publish")
        /\ \/ /\ ~Takes(q)
              /\ Return(c, "closed")
              /\ UNCHANGED logs
           \/ /\ Takes(q)
              /\ \E batch \in Batches :
                    logs' = [logs EXCEPT ![q] = @ \o batch]
              /\ Return(c, "ok")
        /\ UNCHANGED <<brokerVars, shut, subs, subAt>>

\* Partition.Subscribe.
Subscribe(c) ==
    LET q == call[c].part
    IN  /\ Found(c, "subscribe")
        /\ \/ /\ ~Takes(q)
              /\ Return(c, "closed")
              /\ UNCHANGED <<subs, subAt>>
           \/ /\ Takes(q)
              /\ \E s \in Subs :
                    /\ subAt[s] = None
                    /\ subAt' = [subAt EXCEPT ![s] = q]
                    /\ subs' = [subs EXCEPT ![q] = @ \union {s}]
              /\ Return(c, "ok")
        /\ UNCHANGED <<brokerVars, logs, shut>>

\* Partition.subscriberCount answers even when the partition is closed.
SubscriberCount(c) ==
    /\ Found(c, "count")
    /\ Return(c, "ok")
    /\ UNCHANGED <<brokerVars, partVars>>

\* Subscription.Close goes to the partition, not through the broker.
CloseSubscription(s) ==
    /\ subAt[s] # None
    /\ s \in subs[subAt[s]]
    /\ subs' = [subs EXCEPT ![subAt[s]] = @ \ {s}]
    /\ UNCHANGED <<brokerVars, logs, shut, subAt, callerVars>>

-----------------------------------------------------------------------------
\* Broker.Close

BeginClose(k) ==
    /\ LockFree
    /\ ~closed
    /\ writer' = k
    /\ closed' = TRUE
    /\ closing' = { topics[t] : t \in Registered }
    /\ UNCHANGED <<topics, home, closeReturned, partVars, callerVars>>

\* A Close that finds the broker closed returns nil at once: at once after it
\* has got the lock.
CloseAgain(k) ==
    /\ LockFree
    /\ closed
    /\ closeReturned' = TRUE
    /\ UNCHANGED <<writer, closed, topics, closing, home, partVars, callerVars>>

\* Partition.close of the next partition, in map order, which is any order.
ClosePartition(k, q) ==
    /\ writer = k
    /\ q \in closing
    /\ closing' = closing \ {q}
    /\ shut' = [shut EXCEPT ![q] = TRUE]
    /\ subs' = [subs EXCEPT ![q] = {}]
    /\ UNCHANGED <<writer, closed, topics, home, closeReturned, logs, subAt,
                   callerVars>>

EndClose(k) ==
    /\ writer = k
    /\ closing = {}
    /\ topics' = EmptyMap
    /\ Unlock
    /\ closeReturned' = TRUE
    /\ UNCHANGED <<closed, closing, home, partVars, callerVars>>

-----------------------------------------------------------------------------

CallStep(c) ==
    \/ CreateRefused(c) \/ CreateTopic(c) \/ List(c) \/ LookupFails(c)
    \/ Lookup(c) \/ Publish(c) \/ Subscribe(c) \/ SubscriberCount(c)

CloseStep(k) == EndClose(k) \/ \E q \in Partitions : ClosePartition(k, q)

Next ==
    \/ \E c \in Callers :
          CallStep(c) \/ \E op \in Operations, t \in Topics : Begin(c, op, t)
    \/ \E s \in Subs : CloseSubscription(s)
    \/ \E k \in Closers : BeginClose(k) \/ CloseAgain(k) \/ CloseStep(k)

Spec == Init /\ [][Next]_vars

=============================================================================

---------------------------- MODULE BrokerProofs ----------------------------
(***************************************************************************)
(* The safety of Broker.tla for any number of topics, partitions, callers  *)
(* and closers: InductiveInv is preserved by every step,                   *)
(* one lemma per conjunct, one step per action; and each topic implements  *)
(* BroadcastLog.tla.                                                       *)
(***************************************************************************)
EXTENDS BrokerProps, FiniteSetTheorems, SequenceTheorems, TLAPS

-----------------------------------------------------------------------------
\* The inductive invariant

\* Only a Close that runs holds the lock and has partitions left to close; the
\* broker has been marked closed before, and stays so.
CloseInv ==
    /\ writer # None => closed
    /\ closing # {} => writer # None
    /\ closeReturned => closed /\ closing = {}

\* Until the broker is closed the map holds every topic ever created, and no
\* partition serves two of them.
HomeInv ==
    /\ ~closed => topics = home
    /\ \A t, u \in Topics : home[t] # None /\ home[t] = home[u] => t = u

\* Nobody has touched a partition that has not been allocated.
FreshInv ==
    \A q \in Fresh :
        /\ logs[q] = <<>> /\ ~shut[q] /\ subs[q] = {}
        /\ q \notin closing
        /\ \A s \in Subs : subAt[s] # q

\* A call knows its topic.  The partition it has found is the one that the topic
\* had and keeps; a topic that was known stays; who comes after Close finds none.
CallInv ==
    \A c \in Callers :
        /\ call[c].op # "none" => call[c].topic \in Topics
        /\ call[c].part # None =>
              call[c].topic \in Topics /\ home[call[c].topic] = call[c].part
        /\ call[c].known => call[c].topic \in Topics /\ home[call[c].topic] # None
        /\ call[c].late => closeReturned /\ call[c].part = None

\* No partition is shut before Close.  From then on each one either is, and has
\* lost its subscriptions, or Close has still to come to it.
ShutInv ==
    /\ \A q \in Partitions :
          /\ shut[q] => closed /\ subs[q] = {} /\ q \notin closing
          /\ \A s \in subs[q] : subAt[s] = q
    /\ closed =>
          \A t \in Topics : home[t] # None => shut[home[t]] \/ home[t] \in closing

InductiveInv == TypeOK /\ CloseInv /\ HomeInv /\ FreshInv /\ CallInv /\ ShutInv

-----------------------------------------------------------------------------

\* The names of single checks stand for their definitions.
USE DEF Duplicate, Exists, EmptyMap, Refuses, Takes, LockFree, Unlock

\* The initial states satisfy InductiveInv.
LEMMA InitInv == Init => InductiveInv
<1> SUFFICES ASSUME Init PROVE InductiveInv
  OBVIOUS
<1>1. <<>> \in Seq(Payloads)
  OBVIOUS
<1>2. TypeOK
  BY <1>1 DEF Init, TypeOK, CallTypes, Idle, Results
<1>3. CloseInv /\ HomeInv /\ FreshInv /\ CallInv /\ ShutInv
  BY BrokerAssumption DEF Init, CloseInv, HomeInv, FreshInv, Fresh, CallInv, ShutInv, Idle
<1>4. QED
  BY <1>2, <1>3 DEF InductiveInv

-----------------------------------------------------------------------------
\* What the steps that need a closer look do

\* A return leaves the caller without a call, and with a result.
LEMMA ReturnEffect ==
    ASSUME InductiveInv, NEW c \in Callers, NEW how \in Results, Return(c, how)
    PROVE  /\ call' \in [Callers -> CallTypes] /\ result' \in [Callers -> Results]
           /\ call' = [call EXCEPT ![c] = Idle]
<1>1. Idle \in CallTypes
  BY DEF Idle, CallTypes
<1>2. QED
  BY <1>1 DEF Return, InductiveInv, TypeOK

\* Every step that ends a call returns.
LEMMA CallsReturn ==
    ASSUME NEW c \in Callers,
           \/ CreateRefused(c) \/ CreateTopic(c) \/ List(c) \/ LookupFails(c)
           \/ Publish(c) \/ Subscribe(c) \/ SubscriberCount(c)
    PROVE  \E how \in Results : Return(c, how)
<1> USE DEF Results
<1>1. CASE CreateRefused(c)
  BY <1>1 DEF CreateRefused
<1>2. CASE CreateTopic(c)
  BY <1>2 DEF CreateTopic
<1>3. CASE List(c)
  BY <1>3 DEF List
<1>4. CASE LookupFails(c)
  BY <1>4 DEF LookupFails
<1>5. CASE Publish(c)
  BY <1>5 DEF Publish
<1>6. CASE Subscribe(c)
  BY <1>6 DEF Subscribe
<1>7. CASE SubscriberCount(c)
  BY <1>7 DEF SubscriberCount
<1>8. QED
  BY <1>1, <1>2, <1>3, <1>4, <1>5, <1>6, <1>7

\* CreateTopic either fails or gives a new name a new partition.
LEMMA CreateEffect ==
    ASSUME InductiveInv, NEW c \in Callers, CreateTopic(c)
    PROVE  /\ UNCHANGED <<writer, closed, closing, closeReturned, partVars>>
           /\ \/ UNCHANGED <<topics, home>>
              \/ \E t \in Topics, q \in Partitions :
                    /\ ~closed /\ home[t] = None /\ q \in Fresh
                    /\ topics' = [home EXCEPT ![t] = q]
                    /\ home' = [home EXCEPT ![t] = q]
<1>1. /\ call[c].topic \in Topics /\ ~closed /\ topics = home
      /\ topics[call[c].topic] = None
  BY DEF CreateTopic, InCall, InductiveInv, CallInv, HomeInv
<1>2. QED
  BY <1>1 DEF CreateTopic, Fresh, brokerVars

\* Publish puts one of the batches behind the log of a partition that is open.
LEMMA PublishEffect ==
    ASSUME InductiveInv, NEW c \in Callers, Publish(c)
    PROVE  /\ UNCHANGED <<brokerVars, shut, subs, subAt>>
           /\ \/ UNCHANGED logs
              \/ \E t \in Topics, q \in Partitions, batch \in Batches :
                    /\ q = home[t] /\ ~shut[q]
                    /\ logs[q] \in Seq(Payloads) /\ logs[q] \o batch \in Seq(Payloads)
                    /\ logs' = [logs EXCEPT ![q] = logs[q] \o batch]
<1>1. CASE Takes(call[c].part)
  <2>1. /\ call[c].part \in Partitions /\ call[c].topic \in Topics
        /\ home[call[c].topic] = call[c].part
    BY DEF Publish, Found, InductiveInv, TypeOK, CallTypes, CallInv
  <2>2. PICK batch \in Batches :
            logs' = [logs EXCEPT ![call[c].part] = @ \o batch]
    BY <1>1 DEF Publish
  <2>3. /\ logs[call[c].part] \in Seq(Payloads)
        /\ logs[call[c].part] \o batch \in Seq(Payloads)
    BY <2>1, BrokerAssumption, ConcatProperties DEF InductiveInv, TypeOK
  <2>4. QED
    BY <1>1, <2>1, <2>2, <2>3 DEF Publish
<1>2. QED
  BY <1>1 DEF Publish

\* Subscribe hands out a new subscription of a partition that is open.
LEMMA SubscribeEffect ==
    ASSUME InductiveInv, NEW c \in Callers, Subscribe(c)
    PROVE  /\ UNCHANGED <<brokerVars, logs, shut>>
           /\ \/ UNCHANGED <<subs, subAt>>
              \/ \E t \in Topics, q \in Partitions, s \in Subs :
                    /\ q = home[t] /\ ~shut[q] /\ subAt[s] = None
                    /\ subAt' = [subAt EXCEPT ![s] = q]
                    /\ subs' = [subs EXCEPT ![q] = subs[q] \union {s}]
<1>1. /\ call[c].part \in Partitions /\ call[c].topic \in Topics
      /\ home[call[c].topic] = call[c].part
  BY DEF Subscribe, Found, InductiveInv, TypeOK, CallTypes, CallInv
<1>2. QED
  BY <1>1 DEF Subscribe

-----------------------------------------------------------------------------
\* The steps preserve the invariant

\* Every step keeps the types.
LEMMA TypeStep == InductiveInv /\ [Next]_vars => TypeOK'
<1> SUFFICES ASSUME InductiveInv, [Next]_vars PROVE TypeOK'
  OBVIOUS
<1> USE DEF vars, brokerVars, partVars, callerVars
<1>a. TypeOK
  BY DEF InductiveInv
<1>1. ASSUME NEW c \in Callers, NEW op \in Operations, NEW t \in Topics,
             Begin(c, op, t)
      PROVE  TypeOK'
  BY <1>1, <1>a DEF Begin, TypeOK, CallTypes, Results
<1>2. ASSUME NEW c \in Callers, CreateRefused(c) PROVE TypeOK'
  <2>1. call' \in [Callers -> CallTypes] /\ result' \in [Callers -> Results]
    BY <1>2, CallsReturn, ReturnEffect
  <2>2. QED
    BY <1>2, <1>a, <2>1 DEF CreateRefused, TypeOK
<1>3. ASSUME NEW c \in Callers, CreateTopic(c) PROVE TypeOK'
  <2>1. call' \in [Callers -> CallTypes] /\ result' \in [Callers -> Results]
    BY <1>3, CallsReturn, ReturnEffect
  <2>3. /\ topics' \in [Topics -> Partitions \union {None}]
        /\ home' \in [Topics -> Partitions \union {None}]
    <3>1. CASE UNCHANGED <<topics, home>>
      BY <1>3, <3>1, CreateEffect DEF InductiveInv, TypeOK
    <3>2. CASE ~UNCHANGED <<topics, home>>
      <4>1. PICK t \in Topics, q \in Partitions :
                /\ ~closed /\ home[t] = None /\ q \in Fresh
                /\ topics' = [home EXCEPT ![t] = q] /\ home' = [home EXCEPT ![t] = q]
        BY <1>3, <3>2, CreateEffect
      <4>2. QED
        BY <1>3, <4>1, CreateEffect, BrokerAssumption DEF InductiveInv, TypeOK
    <3>3. QED
      BY <3>1, <3>2
  <2>4. QED
    BY <2>1, <2>3, <1>a, <1>3, CreateEffect DEF TypeOK
<1>4. ASSUME NEW c \in Callers, List(c) PROVE TypeOK'
  <2>1. call' \in [Callers -> CallTypes] /\ result' \in [Callers -> Results]
    BY <1>4, CallsReturn, ReturnEffect
  <2>2. QED
    BY <1>4, <1>a, <2>1 DEF List, TypeOK
<1>5. ASSUME NEW c \in Callers, LookupFails(c) PROVE TypeOK'
  <2>1. call' \in [Callers -> CallTypes] /\ result' \in [Callers -> Results]
    BY <1>5, CallsReturn, ReturnEffect
  <2>2. QED
    BY <1>5, <1>a, <2>1 DEF LookupFails, TypeOK
<1>6. ASSUME NEW c \in Callers, Lookup(c) PROVE TypeOK'
  <2>1. topics[call[c].topic] \in Partitions \union {None}
    BY <1>6, <1>a DEF Lookup, InCall, InductiveInv, CallInv, TypeOK
  <2>2. [call[c] EXCEPT !.part = topics[call[c].topic]] \in CallTypes
    <3>1. call[c] \in CallTypes
      BY <1>a DEF TypeOK
    <3>2. QED
      BY <2>1, <3>1 DEF CallTypes
  <2>3. QED
    BY <1>6, <1>a, <2>2 DEF Lookup, TypeOK
<1>7. ASSUME NEW c \in Callers, Publish(c) PROVE TypeOK'
  <2>1. call' \in [Callers -> CallTypes] /\ result' \in [Callers -> Results]
    BY <1>7, CallsReturn, ReturnEffect
  <2>3. logs' \in [Partitions -> Seq(Payloads)]
    <3>1. CASE UNCHANGED logs
      BY <1>7, <3>1, PublishEffect DEF InductiveInv, TypeOK
    <3>2. CASE ~UNCHANGED logs
      <4>1. PICK t \in Topics, q \in Partitions, batch \in Batches :
                /\ q = home[t] /\ ~shut[q] /\ logs[q] \o batch \in Seq(Payloads)
                /\ logs' = [logs EXCEPT ![q] = logs[q] \o batch]
        BY <1>7, <3>2, PublishEffect
      <4>2. QED
        BY <1>7, <4>1, PublishEffect, BrokerAssumption DEF InductiveInv, TypeOK
    <3>3. QED
      BY <3>1, <3>2
  <2>4. QED
    BY <2>1, <2>3, <1>a, <1>7, PublishEffect DEF TypeOK
<1>8. ASSUME NEW c \in Callers, Subscribe(c) PROVE TypeOK'
  <2>1. call' \in [Callers -> CallTypes] /\ result' \in [Callers -> Results]
    BY <1>8, CallsReturn, ReturnEffect
  <2>3. /\ subs' \in [Partitions -> SUBSET Subs]
        /\ subAt' \in [Subs -> Partitions \union {None}]
    <3>1. CASE UNCHANGED <<subs, subAt>>
      BY <1>8, <3>1, SubscribeEffect DEF InductiveInv, TypeOK
    <3>2. CASE ~UNCHANGED <<subs, subAt>>
      <4>1. PICK t \in Topics, q \in Partitions, s \in Subs :
                /\ q = home[t] /\ ~shut[q] /\ subAt[s] = None
                /\ subAt' = [subAt EXCEPT ![s] = q]
                /\ subs' = [subs EXCEPT ![q] = subs[q] \union {s}]
        BY <1>8, <3>2, SubscribeEffect
      <4>2. QED
        BY <1>8, <4>1, SubscribeEffect, BrokerAssumption DEF InductiveInv, TypeOK
    <3>3. QED
      BY <3>1, <3>2
  <2>4. QED
    BY <2>1, <2>3, <1>a, <1>8, SubscribeEffect DEF TypeOK
<1>9. ASSUME NEW c \in Callers, SubscriberCount(c) PROVE TypeOK'
  <2>1. call' \in [Callers -> CallTypes] /\ result' \in [Callers -> Results]
    BY <1>9, CallsReturn, ReturnEffect
  <2>2. QED
    BY <1>9, <1>a, <2>1 DEF SubscriberCount, TypeOK
<1>10. ASSUME NEW s \in Subs, CloseSubscription(s) PROVE TypeOK'
  BY <1>10, <1>a DEF CloseSubscription, TypeOK, Registered
<1>11. ASSUME NEW k \in Closers, BeginClose(k) PROVE TypeOK'
  BY <1>11, <1>a DEF BeginClose, TypeOK, Registered
<1>12. ASSUME NEW k \in Closers, CloseAgain(k) PROVE TypeOK'
  BY <1>12, <1>a DEF CloseAgain, TypeOK, Registered
<1>13. ASSUME NEW k \in Closers, NEW q \in Partitions,
             ClosePartition(k, q)
      PROVE  TypeOK'
  BY <1>13, <1>a DEF ClosePartition, TypeOK, Registered
<1>14. ASSUME NEW k \in Closers, EndClose(k) PROVE TypeOK'
  BY <1>14, <1>a DEF EndClose, TypeOK, Registered
<1>15. CASE UNCHANGED vars
  BY <1>15, <1>a DEF TypeOK, Registered
<1>16. QED
    BY <1>1, <1>2, <1>3, <1>4, <1>5, <1>6, <1>7, <1>8, <1>9, <1>10, <1>11, <1>12,
     <1>13, <1>14, <1>15
     DEF Next, CallStep, CloseStep

\* Only Close changes what CloseInv is about, and it holds the lock.
LEMMA CloseStepInv == InductiveInv /\ [Next]_vars => CloseInv'
<1> SUFFICES ASSUME InductiveInv, [Next]_vars PROVE CloseInv'
  OBVIOUS
<1> USE DEF vars, brokerVars, partVars, callerVars
<1>1. ASSUME NEW c \in Callers, NEW op \in Operations, NEW t \in Topics,
             Begin(c, op, t)
      PROVE  CloseInv'
  BY <1>1, BrokerAssumption DEF Begin, Idle, InductiveInv, TypeOK, CloseInv
<1>2. ASSUME NEW c \in Callers, CreateRefused(c) PROVE CloseInv'
  BY <1>2, BrokerAssumption
     DEF CreateRefused, Return, InCall, Idle, InductiveInv, TypeOK, CloseInv
<1>3. ASSUME NEW c \in Callers, CreateTopic(c) PROVE CloseInv'
  BY <1>3, BrokerAssumption
     DEF CreateTopic, Return, InCall, Idle, InductiveInv, TypeOK, CloseInv
<1>4. ASSUME NEW c \in Callers, List(c) PROVE CloseInv'
  BY <1>4, BrokerAssumption
     DEF List, Return, InCall, Idle, InductiveInv, TypeOK, CloseInv
<1>5. ASSUME NEW c \in Callers, LookupFails(c) PROVE CloseInv'
  BY <1>5, BrokerAssumption
     DEF LookupFails, Return, InCall, Idle, InductiveInv, TypeOK, CloseInv
<1>6. ASSUME NEW c \in Callers, Lookup(c) PROVE CloseInv'
  BY <1>6, BrokerAssumption DEF Lookup, InCall, InductiveInv, TypeOK, CloseInv
<1>7. ASSUME NEW c \in Callers, Publish(c) PROVE CloseInv'
  BY <1>7, BrokerAssumption
     DEF Publish, Return, Found, Idle, InductiveInv, TypeOK, CloseInv
<1>8. ASSUME NEW c \in Callers, Subscribe(c) PROVE CloseInv'
  BY <1>8, BrokerAssumption
     DEF Subscribe, Return, Found, Idle, InductiveInv, TypeOK, CloseInv
<1>9. ASSUME NEW c \in Callers, SubscriberCount(c) PROVE CloseInv'
  BY <1>9, BrokerAssumption
     DEF SubscriberCount, Return, Found, Idle, InductiveInv, TypeOK, CloseInv
<1>10. ASSUME NEW s \in Subs, CloseSubscription(s) PROVE CloseInv'
  BY <1>10, BrokerAssumption DEF CloseSubscription, InductiveInv, TypeOK, CloseInv
<1>11. ASSUME NEW k \in Closers, BeginClose(k) PROVE CloseInv'
  BY <1>11, BrokerAssumption DEF BeginClose, InductiveInv, TypeOK, CloseInv
<1>12. ASSUME NEW k \in Closers, CloseAgain(k) PROVE CloseInv'
  BY <1>12, BrokerAssumption DEF CloseAgain, InductiveInv, TypeOK, CloseInv
<1>13. ASSUME NEW k \in Closers, NEW q \in Partitions,
             ClosePartition(k, q)
      PROVE  CloseInv'
  BY <1>13, BrokerAssumption DEF ClosePartition, InductiveInv, TypeOK, CloseInv
<1>14. ASSUME NEW k \in Closers, EndClose(k) PROVE CloseInv'
  BY <1>14, BrokerAssumption DEF EndClose, InductiveInv, TypeOK, CloseInv
<1>15. CASE UNCHANGED vars
  BY <1>15, BrokerAssumption DEF InductiveInv, TypeOK, CloseInv
<1>16. QED
    BY <1>1, <1>2, <1>3, <1>4, <1>5, <1>6, <1>7, <1>8, <1>9, <1>10, <1>11, <1>12,
     <1>13, <1>14, <1>15
     DEF Next, CallStep, CloseStep

\* A topic is created once, on a partition of its own.
LEMMA HomeStep == InductiveInv /\ [Next]_vars => HomeInv'
<1> SUFFICES ASSUME InductiveInv, [Next]_vars PROVE HomeInv'
  OBVIOUS
<1> USE DEF vars, brokerVars, partVars, callerVars
<1>1. ASSUME NEW c \in Callers, NEW op \in Operations, NEW t \in Topics,
             Begin(c, op, t)
      PROVE  HomeInv'
  BY <1>1, BrokerAssumption DEF Begin, Idle, InductiveInv, TypeOK, CloseInv, HomeInv
<1>2. ASSUME NEW c \in Callers, CreateRefused(c) PROVE HomeInv'
  BY <1>2, BrokerAssumption
     DEF CreateRefused, Return, InCall, Idle, InductiveInv, TypeOK, CloseInv, HomeInv
<1>3. ASSUME NEW c \in Callers, CreateTopic(c) PROVE HomeInv'
  <2>1. CASE UNCHANGED <<topics, home>>
    BY <1>3, <2>1, CreateEffect DEF InductiveInv, TypeOK, HomeInv, Fresh
  <2>2. CASE ~UNCHANGED <<topics, home>>
    <3>1. PICK t \in Topics, q \in Partitions :
              /\ ~closed /\ home[t] = None /\ q \in Fresh
              /\ topics' = [home EXCEPT ![t] = q] /\ home' = [home EXCEPT ![t] = q]
      BY <1>3, <2>2, CreateEffect
    <3>2. QED
      BY <1>3, <3>1, CreateEffect, BrokerAssumption
         DEF InductiveInv, TypeOK, HomeInv, Fresh
  <2>3. QED
    BY <2>1, <2>2
<1>4. ASSUME NEW c \in Callers, List(c) PROVE HomeInv'
  BY <1>4, BrokerAssumption
     DEF List, Return, InCall, Idle, InductiveInv, TypeOK, CloseInv, HomeInv
<1>5. ASSUME NEW c \in Callers, LookupFails(c) PROVE HomeInv'
  BY <1>5, BrokerAssumption
     DEF LookupFails, Return, InCall, Idle, InductiveInv, TypeOK, CloseInv, HomeInv
<1>6. ASSUME NEW c \in Callers, Lookup(c) PROVE HomeInv'
  BY <1>6, BrokerAssumption DEF Lookup, InCall, InductiveInv, TypeOK, CloseInv, HomeInv
<1>7. ASSUME NEW c \in Callers, Publish(c) PROVE HomeInv'
  BY <1>7, BrokerAssumption
     DEF Publish, Return, Found, Idle, InductiveInv, TypeOK, CloseInv, HomeInv
<1>8. ASSUME NEW c \in Callers, Subscribe(c) PROVE HomeInv'
  BY <1>8, BrokerAssumption
     DEF Subscribe, Return, Found, Idle, InductiveInv, TypeOK, CloseInv, HomeInv
<1>9. ASSUME NEW c \in Callers, SubscriberCount(c) PROVE HomeInv'
  BY <1>9, BrokerAssumption
     DEF SubscriberCount, Return, Found, Idle, InductiveInv, TypeOK, CloseInv, HomeInv
<1>10. ASSUME NEW s \in Subs, CloseSubscription(s) PROVE HomeInv'
  BY <1>10, BrokerAssumption
     DEF CloseSubscription, InductiveInv, TypeOK, CloseInv, HomeInv
<1>11. ASSUME NEW k \in Closers, BeginClose(k) PROVE HomeInv'
  BY <1>11, BrokerAssumption DEF BeginClose, InductiveInv, TypeOK, CloseInv, HomeInv
<1>12. ASSUME NEW k \in Closers, CloseAgain(k) PROVE HomeInv'
  BY <1>12, BrokerAssumption DEF CloseAgain, InductiveInv, TypeOK, CloseInv, HomeInv
<1>13. ASSUME NEW k \in Closers, NEW q \in Partitions,
             ClosePartition(k, q)
      PROVE  HomeInv'
  BY <1>13, BrokerAssumption DEF ClosePartition, InductiveInv, TypeOK, CloseInv, HomeInv
<1>14. ASSUME NEW k \in Closers, EndClose(k) PROVE HomeInv'
  BY <1>14, BrokerAssumption DEF EndClose, InductiveInv, TypeOK, CloseInv, HomeInv
<1>15. CASE UNCHANGED vars
  BY <1>15, BrokerAssumption DEF InductiveInv, TypeOK, CloseInv, HomeInv
<1>16. QED
    BY <1>1, <1>2, <1>3, <1>4, <1>5, <1>6, <1>7, <1>8, <1>9, <1>10, <1>11, <1>12,
     <1>13, <1>14, <1>15
     DEF Next, CallStep, CloseStep

\* Calls work on partitions that have been allocated.
LEMMA FreshStep == InductiveInv /\ [Next]_vars => FreshInv'
<1> SUFFICES ASSUME InductiveInv, [Next]_vars PROVE FreshInv'
  OBVIOUS
<1> USE DEF vars, brokerVars, partVars, callerVars
<1>1. ASSUME NEW c \in Callers, NEW op \in Operations, NEW t \in Topics,
             Begin(c, op, t)
      PROVE  FreshInv'
  BY <1>1, BrokerAssumption
     DEF Begin, Idle, InductiveInv, TypeOK, CloseInv, HomeInv, FreshInv, CallInv,
         Fresh
<1>2. ASSUME NEW c \in Callers, CreateRefused(c) PROVE FreshInv'
  BY <1>2, BrokerAssumption
     DEF CreateRefused, Return, InCall, Idle, InductiveInv, TypeOK, CloseInv, HomeInv,
         FreshInv, CallInv, Fresh
<1>3. ASSUME NEW c \in Callers, CreateTopic(c) PROVE FreshInv'
  <2>1. CASE UNCHANGED <<topics, home>>
    BY <1>3, <2>1, CreateEffect DEF InductiveInv, TypeOK, FreshInv, Fresh
  <2>2. CASE ~UNCHANGED <<topics, home>>
    <3>1. PICK t \in Topics, q \in Partitions :
              /\ ~closed /\ home[t] = None /\ q \in Fresh
              /\ topics' = [home EXCEPT ![t] = q] /\ home' = [home EXCEPT ![t] = q]
      BY <1>3, <2>2, CreateEffect
    <3>2. QED
      BY <1>3, <3>1, CreateEffect, BrokerAssumption
         DEF InductiveInv, TypeOK, FreshInv, Fresh
  <2>3. QED
    BY <2>1, <2>2
<1>4. ASSUME NEW c \in Callers, List(c) PROVE FreshInv'
  BY <1>4, BrokerAssumption
     DEF List, Return, InCall, Idle, InductiveInv, TypeOK, CloseInv, HomeInv,
         FreshInv, CallInv, Fresh
<1>5. ASSUME NEW c \in Callers, LookupFails(c) PROVE FreshInv'
  BY <1>5, BrokerAssumption
     DEF LookupFails, Return, InCall, Idle, InductiveInv, TypeOK, CloseInv, HomeInv,
         FreshInv, CallInv, Fresh
<1>6. ASSUME NEW c \in Callers, Lookup(c) PROVE FreshInv'
  BY <1>6, BrokerAssumption
     DEF Lookup, InCall, InductiveInv, TypeOK, CloseInv, HomeInv, FreshInv, CallInv,
         Fresh
<1>7. ASSUME NEW c \in Callers, Publish(c) PROVE FreshInv'
  <2>1. CASE UNCHANGED logs
    BY <1>7, <2>1, PublishEffect DEF InductiveInv, TypeOK, FreshInv, Fresh
  <2>2. CASE ~UNCHANGED logs
    <3>1. PICK t \in Topics, q \in Partitions, batch \in Batches :
              /\ q = home[t] /\ ~shut[q] /\ logs[q] \o batch \in Seq(Payloads)
              /\ logs' = [logs EXCEPT ![q] = logs[q] \o batch]
      BY <1>7, <2>2, PublishEffect
    <3>2. QED
      BY <1>7, <3>1, PublishEffect, BrokerAssumption
         DEF InductiveInv, TypeOK, FreshInv, Fresh
  <2>3. QED
    BY <2>1, <2>2
<1>8. ASSUME NEW c \in Callers, Subscribe(c) PROVE FreshInv'
  <2>1. CASE UNCHANGED <<subs, subAt>>
    BY <1>8, <2>1, SubscribeEffect DEF InductiveInv, TypeOK, FreshInv, Fresh
  <2>2. CASE ~UNCHANGED <<subs, subAt>>
    <3>1. PICK t \in Topics, q \in Partitions, s \in Subs :
              /\ q = home[t] /\ ~shut[q] /\ subAt[s] = None
              /\ subAt' = [subAt EXCEPT ![s] = q]
              /\ subs' = [subs EXCEPT ![q] = subs[q] \union {s}]
      BY <1>8, <2>2, SubscribeEffect
    <3>2. QED
      BY <1>8, <3>1, SubscribeEffect, BrokerAssumption
         DEF InductiveInv, TypeOK, FreshInv, Fresh
  <2>3. QED
    BY <2>1, <2>2
<1>9. ASSUME NEW c \in Callers, SubscriberCount(c) PROVE FreshInv'
  BY <1>9, BrokerAssumption
     DEF SubscriberCount, Return, Found, Idle, InductiveInv, TypeOK, CloseInv,
         HomeInv, FreshInv, CallInv, Fresh
<1>10. ASSUME NEW s \in Subs, CloseSubscription(s) PROVE FreshInv'
  BY <1>10, BrokerAssumption
     DEF CloseSubscription, InductiveInv, TypeOK, CloseInv, HomeInv, FreshInv,
         CallInv, Fresh
<1>11. ASSUME NEW k \in Closers, BeginClose(k) PROVE FreshInv'
  BY <1>11 DEF BeginClose, InductiveInv, TypeOK, HomeInv, FreshInv, Fresh, Registered
<1>12. ASSUME NEW k \in Closers, CloseAgain(k) PROVE FreshInv'
  BY <1>12, BrokerAssumption
     DEF CloseAgain, InductiveInv, TypeOK, CloseInv, HomeInv, FreshInv, CallInv, Fresh
<1>13. ASSUME NEW k \in Closers, NEW q \in Partitions,
             ClosePartition(k, q)
      PROVE  FreshInv'
  BY <1>13, BrokerAssumption
     DEF ClosePartition, InductiveInv, TypeOK, CloseInv, HomeInv, FreshInv, CallInv,
         Fresh
<1>14. ASSUME NEW k \in Closers, EndClose(k) PROVE FreshInv'
  BY <1>14, BrokerAssumption
     DEF EndClose, InductiveInv, TypeOK, CloseInv, HomeInv, FreshInv, CallInv, Fresh
<1>15. CASE UNCHANGED vars
  BY <1>15, BrokerAssumption
     DEF InductiveInv, TypeOK, CloseInv, HomeInv, FreshInv, CallInv, Fresh
<1>16. QED
    BY <1>1, <1>2, <1>3, <1>4, <1>5, <1>6, <1>7, <1>8, <1>9, <1>10, <1>11, <1>12,
     <1>13, <1>14, <1>15
     DEF Next, CallStep, CloseStep

\* Calls go through their steps, and the topics they know stay.
LEMMA CallStepInv == InductiveInv /\ [Next]_vars => CallInv'
<1> SUFFICES ASSUME InductiveInv, [Next]_vars PROVE CallInv'
  OBVIOUS
<1> USE DEF vars, brokerVars, partVars, callerVars
<1>1. ASSUME NEW c \in Callers, NEW op \in Operations, NEW t \in Topics,
             Begin(c, op, t)
      PROVE  CallInv'
  BY <1>1, BrokerAssumption
     DEF Begin, Idle, InductiveInv, TypeOK, CallTypes, CloseInv, HomeInv, CallInv
<1>2. ASSUME NEW c \in Callers, CreateRefused(c) PROVE CallInv'
  <2>1. call' = [call EXCEPT ![c] = Idle]
    BY <1>2, CallsReturn, ReturnEffect
  <2>2. QED
    BY <1>2, <2>1 DEF CreateRefused, Idle, InductiveInv, TypeOK, CallTypes, CallInv
<1>3. ASSUME NEW c \in Callers, CreateTopic(c) PROVE CallInv'
  <2>1. call' = [call EXCEPT ![c] = Idle]
    BY <1>3, CallsReturn, ReturnEffect
  <2>2. \A t \in Topics : home[t] # None => home'[t] = home[t]
    BY <1>3, CreateEffect DEF InductiveInv, TypeOK
  <2>3. closeReturned' = closeReturned
    BY <1>3, CreateEffect
  <2>4. QED
    BY <2>1, <2>2, <2>3, BrokerAssumption
       DEF Idle, InductiveInv, TypeOK, CallTypes, CallInv
<1>4. ASSUME NEW c \in Callers, List(c) PROVE CallInv'
  <2>1. call' = [call EXCEPT ![c] = Idle]
    BY <1>4, CallsReturn, ReturnEffect
  <2>2. QED
    BY <1>4, <2>1 DEF List, Idle, InductiveInv, TypeOK, CallTypes, CallInv
<1>5. ASSUME NEW c \in Callers, LookupFails(c) PROVE CallInv'
  <2>1. call' = [call EXCEPT ![c] = Idle]
    BY <1>5, CallsReturn, ReturnEffect
  <2>2. QED
    BY <1>5, <2>1 DEF LookupFails, Idle, InductiveInv, TypeOK, CallTypes, CallInv
<1>6. ASSUME NEW c \in Callers, Lookup(c) PROVE CallInv'
  BY <1>6, BrokerAssumption
     DEF Lookup, InCall, InductiveInv, TypeOK, CallTypes, CloseInv, HomeInv, CallInv
<1>7. ASSUME NEW c \in Callers, Publish(c) PROVE CallInv'
  <2>1. call' = [call EXCEPT ![c] = Idle]
    BY <1>7, CallsReturn, ReturnEffect
  <2>2. QED
    BY <1>7, <2>1 DEF Publish, Idle, InductiveInv, TypeOK, CallTypes, CallInv
<1>8. ASSUME NEW c \in Callers, Subscribe(c) PROVE CallInv'
  <2>1. call' = [call EXCEPT ![c] = Idle]
    BY <1>8, CallsReturn, ReturnEffect
  <2>2. QED
    BY <1>8, <2>1 DEF Subscribe, Idle, InductiveInv, TypeOK, CallTypes, CallInv
<1>9. ASSUME NEW c \in Callers, SubscriberCount(c) PROVE CallInv'
  <2>1. call' = [call EXCEPT ![c] = Idle]
    BY <1>9, CallsReturn, ReturnEffect
  <2>2. QED
    BY <1>9, <2>1 DEF SubscriberCount, Idle, InductiveInv, TypeOK, CallTypes, CallInv
<1>10. ASSUME NEW s \in Subs, CloseSubscription(s) PROVE CallInv'
  BY <1>10, BrokerAssumption
     DEF CloseSubscription, InductiveInv, TypeOK, CallTypes, CloseInv, HomeInv,
         CallInv
<1>11. ASSUME NEW k \in Closers, BeginClose(k) PROVE CallInv'
  BY <1>11, BrokerAssumption
     DEF BeginClose, InductiveInv, TypeOK, CallTypes, CloseInv, HomeInv, CallInv
<1>12. ASSUME NEW k \in Closers, CloseAgain(k) PROVE CallInv'
  BY <1>12, BrokerAssumption
     DEF CloseAgain, InductiveInv, TypeOK, CallTypes, CloseInv, HomeInv, CallInv
<1>13. ASSUME NEW k \in Closers, NEW q \in Partitions,
             ClosePartition(k, q)
      PROVE  CallInv'
  BY <1>13, BrokerAssumption
     DEF ClosePartition, InductiveInv, TypeOK, CallTypes, CloseInv, HomeInv, CallInv
<1>14. ASSUME NEW k \in Closers, EndClose(k) PROVE CallInv'
  BY <1>14, BrokerAssumption
     DEF EndClose, InductiveInv, TypeOK, CallTypes, CloseInv, HomeInv, CallInv
<1>15. CASE UNCHANGED vars
  BY <1>15, BrokerAssumption
     DEF InductiveInv, TypeOK, CallTypes, CloseInv, HomeInv, CallInv
<1>16. QED
    BY <1>1, <1>2, <1>3, <1>4, <1>5, <1>6, <1>7, <1>8, <1>9, <1>10, <1>11, <1>12,
     <1>13, <1>14, <1>15
     DEF Next, CallStep, CloseStep

\* Close leaves no partition out, and nobody opens one or joins it again.
LEMMA ShutStep == InductiveInv /\ [Next]_vars => ShutInv'
<1> SUFFICES ASSUME InductiveInv, [Next]_vars PROVE ShutInv'
  OBVIOUS
<1> USE DEF vars, brokerVars, partVars, callerVars
<1>1. ASSUME NEW c \in Callers, NEW op \in Operations, NEW t \in Topics,
             Begin(c, op, t)
      PROVE  ShutInv'
  BY <1>1, BrokerAssumption
     DEF Begin, Idle, InductiveInv, TypeOK, CloseInv, HomeInv, FreshInv, CallInv,
         ShutInv, Fresh, Registered
<1>2. ASSUME NEW c \in Callers, CreateRefused(c) PROVE ShutInv'
  BY <1>2, BrokerAssumption
     DEF CreateRefused, Return, InCall, Idle, InductiveInv, TypeOK, CloseInv, HomeInv,
         FreshInv, CallInv, ShutInv, Fresh, Registered
<1>3. ASSUME NEW c \in Callers, CreateTopic(c) PROVE ShutInv'
  <2>1. CASE UNCHANGED <<topics, home>>
    BY <1>3, <2>1, CreateEffect DEF InductiveInv, TypeOK, ShutInv
  <2>2. CASE ~UNCHANGED <<topics, home>>
    <3>1. PICK t \in Topics, q \in Partitions :
              /\ ~closed /\ home[t] = None /\ q \in Fresh
              /\ topics' = [home EXCEPT ![t] = q] /\ home' = [home EXCEPT ![t] = q]
      BY <1>3, <2>2, CreateEffect
    <3>2. QED
      BY <1>3, <3>1, CreateEffect, BrokerAssumption DEF InductiveInv, TypeOK, ShutInv
  <2>3. QED
    BY <2>1, <2>2
<1>4. ASSUME NEW c \in Callers, List(c) PROVE ShutInv'
  BY <1>4, BrokerAssumption
     DEF List, Return, InCall, Idle, InductiveInv, TypeOK, CloseInv, HomeInv,
         FreshInv, CallInv, ShutInv, Fresh, Registered
<1>5. ASSUME NEW c \in Callers, LookupFails(c) PROVE ShutInv'
  BY <1>5, BrokerAssumption
     DEF LookupFails, Return, InCall, Idle, InductiveInv, TypeOK, CloseInv, HomeInv,
         FreshInv, CallInv, ShutInv, Fresh, Registered
<1>6. ASSUME NEW c \in Callers, Lookup(c) PROVE ShutInv'
  BY <1>6, BrokerAssumption
     DEF Lookup, InCall, InductiveInv, TypeOK, CloseInv, HomeInv, FreshInv, CallInv,
         ShutInv, Fresh, Registered
<1>7. ASSUME NEW c \in Callers, Publish(c) PROVE ShutInv'
  <2>1. CASE UNCHANGED logs
    BY <1>7, <2>1, PublishEffect DEF InductiveInv, TypeOK, ShutInv
  <2>2. CASE ~UNCHANGED logs
    <3>1. PICK t \in Topics, q \in Partitions, batch \in Batches :
              /\ q = home[t] /\ ~shut[q] /\ logs[q] \o batch \in Seq(Payloads)
              /\ logs' = [logs EXCEPT ![q] = logs[q] \o batch]
      BY <1>7, <2>2, PublishEffect
    <3>2. QED
      BY <1>7, <3>1, PublishEffect, BrokerAssumption DEF InductiveInv, TypeOK, ShutInv
  <2>3. QED
    BY <2>1, <2>2
<1>8. ASSUME NEW c \in Callers, Subscribe(c) PROVE ShutInv'
  <2>1. CASE UNCHANGED <<subs, subAt>>
    BY <1>8, <2>1, SubscribeEffect DEF InductiveInv, TypeOK, ShutInv
  <2>2. CASE ~UNCHANGED <<subs, subAt>>
    <3>1. PICK t \in Topics, q \in Partitions, s \in Subs :
              /\ q = home[t] /\ ~shut[q] /\ subAt[s] = None
              /\ subAt' = [subAt EXCEPT ![s] = q]
              /\ subs' = [subs EXCEPT ![q] = subs[q] \union {s}]
      BY <1>8, <2>2, SubscribeEffect
    <3>2. QED
      BY <1>8, <3>1, SubscribeEffect, BrokerAssumption DEF InductiveInv, TypeOK, ShutInv
  <2>3. QED
    BY <2>1, <2>2
<1>9. ASSUME NEW c \in Callers, SubscriberCount(c) PROVE ShutInv'
  BY <1>9, BrokerAssumption
     DEF SubscriberCount, Return, Found, Idle, InductiveInv, TypeOK, CloseInv,
         HomeInv, FreshInv, CallInv, ShutInv, Fresh, Registered
<1>10. ASSUME NEW s \in Subs, CloseSubscription(s) PROVE ShutInv'
  BY <1>10, BrokerAssumption
     DEF CloseSubscription, InductiveInv, TypeOK, CloseInv, HomeInv, FreshInv,
         CallInv, ShutInv, Fresh, Registered
<1>11. ASSUME NEW k \in Closers, BeginClose(k) PROVE ShutInv'
  BY <1>11, BrokerAssumption
     DEF BeginClose, InductiveInv, TypeOK, CloseInv, HomeInv, FreshInv, CallInv,
         ShutInv, Fresh, Registered
<1>12. ASSUME NEW k \in Closers, CloseAgain(k) PROVE ShutInv'
  BY <1>12, BrokerAssumption
     DEF CloseAgain, InductiveInv, TypeOK, CloseInv, HomeInv, FreshInv, CallInv,
         ShutInv, Fresh, Registered
<1>13. ASSUME NEW k \in Closers, NEW q \in Partitions,
             ClosePartition(k, q)
      PROVE  ShutInv'
  BY <1>13, BrokerAssumption
     DEF ClosePartition, InductiveInv, TypeOK, CloseInv, HomeInv, FreshInv, CallInv,
         ShutInv, Fresh, Registered
<1>14. ASSUME NEW k \in Closers, EndClose(k) PROVE ShutInv'
  BY <1>14, BrokerAssumption
     DEF EndClose, InductiveInv, TypeOK, CloseInv, HomeInv, FreshInv, CallInv,
         ShutInv, Fresh, Registered
<1>15. CASE UNCHANGED vars
  BY <1>15, BrokerAssumption
     DEF InductiveInv, TypeOK, CloseInv, HomeInv, FreshInv, CallInv, ShutInv, Fresh,
         Registered
<1>16. QED
    BY <1>1, <1>2, <1>3, <1>4, <1>5, <1>6, <1>7, <1>8, <1>9, <1>10, <1>11, <1>12,
     <1>13, <1>14, <1>15
     DEF Next, CallStep, CloseStep

\* InductiveInv is an invariant of the broker.
THEOREM Invariance == Spec => []InductiveInv
<1>1. InductiveInv /\ [Next]_vars => InductiveInv'
  BY TypeStep, CloseStepInv, HomeStep, FreshStep, CallStepInv, ShutStep DEF InductiveInv
<1>2. QED
  BY InitInv, <1>1, PTL DEF Spec

\* Type correctness.
THEOREM TypeCorrect == Spec => []TypeOK
BY Invariance, PTL DEF InductiveInv

\* When a Close has returned every partition ever created is closed and nobody
\* is subscribed anywhere.
THEOREM Quiet == Spec => []QuietAfterClose
<1>1. InductiveInv => QuietAfterClose
  BY DEF InductiveInv, TypeOK, CloseInv, ShutInv, QuietAfterClose
<1>2. QED
  BY Invariance, <1>1, PTL

-----------------------------------------------------------------------------
\* Refusals

\* A caller's result changes only when its own call begins or returns; a late
\* call finds the broker closed, and a known topic is in the map until then.
LEMMA RefusalStep ==
    ASSUME InductiveInv, [Next]_vars, NEW c \in Callers, result'[c] # result[c]
    PROVE  /\ call[c].late => result'[c] \in {"none", "closed"}
           /\ call[c].known => result'[c] # "notfound"
<1> DEFINE Goal == /\ call[c].late => result'[c] \in {"none", "closed"}
                   /\ call[c].known => result'[c] # "notfound"
<1>1. call[c].late => closed /\ call[c].part = None
  BY DEF InductiveInv, CallInv, CloseInv
<1>2. call[c].known => closed \/ Exists(call[c].topic)
  BY DEF InductiveInv, CallInv, HomeInv
<1>3. result \in [Callers -> Results]
  BY DEF InductiveInv, TypeOK
<1>4. ASSUME NEW op \in Operations, NEW t \in Topics, NEW d \in Callers, Begin(d, op, t)
      PROVE  Goal
  BY <1>3, <1>4 DEF Begin
<1>5. ASSUME NEW d \in Callers, CallStep(d) PROVE Goal
  <2>1. d = c
    BY <1>3, <1>5 DEF CallStep, CreateRefused, CreateTopic, List, LookupFails, Lookup,
       Publish, Subscribe, SubscriberCount, Return
  <2>2. CASE CreateRefused(c)
    BY <1>1, <1>3, <2>2 DEF CreateRefused, Return
  <2>3. CASE CreateTopic(c)
    BY <1>1, <1>3, <2>3 DEF CreateTopic, Return
  <2>4. CASE List(c)
    BY <1>1, <1>3, <2>4 DEF List, Return
  <2>5. CASE LookupFails(c)
    BY <1>1, <1>2, <1>3, <2>5 DEF LookupFails, Return
  <2>6. CASE Lookup(c)
    BY <2>6 DEF Lookup
  <2>7. CASE Publish(c) \/ Subscribe(c) \/ SubscriberCount(c)
    BY <1>1, <1>3, <2>7 DEF Publish, Subscribe, SubscriberCount, Found, Return
  <2>8. QED
    BY <1>5, <2>1, <2>2, <2>3, <2>4, <2>5, <2>6, <2>7 DEF CallStep
<1>6. UNCHANGED callerVars => Goal
  BY DEF callerVars
<1>7. QED
  BY <1>4, <1>5, <1>6 DEF Next, vars, CloseSubscription, BeginClose, CloseAgain,
     CloseStep, ClosePartition, EndClose

\* A call that began after Close gets ErrClosed, and no topic that exists is
\* reported as missing.
THEOREM TrueRefusals == Spec => RefusalsAreTrue
<1>1. InductiveInv /\ [Next]_vars =>
        [\A c \in Callers :
            result'[c] # result[c] =>
                /\ call[c].late => result'[c] \in {"none", "closed"}
                /\ call[c].known => result'[c] # "notfound"]_vars
  BY RefusalStep
<1>2. QED
  BY Invariance, <1>1, PTL DEF Spec, RefusalsAreTrue

-----------------------------------------------------------------------------
\* Each topic is one broadcast log

\* What TopicLog puts for the variables of the abstract log.
ContentOf(t) == IF home[t] = None THEN <<>> ELSE logs[home[t]]
OpenOf(t) == home[t] = None \/ ~shut[home[t]]
StatusOf(t) == [s \in Subs |-> StatusAt(s, home[t])]
LogVars(t) == <<ContentOf(t), OpenOf(t), StatusOf(t)>>

\* They are the abstract log's variables, but for what was delivered, which the
\* broker has no part in.
LEMMA LogVarsSame ==
    ASSUME NEW t \in Topics, UNCHANGED LogVars(t)
    PROVE  UNCHANGED TopicLog(t)!vars
BY DEF LogVars, ContentOf, OpenOf, StatusOf, TopicLog!vars

\* A step that changes nothing at the partition of a topic leaves its log alone.
LEMMA PartitionSame ==
    ASSUME InductiveInv, NEW t \in Topics, home'[t] = home[t],
           home[t] # None =>
               /\ logs'[home[t]] = logs[home[t]]
               /\ shut'[home[t]] = shut[home[t]]
               /\ subs'[home[t]] = subs[home[t]]
               /\ \A s \in Subs : subAt'[s] = home[t] <=> subAt[s] = home[t]
    PROVE  UNCHANGED TopicLog(t)!vars
<1>1. \A s \in Subs : StatusAt(s, home[t])' = StatusAt(s, home[t])
  BY DEF StatusAt
<1>2. StatusOf(t)' = StatusOf(t)
  BY <1>1 DEF StatusOf
<1>3. QED
  BY <1>2, LogVarsSame DEF LogVars, ContentOf, OpenOf

\* A creation brings a log that is empty and open, as the abstract one was.
LEMMA CreateSimulates ==
    ASSUME InductiveInv, NEW c \in Callers, CreateTopic(c), NEW t \in Topics
    PROVE  UNCHANGED TopicLog(t)!vars
<1>1. UNCHANGED <<logs, shut, subs, subAt>>
  BY CreateEffect DEF partVars
<1>2. CASE home'[t] = home[t]
  BY <1>1, <1>2, PartitionSame
<1>3. CASE home'[t] # home[t]
  <2>1. PICK q \in Fresh : home[t] = None /\ home'[t] = q
    BY <1>3, CreateEffect DEF InductiveInv, TypeOK
  <2>2. /\ q # None /\ logs[q] = <<>> /\ ~shut[q]
        /\ \A s \in Subs : subAt[s] # q
    BY <2>1, BrokerAssumption DEF InductiveInv, FreshInv, Fresh
  <2>3. \A s \in Subs : StatusAt(s, home[t]) = "new" /\ StatusAt(s, home[t])' = "new"
    BY <1>1, <2>1, <2>2 DEF StatusAt
  <2>4. StatusOf(t)' = StatusOf(t)
    BY <2>3 DEF StatusOf
  <2>5. QED
    BY <1>1, <2>1, <2>2, <2>4, LogVarsSame DEF LogVars, ContentOf, OpenOf
<1>4. QED
  BY <1>2, <1>3

\* A publish to a topic is one of the abstract log, of the whole batch, unless
\* the batch is empty; the other topics do not see it.
LEMMA PublishSimulates ==
    ASSUME InductiveInv, NEW c \in Callers, Publish(c), NEW t \in Topics
    PROVE  [TopicLog(t)!Next]_(TopicLog(t)!vars)
<1>1. UNCHANGED <<home, shut, subs, subAt>>
  BY PublishEffect DEF brokerVars
<1>2. CASE home[t] = None \/ logs'[home[t]] = logs[home[t]]
  BY <1>1, <1>2, PartitionSame
<1>3. CASE home[t] # None /\ logs'[home[t]] # logs[home[t]]
  <2>1. home[t] \in Partitions
    BY <1>3 DEF InductiveInv, TypeOK
  <2>2. PICK batch \in Batches :
            /\ ~shut[home[t]]
            /\ logs[home[t]] \in Seq(Payloads)
            /\ logs'[home[t]] = logs[home[t]] \o batch
    BY <1>3, <2>1, PublishEffect DEF InductiveInv, TypeOK
  <2>3. batch \in Seq(Payloads) /\ Len(batch) \in Nat
    BY BrokerAssumption, LenProperties
  <2>4. batch # <<>>
    BY <1>3, <2>2, ConcatEmptySeq
  <2>5. Len(batch) \in 1 .. Len(batch) /\ SubSeq(batch, 1, Len(batch)) = batch
    BY <2>3, <2>4, EmptySeq, SubSeqFull
  <2>6. StatusOf(t)' = StatusOf(t)
    BY <1>1 DEF StatusOf, StatusAt
  <2>7. TopicLog(t)!Publish(batch)
    BY <1>1, <1>3, <2>2, <2>5, <2>6 DEF TopicLog!Publish, StatusOf
  <2>8. QED
    BY <2>7 DEF TopicLog!Next
<1>4. QED
  BY <1>2, <1>3

\* A subscription joins the log of its topic.
LEMMA SubscribeSimulates ==
    ASSUME InductiveInv, NEW c \in Callers, Subscribe(c), NEW t \in Topics
    PROVE  [TopicLog(t)!Next]_(TopicLog(t)!vars)
<1>1. UNCHANGED <<home, logs, shut>>
  BY SubscribeEffect DEF brokerVars
<1>2. CASE UNCHANGED <<subs, subAt>>
  BY <1>1, <1>2, PartitionSame
<1>3. CASE ~UNCHANGED <<subs, subAt>>
  <2>1. PICK u \in Topics, q \in Partitions, s \in Subs :
            /\ q = home[u] /\ ~shut[q] /\ subAt[s] = None
            /\ subAt' = [subAt EXCEPT ![s] = q]
            /\ subs' = [subs EXCEPT ![q] = subs[q] \union {s}]
    BY <1>3, SubscribeEffect
  <2>2. q # None /\ subAt \in [Subs -> Partitions \union {None}]
        /\ subs \in [Partitions -> SUBSET Subs]
    BY BrokerAssumption DEF InductiveInv, TypeOK
  <2>3. CASE home[t] # q
    <3>1. home[t] # None => home[t] \in Partitions
      BY DEF InductiveInv, TypeOK
    <3>2. QED
      BY <1>1, <2>1, <2>2, <2>3, <3>1, PartitionSame
  <2>4. CASE home[t] = q
    <3>1. \A r \in Subs : StatusAt(r, home[t])' =
              IF r = s THEN "live" ELSE StatusAt(r, home[t])
      BY <1>1, <2>1, <2>2, <2>4 DEF StatusAt
    <3>2. StatusAt(s, home[t]) = "new"
      BY <2>1, <2>2, <2>4 DEF StatusAt
    <3>3. StatusOf(t)' = [StatusOf(t) EXCEPT ![s] = "live"]
      BY <3>1 DEF StatusOf
    <3>4. TopicLog(t)!Join(s)
      BY <1>1, <2>1, <2>4, <3>2, <3>3 DEF TopicLog!Join, StatusOf
    <3>5. QED
      BY <3>4 DEF TopicLog!Next
  <2>5. QED
    BY <2>3, <2>4
<1>4. QED
  BY <1>2, <1>3

\* A subscription that is closed leaves the log of its topic.
LEMMA LeaveSimulates ==
    ASSUME InductiveInv, NEW s \in Subs, CloseSubscription(s), NEW t \in Topics
    PROVE  [TopicLog(t)!Next]_(TopicLog(t)!vars)
<1> DEFINE q == subAt[s]
<1>1. /\ UNCHANGED <<home, logs, shut, subAt>> /\ s \in subs[q] /\ q # None
      /\ subs' = [subs EXCEPT ![q] = subs[q] \ {s}]
  BY DEF CloseSubscription, brokerVars
<1>2. q \in Partitions /\ subs \in [Partitions -> SUBSET Subs]
  BY <1>1 DEF InductiveInv, TypeOK
<1>3. CASE home[t] # q
  <2>1. home[t] # None => home[t] \in Partitions
    BY DEF InductiveInv, TypeOK
  <2>2. QED
    BY <1>1, <1>2, <1>3, <2>1, PartitionSame
<1>4. CASE home[t] = q
  <2>1. \A r \in Subs : StatusAt(r, home[t])' =
            IF r = s THEN "gone" ELSE StatusAt(r, home[t])
    BY <1>1, <1>2, <1>4 DEF StatusAt
  <2>2. StatusAt(s, home[t]) = "live"
    BY <1>1, <1>4 DEF StatusAt
  <2>3. StatusOf(t)' = [StatusOf(t) EXCEPT ![s] = "gone"]
    BY <2>1 DEF StatusOf
  <2>4. TopicLog(t)!Leave(s)
    BY <1>1, <2>2, <2>3 DEF TopicLog!Leave, StatusOf
  <2>5. QED
    BY <2>4 DEF TopicLog!Next
<1>5. QED
  BY <1>3, <1>4

\* A partition that Close comes to was open: its log is shut.
LEMMA ShutSimulates ==
    ASSUME InductiveInv, NEW k \in Closers, NEW q \in Partitions, ClosePartition(k, q),
           NEW t \in Topics
    PROVE  [TopicLog(t)!Next]_(TopicLog(t)!vars)
<1>1. /\ UNCHANGED <<home, logs, subAt>> /\ q \in closing /\ q # None
      /\ shut' = [shut EXCEPT ![q] = TRUE]
      /\ subs' = [subs EXCEPT ![q] = {}]
  BY BrokerAssumption DEF ClosePartition
<1>2. /\ subs \in [Partitions -> SUBSET Subs] /\ shut \in [Partitions -> BOOLEAN]
      /\ ~shut[q]
  BY <1>1 DEF InductiveInv, TypeOK, ShutInv
<1>3. CASE home[t] # q
  <2>1. home[t] # None => home[t] \in Partitions
    BY DEF InductiveInv, TypeOK
  <2>2. QED
    BY <1>1, <1>2, <1>3, <2>1, PartitionSame
<1>4. CASE home[t] = q
  <2>1. \A s \in Subs : StatusAt(s, home[t])' =
            IF StatusAt(s, home[t]) = "new" THEN "new" ELSE "gone"
    BY <1>1, <1>2, <1>4 DEF StatusAt
  <2>2. StatusOf(t)' =
            [s \in Subs |-> IF StatusOf(t)[s] = "new" THEN "new" ELSE "gone"]
    BY <2>1 DEF StatusOf
  <2>3. TopicLog(t)!Shut
    BY <1>1, <1>2, <1>4, <2>2 DEF TopicLog!Shut, StatusOf
  <2>4. QED
    BY <2>3 DEF TopicLog!Next
<1>5. QED
  BY <1>3, <1>4

\* Every step is one of each topic's log, or none.
LEMMA TopicStep ==
    ASSUME InductiveInv, [Next]_vars, NEW t \in Topics
    PROVE  [TopicLog(t)!Next]_(TopicLog(t)!vars)
<1>1. UNCHANGED <<home, partVars>> => UNCHANGED TopicLog(t)!vars
  BY PartitionSame DEF partVars
<1>2. ASSUME NEW c \in Callers,
             CallStep(c) \/ \E op \in Operations, u \in Topics : Begin(c, op, u)
      PROVE  [TopicLog(t)!Next]_(TopicLog(t)!vars)
  <2>1. ASSUME \/ CreateRefused(c) \/ List(c) \/ LookupFails(c) \/ Lookup(c)
               \/ SubscriberCount(c)
               \/ \E op \in Operations, u \in Topics : Begin(c, op, u)
        PROVE  UNCHANGED <<home, partVars>>
    BY <2>1 DEF CreateRefused, List, LookupFails, Lookup, SubscriberCount, Begin,
       brokerVars
  <2>2. QED
    BY <1>1, <1>2, <2>1, CreateSimulates, PublishSimulates, SubscribeSimulates
       DEF CallStep
<1>3. ASSUME NEW k \in Closers, BeginClose(k) \/ CloseAgain(k) \/ CloseStep(k)
      PROVE  [TopicLog(t)!Next]_(TopicLog(t)!vars)
  <2>1. ASSUME BeginClose(k) \/ CloseAgain(k) \/ EndClose(k)
        PROVE  UNCHANGED <<home, partVars>>
    BY <2>1 DEF BeginClose, CloseAgain, EndClose
  <2>2. QED
    BY <1>1, <1>3, <2>1, ShutSimulates DEF CloseStep
<1>4. CASE UNCHANGED vars
  BY <1>1, <1>4 DEF vars, brokerVars
<1>5. QED
  BY <1>2, <1>3, <1>4, LeaveSimulates DEF Next

\* Each topic implements BroadcastLog: no creation replaces its log, no publish
\* goes elsewhere, nothing enters it once Close has been there.
THEOREM Refinement == Spec => TopicIsOneLog
<1>1. Init => \A t \in Topics : TopicLog(t)!Init
  BY DEF Init, TopicLog!Init, StatusAt
<1>2. InductiveInv /\ [Next]_vars =>
        [\A t \in Topics : [TopicLog(t)!Next]_(TopicLog(t)!vars)]_vars
  BY TopicStep
<1>3. QED
  BY Invariance, <1>1, <1>2, PTL DEF Spec, TopicIsOneLog

-----------------------------------------------------------------------------
\* Nobody is stuck

\* Only who is in a call has a topic, and only some operations use a partition.
ShapeInv ==
    \A c \in Callers :
        /\ call[c].op = "none" => call[c] = Idle
        /\ call[c].part # None => call[c].op \in {"publish", "subscribe", "count"}

\* There is a partition for each creation and a subscription for each Subscribe
\* under way: the bounds of the model stop no call that has begun.
Unused == { s \in Subs : subAt[s] = None }
Calling(op) == { c \in Callers : call[c].op = op }
RoomInv ==
    /\ Cardinality(Calling("subscribe")) <= Cardinality(Unused)
    /\ Cardinality(Calling("create")) <= Cardinality(Fresh)

\* The condition of the next step of a call, with all that the step needs.
CanGoOn(c) ==
    \/ \E op \in {"list", "publish", "subscribe", "count"} : InCall(c, op)
    \/ /\ InCall(c, "create")
       /\ \/ Refuses \/ call[c].topic \in InvalidNames \/ Duplicate(call[c].topic) \/ Full
          \/ Fresh # {}
    \/ Found(c, "publish")
    \/ Found(c, "subscribe") /\ (~Takes(call[c].part) \/ Unused # {})
    \/ Found(c, "count")

\* Who holds the write lock can close the next partition, or end; while nobody
\* holds it every call that has begun can go on.
NobodyWaits ==
    /\ writer # None =>
          writer \in Closers /\ (closing # {} => \E q \in Partitions : q \in closing)
    /\ writer = None => \A c \in Callers : call[c] # Idle => CanGoOn(c)

\* A step that takes no more than one of what there is, on behalf of one who
\* had room, leaves room for the others; so does one that adds somebody where
\* there was room for more.
LEMMA RoomKept ==
    ASSUME NEW A, NEW F, NEW B, NEW G, IsFiniteSet(A), IsFiniteSet(F),
           IsFiniteSet(B), Cardinality(F) <= Cardinality(A),
           \/ A \subseteq B /\ G \subseteq F
           \/ \E a, f : f \in F /\ A \ {a} \subseteq B /\ G \subseteq F \ {f}
           \/ \E f : Cardinality(F) < Cardinality(A) /\ A \subseteq B /\ G \subseteq F \union {f}
    PROVE  Cardinality(G) <= Cardinality(B)
<1>1. Cardinality(A) \in Nat /\ Cardinality(F) \in Nat /\ Cardinality(B) \in Nat
  BY FS_CardinalityType
<1>2. CASE A \subseteq B /\ G \subseteq F
  <2>1. Cardinality(A) <= Cardinality(B)
    BY <1>2, FS_Subset
  <2>2. Cardinality(G) <= Cardinality(F) /\ IsFiniteSet(G)
    BY <1>2, FS_Subset
  <2>3. Cardinality(G) \in Nat
    BY <2>2, FS_CardinalityType
  <2>4. QED
    BY <1>1, <2>1, <2>2, <2>3
<1>3. ASSUME NEW a, NEW f, f \in F, A \ {a} \subseteq B, G \subseteq F \ {f}
      PROVE  Cardinality(G) <= Cardinality(B)
  <2>1. /\ IsFiniteSet(A \ {a})
        /\ Cardinality(A \ {a}) >= Cardinality(A) - 1
    BY <1>1, FS_RemoveElement
  <2>2. /\ IsFiniteSet(F \ {f})
        /\ Cardinality(F \ {f}) = Cardinality(F) - 1
    BY <1>3, FS_RemoveElement
  <2>3. Cardinality(A \ {a}) <= Cardinality(B)
    BY <1>3, FS_Subset
  <2>4. Cardinality(G) <= Cardinality(F \ {f}) /\ IsFiniteSet(G)
    BY <1>3, <2>2, FS_Subset
  <2>5. Cardinality(G) \in Nat /\ Cardinality(A \ {a}) \in Nat
    BY <2>1, <2>4, FS_CardinalityType
  <2>6. QED
    BY <1>1, <2>1, <2>2, <2>3, <2>4, <2>5
<1>4. ASSUME NEW f, Cardinality(F) < Cardinality(A), A \subseteq B, G \subseteq F \union {f}
      PROVE  Cardinality(G) <= Cardinality(B)
  <2>1. /\ IsFiniteSet(F \union {f})
        /\ Cardinality(F \union {f}) <= Cardinality(F) + 1
    <3>1. /\ IsFiniteSet(F \union {f})
          /\ Cardinality(F \union {f}) =
                IF f \in F THEN Cardinality(F) ELSE Cardinality(F) + 1
      BY FS_AddElement, Zenon
    <3>2. QED
      BY <1>1, <3>1
  <2>2. Cardinality(G) <= Cardinality(F \union {f}) /\ IsFiniteSet(G)
    BY <1>4, <2>1, FS_Subset
  <2>3. Cardinality(A) <= Cardinality(B)
    BY <1>4, FS_Subset
  <2>4. Cardinality(G) \in Nat /\ Cardinality(F \union {f}) \in Nat
    BY <2>1, <2>2, FS_CardinalityType
  <2>5. QED
    BY <1>1, <1>4, <2>1, <2>2, <2>3, <2>4
<1>5. QED
  BY <1>2, <1>3, <1>4

\* Where somebody has room there is something.
LEMMA RoomLeft ==
    ASSUME NEW A, NEW F, NEW f \in F, IsFiniteSet(F), Cardinality(F) <= Cardinality(A)
    PROVE  A # {}
<1>1. Cardinality(F) \in Nat /\ Cardinality(F) # 0
  BY FS_CardinalityType, FS_EmptySet
<1>2. Cardinality({}) = 0
  BY FS_EmptySet
<1>3. QED
  BY <1>1, <1>2

\* Calls keep their shape.
LEMMA ShapeStep == InductiveInv /\ ShapeInv /\ [Next]_vars => ShapeInv'
<1> SUFFICES ASSUME InductiveInv, ShapeInv, [Next]_vars PROVE ShapeInv'
  OBVIOUS
<1>1. call \in [Callers -> CallTypes]
  BY DEF InductiveInv, TypeOK
<1>2. ASSUME NEW c \in Callers, NEW op \in Operations, NEW t \in Topics, Begin(c, op, t)
      PROVE  ShapeInv'
  BY <1>1, <1>2 DEF ShapeInv, Begin, Operations
<1>3. ASSUME NEW c \in Callers, CallStep(c) PROVE ShapeInv'
  <2>1. CASE Lookup(c)
    BY <1>1, <2>1 DEF ShapeInv, Lookup, InCall, CallTypes
  <2>2. CASE ~Lookup(c)
    <3>1. PICK how \in Results : Return(c, how)
      BY <1>3, <2>2, CallsReturn DEF CallStep
    <3>2. call' = [call EXCEPT ![c] = Idle]
      BY <3>1 DEF Return
    <3>3. QED
      BY <1>1, <3>2 DEF ShapeInv, Idle
  <2>3. QED
    BY <2>1, <2>2
<1>4. UNCHANGED call => ShapeInv'
  BY DEF ShapeInv
<1>5. QED
  BY <1>2, <1>3, <1>4 DEF Next, vars, CloseSubscription, BeginClose, CloseAgain,
     CloseStep, ClosePartition, EndClose, callerVars

\* There stays room for all that have begun.
LEMMA RoomStep ==
    ASSUME IsFiniteSet(Callers), IsFiniteSet(Subs), IsFiniteSet(Partitions),
           InductiveInv, ShapeInv, RoomInv, [Next]_vars
    PROVE  RoomInv'
<1>1. call \in [Callers -> CallTypes] /\ subAt \in [Subs -> Partitions \union {None}]
  BY DEF InductiveInv, TypeOK
<1>2. /\ IsFiniteSet(Unused) /\ IsFiniteSet(Unused')
      /\ IsFiniteSet(Fresh) /\ IsFiniteSet(Fresh')
  BY FS_Subset DEF Unused, Fresh
<1>3. \A op : IsFiniteSet(Calling(op))
  BY FS_Subset DEF Calling
<1>4. ASSUME NEW c \in Callers, NEW op \in Operations, NEW t \in Topics, Begin(c, op, t)
      PROVE  RoomInv'
  <2>1. /\ UNCHANGED <<home, subAt>>
        /\ \A o : o # op /\ o # "none" => Calling(o)' = Calling(o)
        /\ Calling(op)' \subseteq Calling(op) \union {c}
    BY <1>1, <1>4 DEF Begin, brokerVars, partVars, Calling, Idle
  <2>2. Unused' = Unused /\ Fresh' = Fresh
    BY <2>1 DEF Unused, Fresh
  <2>3. /\ op = "create" => Cardinality(Calling(op)) < Cardinality(Fresh)
        /\ op = "subscribe" => Cardinality(Calling(op)) < Cardinality(Unused)
    <3>1. /\ Cardinality(Calling(op)) \in Nat
          /\ Cardinality(Fresh) \in Nat /\ Cardinality(Unused) \in Nat
      BY <1>2, <1>3, FS_CardinalityType
    <3>2. QED
      BY <1>4, <3>1 DEF Begin, WithinBounds, InFlight, Calling, Unused
  <2>4. Cardinality(Calling("subscribe")') <= Cardinality(Unused')
    BY <1>2, <1>3, <2>1, <2>2, <2>3, RoomKept DEF RoomInv
  <2>5. Cardinality(Calling("create")') <= Cardinality(Fresh')
    BY <1>2, <1>3, <2>1, <2>2, <2>3, RoomKept DEF RoomInv
  <2>6. QED
    BY <2>4, <2>5 DEF RoomInv
<1>5. ASSUME NEW c \in Callers, CallStep(c) PROVE RoomInv'
  <2>1. \A op : op # "none" => Calling(op)' \subseteq Calling(op)
    <3>1. CASE Lookup(c)
      BY <1>1, <3>1 DEF Lookup, Calling, CallTypes
    <3>2. CASE ~Lookup(c)
      BY <1>1, <1>5, <3>2, CallsReturn DEF CallStep, Return, Calling, Idle
    <3>3. QED
      BY <3>1, <3>2
  <2>2. CASE CreateTopic(c) /\ home' # home
    <3>1. PICK t \in Topics, q \in Partitions :
              home[t] = None /\ home' = [home EXCEPT ![t] = q]
      BY <2>2, CreateEffect DEF partVars
    <3>2. Fresh \ {q} \subseteq Fresh' /\ Unused' = Unused
      BY <2>2, <3>1 DEF Fresh, Unused, CreateTopic, partVars, InductiveInv, TypeOK
    <3>3. /\ c \in Calling("create")
          /\ Calling("create")' \subseteq Calling("create") \ {c}
      BY <1>1, <2>1, <2>2, CallsReturn DEF CreateTopic, InCall, Calling, Return, Idle
    <3>4. Cardinality(Calling("create")') <= Cardinality(Fresh')
      BY <1>2, <1>3, <3>2, <3>3, RoomKept DEF RoomInv
    <3>5. Cardinality(Calling("subscribe")') <= Cardinality(Unused')
      BY <1>2, <1>3, <2>1, <3>2, RoomKept DEF RoomInv
    <3>6. QED
      BY <3>4, <3>5 DEF RoomInv
  <2>3. CASE Subscribe(c) /\ subAt' # subAt
    <3>1. PICK s \in Subs, q \in Partitions : subAt' = [subAt EXCEPT ![s] = q]
      BY <2>3, SubscribeEffect
    <3>2. Unused \ {s} \subseteq Unused' /\ Fresh' = Fresh
      BY <1>1, <2>3, <3>1 DEF Fresh, Unused, Subscribe, brokerVars
    <3>3. /\ c \in Calling("subscribe")
          /\ Calling("subscribe")' \subseteq Calling("subscribe") \ {c}
      BY <1>1, <2>1, <2>3, CallsReturn DEF Subscribe, Found, Calling, Return, Idle
    <3>4. Cardinality(Calling("subscribe")') <= Cardinality(Unused')
      BY <1>2, <1>3, <3>2, <3>3, RoomKept DEF RoomInv
    <3>5. Cardinality(Calling("create")') <= Cardinality(Fresh')
      BY <1>2, <1>3, <2>1, <3>2, RoomKept DEF RoomInv
    <3>6. QED
      BY <3>4, <3>5 DEF RoomInv
  <2>4. CASE home' = home /\ subAt' = subAt
    <3>1. Unused' = Unused /\ Fresh' = Fresh
      BY <2>4 DEF Unused, Fresh
    <3>2. Cardinality(Calling("subscribe")') <= Cardinality(Unused')
      BY <1>2, <1>3, <2>1, <3>1, RoomKept DEF RoomInv
    <3>3. Cardinality(Calling("create")') <= Cardinality(Fresh')
      BY <1>2, <1>3, <2>1, <3>1, RoomKept DEF RoomInv
    <3>4. QED
      BY <3>2, <3>3 DEF RoomInv
  <2>5. (home' # home => CreateTopic(c)) /\ (subAt' # subAt => Subscribe(c))
    BY <1>5 DEF CallStep, CreateRefused, List, LookupFails, Lookup, Publish, Subscribe,
       SubscriberCount, CreateTopic, brokerVars, partVars
  <2>6. QED
    BY <2>2, <2>3, <2>4, <2>5
<1>6. UNCHANGED <<home, subAt, call>> => RoomInv'
  BY DEF RoomInv, Unused, Fresh, Calling
<1>7. QED
  BY <1>4, <1>5, <1>6 DEF Next, vars, CloseSubscription, BeginClose, CloseAgain,
     CloseStep, ClosePartition, EndClose, callerVars, partVars, brokerVars

\* Nobody waits for anybody for good, with any number of topics, calls and
\* closers: the guards of the next steps hold.
THEOREM NobodyIsKept ==
    ASSUME IsFiniteSet(Callers), IsFiniteSet(Subs), IsFiniteSet(Partitions)
    PROVE  Spec => []NobodyWaits
<1>1. Init => ShapeInv /\ RoomInv
  <2>1. ASSUME Init PROVE ShapeInv
    BY <2>1 DEF Init, ShapeInv, Idle
  <2>2. ASSUME Init PROVE RoomInv
    <3>1. Calling("subscribe") = {} /\ Calling("create") = {}
      BY <2>2 DEF Init, Calling, Idle
    <3>2. IsFiniteSet(Unused) /\ IsFiniteSet(Fresh)
      BY FS_Subset DEF Unused, Fresh
    <3>3. /\ Cardinality(Unused) \in Nat /\ Cardinality(Fresh) \in Nat
          /\ Cardinality(Calling("subscribe")) = 0 /\ Cardinality(Calling("create")) = 0
      BY <3>1, <3>2, FS_CardinalityType, FS_EmptySet
    <3>4. QED
      BY <3>3 DEF RoomInv
  <2>3. QED
    BY <2>1, <2>2
<1>2. InductiveInv /\ ShapeInv /\ RoomInv => NobodyWaits
  <2> SUFFICES ASSUME InductiveInv, ShapeInv, RoomInv PROVE NobodyWaits
    OBVIOUS
  <2>1. writer # None =>
            writer \in Closers /\ (closing # {} => \E q \in Partitions : q \in closing)
    BY DEF InductiveInv, TypeOK
  <2>2. ASSUME writer = None, NEW c \in Callers, call[c] # Idle PROVE CanGoOn(c)
    <3>1. /\ call[c] \in CallTypes /\ call[c].op # "none"
          /\ call[c].part # None => call[c].op \in {"publish", "subscribe", "count"}
      BY <2>2 DEF InductiveInv, TypeOK, ShapeInv
    <3>2. /\ IsFiniteSet(Calling("subscribe")) /\ IsFiniteSet(Calling("create"))
          /\ \A op : call[c].op = op => c \in Calling(op)
      BY FS_Subset DEF Calling
    <3>3. /\ call[c].op = "subscribe" => Unused # {}
          /\ call[c].op = "create" => Fresh # {}
      BY <3>2, RoomLeft DEF RoomInv
    <3>4. QED
      BY <2>2, <3>1, <3>2, <3>3 DEF CanGoOn, InCall, Found, CallTypes, Operations
  <2>3. QED
    BY <2>1, <2>2 DEF NobodyWaits
<1>3. InductiveInv /\ ShapeInv /\ RoomInv /\ [Next]_vars => ShapeInv' /\ RoomInv'
  BY ShapeStep, RoomStep
<1>4. QED
  BY Invariance, <1>1, <1>2, <1>3, PTL DEF Spec

\* The values of all variables after one step that c can take, and after one of
\* the closer that holds the lock.
Returned(c, how) == <<[call EXCEPT ![c] = Idle], [result EXCEPT ![c] = how]>>
Answered(c, how) == <<brokerVars, partVars, Returned(c, how)>>
AfterCreate(c) ==
    LET t == call[c].topic
        q == CHOOSE fresh \in Fresh : TRUE
    IN  IF Refuses THEN Answered(c, "closed")
        ELSE IF t \in InvalidNames THEN Answered(c, "invalid")
        ELSE IF Duplicate(t) THEN Answered(c, "exists")
        ELSE IF Full THEN Answered(c, "toomany")
        ELSE <<<<writer, closed, [topics EXCEPT ![t] = q], closing, [home EXCEPT ![t] = q],
                 closeReturned>>, partVars, Returned(c, "ok")>>
AfterLookup(c) ==
    LET t == call[c].topic
    IN  IF Refuses THEN Answered(c, "closed")
        ELSE IF ~Exists(t) THEN Answered(c, "notfound")
        ELSE <<brokerVars, partVars, <<[call EXCEPT ![c].part = topics[t]], result>>>>
AfterPublish(c) ==
    LET q == call[c].part
        batch == CHOOSE one \in Batches : TRUE
    IN  IF ~Takes(q) THEN Answered(c, "closed")
        ELSE <<brokerVars, <<[logs EXCEPT ![q] = @ \o batch], shut, subs, subAt>>,
               Returned(c, "ok")>>
AfterSubscribe(c) ==
    LET q == call[c].part
        s == CHOOSE unused \in Unused : TRUE
    IN  IF ~Takes(q) THEN Answered(c, "closed")
        ELSE <<brokerVars, <<logs, shut, [subs EXCEPT ![q] = @ \union {s}],
                             [subAt EXCEPT ![s] = q]>>, Returned(c, "ok")>>
AfterCall(c) ==
    IF call[c].op = "list" THEN Answered(c, IF Refuses THEN "closed" ELSE "ok")
    ELSE IF call[c].op = "create" THEN AfterCreate(c)
    ELSE IF call[c].part = None THEN AfterLookup(c)
    ELSE IF call[c].op = "publish" THEN AfterPublish(c)
    ELSE IF call[c].op = "subscribe" THEN AfterSubscribe(c)
    ELSE Answered(c, "ok")
AfterClose ==
    LET q == CHOOSE next \in closing : TRUE
    IN  IF closing = {}
        THEN <<<<None, closed, EmptyMap, closing, home, TRUE>>, partVars, callerVars>>
        ELSE <<<<writer, closed, topics, closing \ {q}, home, closeReturned>>,
               <<logs, [shut EXCEPT ![q] = TRUE], [subs EXCEPT ![q] = {}], subAt>>, callerVars>>

\* An answer returns from the call, and changes nothing else.
LEMMA AnsweredIsReturn ==
    ASSUME InductiveInv, NEW c \in Callers, NEW how, call[c] # Idle, vars' = Answered(c, how)
    PROVE  Return(c, how) /\ UNCHANGED <<brokerVars, partVars>> /\ vars' # vars
<1>1. /\ call' = [call EXCEPT ![c] = Idle] /\ result' = [result EXCEPT ![c] = how]
      /\ UNCHANGED <<brokerVars, partVars>>
  BY DEF vars, Answered, Returned, callerVars
<1>2. call' # call
  BY <1>1 DEF InductiveInv, TypeOK
<1>3. QED
  BY <1>1, <1>2 DEF Return, vars, callerVars

\* The guards in CanGoOn suffice: the step to AfterCall(c) is a step of the call.
LEMMA GuardsSuffice ==
    ASSUME InductiveInv, ShapeInv, Batches # {}, NEW c \in Callers, call[c] # Idle, CanGoOn(c),
           vars' = AfterCall(c)
    PROVE  <<CallStep(c)>>_vars
<1>1. /\ call \in [Callers -> CallTypes] /\ call[c].op \in Operations
      /\ call[c].part # None => call[c].op \in {"publish", "subscribe", "count"}
  BY DEF InductiveInv, TypeOK, ShapeInv, CallTypes
<1>2. CASE call[c].op = "list"
  <2>1. InCall(c, "list") /\ vars' = Answered(c, IF Refuses THEN "closed" ELSE "ok")
    BY <1>2 DEF CanGoOn, InCall, Found, AfterCall
  <2>2. QED
    BY <2>1, AnsweredIsReturn DEF CallStep, List
<1>3. CASE call[c].op = "create"
  <2>1. InCall(c, "create") /\ vars' = AfterCreate(c)
    BY <1>3 DEF CanGoOn, InCall, Found, AfterCall
  <2>2. CASE Refuses \/ call[c].topic \in InvalidNames \/ Duplicate(call[c].topic) \/ Full
    BY <2>1, <2>2, AnsweredIsReturn DEF CallStep, CreateRefused, AfterCreate
  <2>3. CASE ~Refuses /\ call[c].topic \notin InvalidNames /\ ~Duplicate(call[c].topic) /\ ~Full
    <3>1. PICK q \in Fresh : q = CHOOSE fresh \in Fresh : TRUE
      BY <1>3, <2>3 DEF CanGoOn, InCall, Found
    <3>2. /\ topics' = [topics EXCEPT ![call[c].topic] = q]
          /\ home' = [home EXCEPT ![call[c].topic] = q]
          /\ UNCHANGED <<writer, closed, closing, closeReturned, partVars>>
          /\ call' = [call EXCEPT ![c] = Idle] /\ result' = [result EXCEPT ![c] = "ok"]
      BY <2>1, <2>3, <3>1 DEF AfterCreate, vars, brokerVars, callerVars, Returned
    <3>3. call' # call
      BY <1>1, <3>2
    <3>4. QED
      BY <2>1, <2>3, <3>1, <3>2, <3>3 DEF CallStep, CreateTopic, Return, vars, callerVars
  <2>4. QED
    BY <2>2, <2>3
<1>4. CASE call[c].op \in {"publish", "subscribe", "count"} /\ call[c].part = None
  <2>1. /\ \E op \in {"publish", "subscribe", "count"} : InCall(c, op)
        /\ vars' = AfterLookup(c)
    BY <1>4 DEF CanGoOn, InCall, Found, AfterCall
  <2>2. CASE Refuses \/ ~Exists(call[c].topic)
    BY <2>1, <2>2, AnsweredIsReturn DEF CallStep, LookupFails, AfterLookup
  <2>3. CASE ~Refuses /\ Exists(call[c].topic)
    <3>1. /\ call' = [call EXCEPT ![c].part = topics[call[c].topic]]
          /\ UNCHANGED <<brokerVars, partVars, result>>
      BY <2>1, <2>3 DEF AfterLookup, vars, callerVars
    <3>2. call'[c].part # call[c].part
      BY <1>1, <1>4, <2>3, <3>1 DEF CallTypes
    <3>3. QED
      BY <2>1, <2>3, <3>1, <3>2 DEF CallStep, Lookup, vars, callerVars
  <2>4. QED
    BY <2>2, <2>3
<1>5. CASE call[c].op = "publish" /\ call[c].part # None
  <2>1. Found(c, "publish") /\ vars' = AfterPublish(c)
    BY <1>5 DEF Found, AfterCall
  <2>2. CASE ~Takes(call[c].part)
    BY <2>1, <2>2, AnsweredIsReturn DEF CallStep, Publish, AfterPublish, partVars
  <2>3. CASE Takes(call[c].part)
    <3>1. PICK batch \in Batches : batch = CHOOSE one \in Batches : TRUE
      OBVIOUS
    <3>2. /\ logs' = [logs EXCEPT ![call[c].part] = @ \o batch]
          /\ UNCHANGED <<brokerVars, shut, subs, subAt>>
          /\ call' = [call EXCEPT ![c] = Idle] /\ result' = [result EXCEPT ![c] = "ok"]
      BY <2>1, <2>3, <3>1 DEF AfterPublish, vars, partVars, callerVars, Returned
    <3>3. call' # call
      BY <1>1, <3>2
    <3>4. QED
      BY <2>1, <2>3, <3>1, <3>2, <3>3 DEF CallStep, Publish, Return, vars, callerVars
  <2>4. QED
    BY <2>2, <2>3
<1>6. CASE call[c].op = "subscribe" /\ call[c].part # None
  <2>1. Found(c, "subscribe") /\ vars' = AfterSubscribe(c)
    BY <1>6 DEF Found, AfterCall
  <2>2. CASE ~Takes(call[c].part)
    BY <2>1, <2>2, AnsweredIsReturn DEF CallStep, Subscribe, AfterSubscribe, partVars
  <2>3. CASE Takes(call[c].part)
    <3>1. PICK s \in Unused : s = CHOOSE unused \in Unused : TRUE
      BY <1>6, <2>3 DEF CanGoOn, InCall, Found
    <3>2. /\ subs' = [subs EXCEPT ![call[c].part] = @ \union {s}]
          /\ subAt' = [subAt EXCEPT ![s] = call[c].part]
          /\ UNCHANGED <<brokerVars, logs, shut>>
          /\ call' = [call EXCEPT ![c] = Idle] /\ result' = [result EXCEPT ![c] = "ok"]
      BY <2>1, <2>3, <3>1 DEF AfterSubscribe, vars, partVars, callerVars, Returned
    <3>3. call' # call
      BY <1>1, <3>2
    <3>4. QED
      BY <2>1, <2>3, <3>1, <3>2, <3>3 DEF CallStep, Subscribe, Return, vars, callerVars, Unused
  <2>4. QED
    BY <2>2, <2>3
<1>7. CASE call[c].op = "count" /\ call[c].part # None
  <2>1. Found(c, "count") /\ vars' = Answered(c, "ok")
    BY <1>7 DEF Found, AfterCall
  <2>2. QED
    BY <2>1, AnsweredIsReturn DEF CallStep, SubscriberCount
<1>8. QED
  BY <1>1, <1>2, <1>3, <1>4, <1>5, <1>6, <1>7 DEF Operations

\* So does the lock for the closer that holds it.
LEMMA LockSuffices ==
    ASSUME InductiveInv, writer # None, vars' = AfterClose
    PROVE  <<CloseStep(writer)>>_vars
<1>1. CASE closing = {}
  <2>1. /\ topics' = EmptyMap /\ writer' = None /\ closeReturned' = TRUE
        /\ UNCHANGED <<closed, closing, home, partVars, callerVars>>
    BY <1>1 DEF AfterClose, vars, brokerVars
  <2>2. QED
    BY <1>1, <2>1 DEF CloseStep, EndClose, vars, brokerVars
<1>2. CASE closing # {}
  <2>1. PICK q \in closing : q = CHOOSE next \in closing : TRUE
    BY <1>2
  <2>2. /\ closing' = closing \ {q} /\ shut' = [shut EXCEPT ![q] = TRUE]
        /\ subs' = [subs EXCEPT ![q] = {}]
        /\ UNCHANGED <<writer, closed, topics, home, closeReturned, logs, subAt, callerVars>>
    BY <1>2, <2>1 DEF AfterClose, vars, brokerVars, partVars
  <2>3. q \in Partitions
    BY DEF InductiveInv, TypeOK
  <2>4. QED
    BY <2>1, <2>2, <2>3 DEF CloseStep, ClosePartition, vars, brokerVars
<1>3. QED
  BY <1>1, <1>2

\* Together: whoever can go on by NobodyWaits has a step to take.
THEOREM GoingOnIsAStep ==
    ASSUME InductiveInv, ShapeInv, NobodyWaits, Batches # {}
    PROVE  /\ writer # None /\ vars' = AfterClose => <<CloseStep(writer)>>_vars
           /\ writer = None =>
                 \A c \in Callers :
                     call[c] # Idle /\ vars' = AfterCall(c) => <<CallStep(c)>>_vars
BY GuardsSuffice, LockSuffices DEF NobodyWaits

\* What a call and the running Close have still to do at most.
CallLeft(c) == IF call[c] = Idle THEN 0 ELSE IF call[c].part = None THEN 2 ELSE 1
CloseLeft == IF writer = None THEN 0 ELSE 1 + Cardinality(closing)

\* Each step of a call or of Close leaves less to do, and nobody else's step
\* gives it more.
Shrinks ==
    /\ \A c \in Callers :
          /\ CallStep(c) => CallLeft(c)' < CallLeft(c)
          /\ call[c] # Idle => CallLeft(c)' <= CallLeft(c)
    /\ \A k \in Closers : CloseStep(k) => CloseLeft' < CloseLeft
    /\ writer # None => CloseLeft' <= CloseLeft

\* A step of one closer.
LEMMA CloseShrinks ==
    ASSUME InductiveInv, IsFiniteSet(Partitions), NEW k \in Closers, CloseStep(k)
    PROVE  CloseLeft' < CloseLeft
<1>1. IsFiniteSet(closing) /\ Cardinality(closing) \in Nat
  BY FS_Subset, FS_CardinalityType DEF InductiveInv, TypeOK
<1>2. writer = k /\ k # None
  BY BrokerAssumption DEF CloseStep, EndClose, ClosePartition
<1>3. CASE EndClose(k)
  BY <1>1, <1>2, <1>3 DEF EndClose, CloseLeft
<1>4. ASSUME NEW q \in Partitions, ClosePartition(k, q) PROVE CloseLeft' < CloseLeft
  <2>1. Cardinality(closing \ {q}) = Cardinality(closing) - 1
    BY <1>1, <1>4, FS_RemoveElement DEF ClosePartition
  <2>2. closing' = closing \ {q} /\ writer' = writer
    BY <1>4 DEF ClosePartition
  <2>3. QED
    BY <1>1, <1>2, <2>1, <2>2 DEF CloseLeft
<1>5. QED
  BY <1>3, <1>4 DEF CloseStep

\* A step of one call.
LEMMA CallShrinks ==
    ASSUME InductiveInv, ShapeInv, NEW c \in Callers, CallStep(c)
    PROVE  /\ CallLeft(c)' < CallLeft(c)
           /\ \A d \in Callers \ {c} : call'[d] = call[d]
           /\ UNCHANGED <<writer, closing>>
<1>1. call \in [Callers -> CallTypes]
  BY DEF InductiveInv, TypeOK
<1>2. call[c] # Idle
  <2>1. call[c].op # "none"
    <3>1. \/ \E op \in {"list", "publish", "subscribe", "count", "create"} : InCall(c, op)
          \/ \E op \in {"publish", "subscribe", "count"} : Found(c, op)
      BY DEF CallStep, CreateRefused, CreateTopic, List, LookupFails, Lookup, Publish,
         Subscribe, SubscriberCount
    <3>2. QED
      BY <3>1 DEF InCall, Found
  <2>2. QED
    BY <2>1 DEF Idle
<1>3. UNCHANGED <<writer, closing>>
  BY DEF CallStep, CreateRefused, CreateTopic, List, LookupFails, Lookup, Publish,
     Subscribe, SubscriberCount, brokerVars
<1>4. CASE Lookup(c)
  <2>1. /\ call[c].part = None /\ call' = [call EXCEPT ![c].part = topics[call[c].topic]]
        /\ topics[call[c].topic] # None
    BY <1>4 DEF Lookup, InCall
  <2>2. call'[c].part # None /\ call'[c] # Idle
    BY <1>1, <2>1 DEF CallTypes, Idle
  <2>3. QED
    BY <1>1, <1>2, <1>3, <2>1, <2>2 DEF CallLeft
<1>5. CASE ~Lookup(c)
  <2>1. call' = [call EXCEPT ![c] = Idle]
    BY <1>5, CallsReturn DEF CallStep, Return
  <2>2. QED
    BY <1>1, <1>2, <1>3, <2>1 DEF CallLeft
<1>6. QED
  BY <1>4, <1>5

\* Every call is over after two steps of its own, and Close after one for each
\* partition and one more (Broker.topic, Broker.Close).
THEOREM EverythingEnds ==
    ASSUME IsFiniteSet(Partitions)
    PROVE  Spec => [][Shrinks]_vars
<1>1. Init => ShapeInv
  BY DEF Init, ShapeInv, Idle
<1>2. InductiveInv /\ ShapeInv /\ [Next]_vars => [Shrinks]_vars
  <2> SUFFICES ASSUME InductiveInv, ShapeInv, Next PROVE Shrinks
    OBVIOUS
  <2>1. \A c \in Callers : CallLeft(c) \in Int
    BY DEF CallLeft
  <2>2. writer # None => CloseLeft \in Int
    BY FS_Subset, FS_CardinalityType DEF CloseLeft, InductiveInv, TypeOK
  <2>3. ASSUME NEW c \in Callers PROVE CallStep(c) => CallLeft(c)' < CallLeft(c)
    BY <2>3, CallShrinks
  <2>4. ASSUME NEW k \in Closers PROVE CloseStep(k) => CloseLeft' < CloseLeft
    BY <2>4, CloseShrinks
  <2>5. ASSUME NEW c \in Callers, call[c] # Idle PROVE CallLeft(c)' <= CallLeft(c)
    <3>1. CASE CallStep(c)
      BY <2>1, <2>3, <3>1 DEF CallLeft
    <3>2. CASE ~CallStep(c)
      <4>1. call'[c] = call[c]
        <5>1. ASSUME NEW d \in Callers, CallStep(d) PROVE call'[c] = call[c]
          BY <3>2, <5>1, CallShrinks
        <5>2. ASSUME NEW d \in Callers, NEW op \in Operations, NEW t \in Topics,
                     Begin(d, op, t)
              PROVE  call'[c] = call[c]
          BY <2>5, <5>2 DEF Begin, InductiveInv, TypeOK
        <5>3. QED
          BY <5>1, <5>2 DEF Next, CloseSubscription, BeginClose, CloseAgain,
             CloseStep, ClosePartition, EndClose, callerVars
      <4>2. QED
        BY <2>1, <4>1 DEF CallLeft
    <3>3. QED
      BY <3>1, <3>2
  <2>6. ASSUME writer # None PROVE CloseLeft' <= CloseLeft
    <3>1. ASSUME NEW k \in Closers, CloseStep(k) PROVE CloseLeft' <= CloseLeft
      <4>1. CloseLeft' < CloseLeft
        BY <2>4, <3>1
      <4>2. CloseLeft' \in Int
        <5>1. CASE writer' = None
          BY <5>1 DEF CloseLeft
        <5>2. CASE writer' # None
          <6>1. closing' \subseteq closing
            BY <3>1 DEF CloseStep, EndClose, ClosePartition
          <6>2. Cardinality(closing') \in Nat
            BY <6>1, FS_Subset, FS_CardinalityType DEF InductiveInv, TypeOK
          <6>3. QED
            BY <5>2, <6>2 DEF CloseLeft
        <5>3. QED
          BY <5>1, <5>2
      <4>3. QED
        BY <2>2, <2>6, <4>1, <4>2
    <3>2. (\A k \in Closers : ~CloseStep(k)) => UNCHANGED <<writer, closing>>
      BY <2>6, CallShrinks DEF Next, Begin, CloseSubscription, BeginClose, CloseAgain, brokerVars
    <3>3. UNCHANGED <<writer, closing>> => CloseLeft' <= CloseLeft
      BY <2>2, <2>6 DEF CloseLeft
    <3>4. QED
      BY <3>1, <3>2, <3>3
  <2>7. QED
    BY <2>3, <2>4, <2>5, <2>6 DEF Shrinks
<1>3. InductiveInv /\ ShapeInv /\ [Next]_vars => ShapeInv'
  BY ShapeStep
<1>4. QED
  BY Invariance, <1>1, <1>2, <1>3, PTL DEF Spec

=============================================================================

------------------------- MODULE RouteEventsProofs -------------------------
(***************************************************************************)
(* The tracker of route mutations, for any number of writes, foreign       *)
(* changes and lost notifications: it leaves no expectation behind, and    *)
(* the route events it forwards are, up to what was given up on, failed or *)
(* lost, as many as the changes of somebody else.                          *)
(*                                                                         *)
(* The second part is a balance of notifications.  It holds although a     *)
(* notification carries no author: one of somebody else may be taken for   *)
(* the confirmation of a write, whose own is then forwarded instead.       *)
(***************************************************************************)
EXTENDS RouteEvents, TLAPS, FiniteSetTheorems, SequenceTheorems

Expectations == [id : Ids, key : Keys]
Updates      == [key : Keys, own : BOOLEAN]

TypeOK ==
  /\ active \in BOOLEAN /\ pending \in Seq(Expectations)
  /\ results \in [Ids -> Seq({"acknowledged", "closed"})]
  /\ writer \in {"idle", "write", "wait", "drain"} /\ current \in 0..MaxMutations
  /\ key \in Keys /\ expected \in BOOLEAN
  /\ updates \in Seq(Updates)
  /\ forwarder \in {"receive", "answer", "send", "done"} /\ taken \in 0..MaxMutations
  /\ closer \in {"waiting", "answer", "done"} /\ unsent \in Seq(Expectations)
  /\ subscriptionDone \in BOOLEAN
  /\ forwarded \in Nat /\ foreign \in Nat /\ abandoned \in Nat /\ failed \in Nat
  /\ ownLost \in Nat /\ lost \in Nat

(* Only the write in progress has an expectation, and nobody has answered  *)
(* it while it is pending; an id that was not given out has no answer.     *)
OneExpectation ==
  /\ Len(pending) <= 1
  /\ Len(pending) = 1 =>
       /\ pending[1].id = current /\ pending[1].key = key
       /\ expected /\ active /\ writer \in {"write", "wait"}
       /\ results[current] = <<>> /\ taken # current
  /\ active => closer = "waiting" /\ unsent = <<>>
  /\ ~subscriptionDone => active
  /\ writer # "idle" => current > 0
  /\ taken <= current
  /\ \A i \in DOMAIN unsent : unsent[i].id <= current
  /\ \A i \in Ids : i > current => results[i] = <<>>

(* A write that waits for its notification has it under way, unless one    *)
(* was lost.                                                               *)
Confirming == \E j \in DOMAIN updates : updates[j] = [key |-> key, own |-> TRUE]
UnderWay == Len(pending) = 1 /\ writer = "wait" => ownLost > 0 \/ Confirming

OwnIn(u)   == {j \in DOMAIN u : u[j].own}
OwnUpdates == Cardinality(OwnIn(updates))
Writing    == IF writer = "write" THEN 1 ELSE 0

(* Notifications forwarded, under way, lost or about to be caused by the   *)
(* agent, against changes of others and confirmations not awaited.         *)
Caused == forwarded + OwnUpdates + ownLost + Writing
Known  == foreign + abandoned + Len(pending)
Balance == ~subscriptionDone => Caused <= Known /\ Known <= Caused + failed

IInv == TypeOK /\ OneExpectation /\ UnderWay /\ Balance

-----------------------------------------------------------------------------
(* Removing an expectation from the queue.                                 *)
LEMMA Removed ==
  ASSUME NEW S, NEW s \in Seq(S), NEW i \in 1..Len(s)
  PROVE  RemoveAt(s, i) \in Seq(S) /\ Len(RemoveAt(s, i)) = Len(s) - 1
<1>1. SubSeq(s, 1, i - 1) \in Seq(S) /\ Len(SubSeq(s, 1, i - 1)) = i - 1
  BY SubSeqProperties
<1>2. SubSeq(s, i + 1, Len(s)) \in Seq(S) /\ Len(SubSeq(s, i + 1, Len(s))) = Len(s) - i
  BY SubSeqProperties
<1> DEFINE before == SubSeq(s, 1, i - 1)
           after  == SubSeq(s, i + 1, Len(s))
<1> HIDE DEF before, after
<1>3. before \o after \in Seq(S) /\ Len(before \o after) = Len(before) + Len(after)
  BY <1>1, <1>2, ConcatProperties DEF before, after
<1>4. Len(before) = i - 1 /\ Len(after) = Len(s) - i /\ Len(s) \in Nat
  BY <1>1, <1>2 DEF before, after
<1>5. Len(before) + Len(after) = Len(s) - 1
  BY <1>4
<1> QED
  BY <1>3, <1>5 DEF RemoveAt, before, after

(* The own notifications of a queue are finitely many, and one more or one *)
(* less when one of them joins or leaves it.                               *)
LEMMA OwnFinite ==
  ASSUME NEW u \in Seq(Updates)
  PROVE  IsFiniteSet(OwnIn(u)) /\ Cardinality(OwnIn(u)) \in Nat
<1>1. OwnIn(u) \in SUBSET (1..Len(u)) /\ Len(u) \in Int
  BY DEF OwnIn
<1>2. IsFiniteSet(1..Len(u))
  BY <1>1, FS_Interval
<1> QED
  BY <1>1, <1>2, FS_Subset, FS_CardinalityType

(* Counting the own updates of a queue: one that joins,                    *)
LEMMA OwnAppended ==
  ASSUME NEW u \in Seq(Updates), NEW e \in Updates
  PROVE  Cardinality(OwnIn(Append(u, e))) = Cardinality(OwnIn(u)) + (IF e.own THEN 1 ELSE 0)
<1>1. IsFiniteSet(OwnIn(u)) /\ Cardinality(OwnIn(u)) \in Nat
  BY OwnFinite
<1>2. OwnIn(Append(u, e)) = IF e.own THEN OwnIn(u) \cup {Len(u) + 1} ELSE OwnIn(u)
  BY AppendProperties DEF OwnIn
<1>3. Len(u) + 1 \notin OwnIn(u)
  BY DEF OwnIn
<1>4. CASE e.own
  BY <1>1, <1>2, <1>3, <1>4, FS_AddElement
<1>5. CASE ~e.own
  BY <1>1, <1>2, <1>5
<1> QED
  BY <1>4, <1>5

(* (a queue is its front and its last update)                              *)
LEMMA FrontOfUpdates ==
  ASSUME NEW u \in Seq(Updates), u # <<>>
  PROVE  /\ Front(u) \in Seq(Updates) /\ Last(u) \in Updates
         /\ Len(Front(u)) = Len(u) - 1 /\ u = Append(Front(u), Last(u))
<1>1. Front(u) \in Seq(Updates) /\ Len(Front(u)) = Len(u) - 1
  <2> DEFINE n == Len(u) - 1
  <2>1. n \in Nat /\ \A i \in 1..n : u[i] \in Updates
    BY EmptySeq
  <2> HIDE DEF n
  <2>2. /\ SubSeq(u, 1, n) \in Seq(Updates)
        /\ Len(SubSeq(u, 1, n)) = IF 1 <= n THEN n - 1 + 1 ELSE 0
    BY <2>1, SubSeqProperties
  <2>3. Len(SubSeq(u, 1, n)) = n
    BY <2>1, <2>2
  <2> QED
    BY <2>2, <2>3 DEF Front, n
<1>2. Last(u) \in Updates
  BY DEF Last
<1>3. \A i \in 1..Len(u) : u[i] = Append(Front(u), Last(u))[i]
  BY <1>1, <1>2, SubSeqProperties, AppendProperties DEF Front, Last
<1> QED
  BY <1>1, <1>2, <1>3, SeqEqual, AppendProperties

(* one that is lost at the end,                                            *)
LEMMA OwnLastDropped ==
  ASSUME NEW u \in Seq(Updates), u # <<>>
  PROVE  Cardinality(OwnIn(u)) = Cardinality(OwnIn(Front(u))) + (IF Last(u).own THEN 1 ELSE 0)
<1> QED
  BY FrontOfUpdates, OwnAppended

(* and one that is taken.                                                  *)
LEMMA OwnHeadTaken ==
  ASSUME NEW u \in Seq(Updates), u # <<>>
  PROVE  Cardinality(OwnIn(u)) = Cardinality(OwnIn(Tail(u))) + (IF Head(u).own THEN 1 ELSE 0)
<1> DEFINE shifted == {j \in OwnIn(u) : j # 1}
           down    == [j \in shifted |-> j - 1]
<1>1. /\ Tail(u) \in Seq(Updates) /\ Len(Tail(u)) = Len(u) - 1 /\ Head(u) = u[1]
      /\ \A j \in 1..Len(Tail(u)) : Tail(u)[j] = u[j + 1]
  BY HeadTailProperties
<1>2. IsFiniteSet(OwnIn(u)) /\ Cardinality(OwnIn(u)) \in Nat
  BY OwnFinite
<1>3. down \in Bijection(shifted, OwnIn(Tail(u)))
  <2>1. down \in [shifted -> OwnIn(Tail(u))]
    BY <1>1 DEF OwnIn
  <2>2. \A a, b \in shifted : down[a] = down[b] => a = b
    BY DEF OwnIn
  <2>3. \A j \in OwnIn(Tail(u)) : j + 1 \in shifted /\ down[j + 1] = j
    BY <1>1 DEF OwnIn
  <2>4. down \in Surjection(shifted, OwnIn(Tail(u)))
    BY <2>1, <2>3 DEF Surjection
  <2>5. down \in Injection(shifted, OwnIn(Tail(u)))
    BY <2>1, <2>2 DEF Injection, IsInjective
  <2> QED
    BY <2>4, <2>5 DEF Bijection
<1>4. shifted = OwnIn(u) \ {1}
  OBVIOUS
<1>5. /\ IsFiniteSet(shifted)
      /\ Cardinality(shifted) = IF 1 \in OwnIn(u) THEN Cardinality(OwnIn(u)) - 1
                                ELSE Cardinality(OwnIn(u))
  BY <1>2, <1>4, FS_RemoveElement
<1>6. Cardinality(OwnIn(Tail(u))) = Cardinality(shifted)
  BY <1>3, <1>5, FS_Bijection DEF ExistsBijection
<1>7. 1 \in OwnIn(u) <=> Head(u).own
  BY <1>1 DEF OwnIn
<1> HIDE DEF shifted
<1> QED
  BY <1>2, <1>5, <1>6, <1>7

-----------------------------------------------------------------------------
(* There is at most one expectation.                                       *)
LEMMA EmptyPending ==
  ASSUME TypeOK, OneExpectation
  PROVE  Len(pending) \in {0, 1} /\ (Len(pending) = 0 <=> pending = <<>>)
<1>1. pending \in Seq(Expectations) /\ Len(pending) <= 1
  BY DEF TypeOK, OneExpectation
<1>2. Len(pending) \in Nat /\ (Len(pending) = 0 <=> pending = <<>>)
  BY <1>1, EmptySeq, LenProperties
<1>3. \A n \in Nat : n <= 1 => n \in {0, 1}
  OBVIOUS
<1> QED
  BY <1>1, <1>2, <1>3, Zenon

(* cancel empties the queue: what is pending is the write in progress.     *)
LEMMA Cancelled ==
  ASSUME TypeOK, OneExpectation, cancel
  PROVE  pending' = <<>> /\ (IsPending <=> Len(pending) = 1)
<1>1. CASE Len(pending) = 1
  <2>1. IsPending /\ DOMAIN pending = {1}
    BY <1>1 DEF IsPending, TypeOK, OneExpectation
  <2>2. (CHOOSE i \in DOMAIN pending : pending[i].id = current) = 1
    BY <1>1, <2>1 DEF OneExpectation
  <2>3. pending' = RemoveAt(pending, 1)
    BY <2>1, <2>2 DEF cancel
  <2>4. pending' \in Seq(Expectations) /\ Len(pending') = 0
    <3>1. pending \in Seq(Expectations) /\ 1 \in 1..Len(pending)
      BY <1>1 DEF TypeOK
    <3>2. /\ RemoveAt(pending, 1) \in Seq(Expectations)
          /\ Len(RemoveAt(pending, 1)) = Len(pending) - 1
      BY <3>1, Removed
    <3> QED
      BY <1>1, <2>3, <3>2
  <2> QED
    BY <1>1, <2>1, <2>4, EmptySeq
<1>2. CASE Len(pending) = 0
  BY <1>2, EmptyPending DEF cancel, IsPending
<1> QED
  BY <1>1, <1>2, EmptyPending

(* acknowledge takes the expectation of the write in progress, or none.    *)
LEMMA Acknowledged ==
  ASSUME TypeOK, OneExpectation, NEW k, acknowledge(k)
  PROVE  \/ /\ ~(Len(pending) = 1 /\ pending[1].key = k)
            /\ forwarder' = "send" /\ forwarded' = forwarded + 1
            /\ UNCHANGED <<pending, taken>>
         \/ /\ Len(pending) = 1 /\ pending[1].key = k
            /\ forwarder' = "answer" /\ taken' = current
            /\ pending' = <<>> /\ UNCHANGED forwarded
<1>1. CASE Len(pending) = 1 /\ pending[1].key = k
  <2>1. Matches(k) = {1}
    BY <1>1 DEF Matches, TypeOK
  <2>2. Oldest(Matches(k)) = 1
    BY <2>1 DEF Oldest
  <2>3. /\ taken' = pending[1].id /\ forwarder' = "answer"
        /\ pending' = RemoveAt(pending, 1) /\ UNCHANGED forwarded
    BY <2>1, <2>2 DEF acknowledge
  <2>4. pending' \in Seq(Expectations) /\ Len(pending') = 0
    <3>1. pending \in Seq(Expectations) /\ 1 \in 1..Len(pending)
      BY <1>1 DEF TypeOK
    <3>2. /\ RemoveAt(pending, 1) \in Seq(Expectations)
          /\ Len(RemoveAt(pending, 1)) = Len(pending) - 1
      BY <3>1, Removed
    <3> QED
      BY <1>1, <2>3, <3>2
  <2> QED
    BY <1>1, <2>3, <2>4, EmptySeq DEF OneExpectation
<1>2. CASE ~(Len(pending) = 1 /\ pending[1].key = k)
  <2>1. Matches(k) = {}
    BY <1>2, EmptyPending DEF Matches, TypeOK
  <2> QED
    BY <1>2, <2>1 DEF acknowledge, forward
<1> QED
  BY <1>1, <1>2

(* No mutation is under way.                                               *)
LEMMA InitExpectation == Init => TypeOK /\ OneExpectation
<1> SUFFICES ASSUME Init PROVE TypeOK /\ OneExpectation
  OBVIOUS
<1>1. key \in Keys
  <2>1. PICK d \in Destinations : TRUE
    BY RouteEventsAssumption
  <2>2. [messageType |-> "NEWROUTE", prefix |-> d] \in Keys
    BY DEF Keys
  <2> QED
    BY <2>2 DEF Init
<1>2. results \in [Ids -> Seq({"acknowledged", "closed"})]
  BY DEF Init
<1>3. TypeOK
  <2>1. <<>> \in Seq(Expectations) /\ <<>> \in Seq(Updates) /\ 0 \in 0..MaxMutations
    BY RouteEventsAssumption, EmptySeq
  <2> QED
    BY <1>1, <1>2, <2>1 DEF Init, TypeOK
<1>4. OneExpectation
  BY <1>3 DEF Init, OneExpectation, TypeOK, Ids
<1> QED
  BY <1>3, <1>4

(* Every action keeps the types and the one expectation.                   *)
LEMMA NextExpectation ==
  ASSUME TypeOK, OneExpectation, [Next]_vars
  PROVE  TypeOK' /\ OneExpectation'
<1> USE DEF trackerVars, writerVars, forwarderVars, closerVars, counts
<1>0. Len(pending) \in {0, 1} /\ (Len(pending) = 0 <=> pending = <<>>)
  BY EmptyPending
<1>1. CASE expect
  <2>1. PICK k \in Keys :
          /\ key' = k
          /\ pending' = IF active THEN Append(pending, [id |-> current + 1, key |-> k])
                        ELSE pending
    BY <1>1 DEF expect
  <2>2. Len(pending) = 0 /\ pending = <<>>
    BY <1>0, <1>1 DEF expect, OneExpectation
  <2>3. current + 1 \in Ids /\ current' = current + 1
    BY <1>1, RouteEventsAssumption DEF expect, TypeOK, Ids
  <2> DEFINE e == [id |-> current + 1, key |-> k]
  <2>4. e \in Expectations
    BY <2>3 DEF Expectations
  <2>5. /\ Append(pending, e) \in Seq(Expectations)
        /\ Len(Append(pending, e)) = 1 /\ Append(pending, e)[1] = e
    BY <2>2, <2>4, AppendProperties DEF TypeOK
  <2> HIDE DEF e
  <2>6. TypeOK'
    BY <1>1, <2>1, <2>3, <2>5, RouteEventsAssumption DEF expect, TypeOK, Ids, e
  <2>7. /\ UNCHANGED <<active, closer, unsent, subscriptionDone, taken, results>>
        /\ writer' = "write" /\ expected' = active
    BY <1>1 DEF expect
  <2>8. \A i \in DOMAIN unsent' : unsent'[i].id <= current'
    <3> SUFFICES ASSUME NEW i \in DOMAIN unsent PROVE unsent[i].id <= current + 1
      BY <2>3, <2>7
    <3>1. unsent[i] \in Expectations
      BY DEF TypeOK
    <3>2. unsent[i].id \in Nat /\ unsent[i].id <= current /\ current \in Nat
      BY <3>1, RouteEventsAssumption DEF OneExpectation, TypeOK, Ids, Expectations
    <3> QED
      BY <3>2
  <2>9. \A i \in Ids : i > current' => results'[i] = <<>>
    BY <2>3, <2>7 DEF OneExpectation, TypeOK, Ids
  <2>10. taken' <= current' /\ current' > 0 /\ taken' # current' /\ results'[current'] = <<>>
    BY <2>3, <2>7 DEF OneExpectation, TypeOK, Ids
  <2>11. (active' => closer' = "waiting" /\ unsent' = <<>>) /\ (~subscriptionDone' => active')
    BY <2>7 DEF OneExpectation
  <2>12. CASE active
    <3>1. Len(pending') = 1 /\ pending'[1].id = current' /\ pending'[1].key = key'
      BY <2>1, <2>3, <2>5, <2>12 DEF e
    <3> QED
      BY <2>6, <2>7, <2>8, <2>9, <2>10, <2>11, <2>12, <3>1 DEF OneExpectation
  <2>13. CASE ~active
    <3>1. Len(pending') <= 1 /\ Len(pending') # 1
      BY <2>1, <2>2, <2>13
    <3> QED
      BY <2>6, <2>8, <2>9, <2>10, <2>11, <3>1 DEF OneExpectation
  <2> QED
    BY <2>12, <2>13
<1>2. CASE Write
  <2>1. [key |-> key, own |-> TRUE] \in Updates
    BY DEF TypeOK, Updates
  <2>2. updates' \in Seq(Updates)
    BY <1>2, <2>1, AppendProperties DEF Write, TypeOK
  <2> QED
    BY <1>2, <2>2 DEF Write, TypeOK, OneExpectation
<1>3. CASE WriteFails
  <2>1. pending' = <<>> /\ Len(pending') = 0 /\ pending' \in Seq(Expectations)
    BY <1>3, Cancelled, EmptySeq DEF WriteFails
  <2> QED
    BY <1>3, <2>1 DEF WriteFails, TypeOK, OneExpectation
<1>4. CASE waitReturns
  <2>1. Len(pending) = 0
    BY <1>0, <1>4 DEF waitReturns, OneExpectation
  <2>2. /\ results' \in [Ids -> Seq({"acknowledged", "closed"})]
        /\ \A i \in Ids : i > current => results'[i] = results[i]
        /\ failed' \in Nat
    <3>1. CASE ~expected
      BY <1>4, <3>1 DEF waitReturns, TypeOK
    <3>2. CASE expected
      <4>1. current \in Ids /\ results[current] # <<>>
        BY <1>4, <3>2 DEF waitReturns, TypeOK, OneExpectation, Ids
      <4>2. Tail(results[current]) \in Seq({"acknowledged", "closed"})
        BY <4>1, HeadTailProperties DEF TypeOK
      <4>3. results' = [results EXCEPT ![current] = Tail(results[current])]
        BY <1>4, <3>2 DEF waitReturns
      <4>4. failed' \in Nat
        BY <1>4, <3>2 DEF waitReturns, TypeOK
      <4> QED
        BY <4>1, <4>2, <4>3, <4>4 DEF TypeOK, Ids
    <3> QED
      BY <3>1, <3>2
  <2> QED
    BY <1>4, <2>1, <2>2 DEF waitReturns, TypeOK, OneExpectation
<1>5. CASE waitGivesUp
  <2>1. pending' = <<>> /\ Len(pending') = 0 /\ pending' \in Seq(Expectations)
    BY <1>5, Cancelled, EmptySeq DEF waitGivesUp
  <2>2. abandoned' \in Nat /\ failed' \in Nat /\ writer' \in {"idle", "drain"}
    BY <1>5 DEF waitGivesUp, TypeOK
  <2> QED
    BY <1>5, <2>1, <2>2 DEF waitGivesUp, TypeOK, OneExpectation
<1>6. CASE Receive
  <2>1. /\ Tail(updates) \in Seq(Updates) /\ updates' = Tail(updates)
        /\ foreign' \in Nat /\ acknowledge(Head(updates).key)
    <3>1. updates \in Seq(Updates) /\ updates # <<>> /\ foreign \in Nat
      BY <1>6 DEF Receive, TypeOK
    <3>2. Tail(updates) \in Seq(Updates)
      BY <3>1, HeadTailProperties
    <3>3. /\ updates' = Tail(updates) /\ acknowledge(Head(updates).key)
          /\ foreign' = foreign \/ foreign' = foreign + 1
      BY <1>6 DEF Receive
    <3> QED
      BY <3>1, <3>2, <3>3
  <2>2. CASE /\ forwarder' = "send" /\ forwarded' = forwarded + 1
             /\ UNCHANGED <<pending, taken>>
    <3>1. TypeOK'
      BY <1>6, <2>1, <2>2 DEF Receive, TypeOK
    <3> QED
      BY <1>6, <2>2, <3>1 DEF Receive, OneExpectation
  <2>3. CASE /\ Len(pending) = 1 /\ forwarder' = "answer" /\ taken' = current
             /\ pending' = <<>> /\ UNCHANGED forwarded
    <3>1. pending' = <<>> /\ Len(pending') = 0 /\ pending' \in Seq(Expectations)
      BY <2>3, EmptySeq
    <3> QED
      BY <1>6, <2>1, <2>3, <3>1 DEF Receive, TypeOK, OneExpectation
  <2> QED
    BY <2>1, <2>2, <2>3, Acknowledged
<1>7. CASE Answer
  <2>1. results' = Send({taken}, "acknowledged")
    BY <1>7 DEF Answer
  <2>2. results' \in [Ids -> Seq({"acknowledged", "closed"})]
    BY <2>1, AppendProperties DEF Send, TypeOK
  <2>3. \A i \in Ids : i # taken => results'[i] = results[i]
    BY <2>1 DEF Send
  <2>4. taken' = 0 /\ 0 <= current /\ 0 \in 0..MaxMutations
    BY <1>7, RouteEventsAssumption DEF Answer, TypeOK
  <2>5. TypeOK'
    BY <1>7, <2>2, <2>4 DEF Answer, TypeOK
  <2>6. Len(pending) = 1 => current # 0 /\ results'[current] = <<>>
    BY <2>3 DEF OneExpectation, TypeOK, Ids
  <2>7. \A i \in Ids : i > current => results'[i] = <<>>
    BY <2>3 DEF OneExpectation, TypeOK, Ids
  <2> QED
    BY <1>7, <2>4, <2>5, <2>6, <2>7 DEF Answer, OneExpectation
<1>8. CASE sendEvent
  BY <1>8 DEF sendEvent, TypeOK, OneExpectation
<1>16. CASE ForwarderReturns
  BY <1>16 DEF ForwarderReturns, TypeOK, OneExpectation
<1>14. CASE SubscriptionCancelled
  BY <1>14 DEF SubscriptionCancelled, TypeOK, OneExpectation
<1>15. CASE collectNetworkEvents
  BY <1>15 DEF collectNetworkEvents, TypeOK, OneExpectation
<1>9. CASE deactivate
  <2>1. pending' = <<>> /\ Len(pending') = 0 /\ pending' \in Seq(Expectations)
    BY <1>9, EmptySeq DEF deactivate
  <2>2. \A i \in DOMAIN unsent' : unsent'[i].id <= current
    BY <1>0, <1>9 DEF deactivate, TypeOK, OneExpectation
  <2>3. TypeOK'
    BY <1>9, <2>1 DEF deactivate, TypeOK
  <2> QED
    BY <1>9, <2>1, <2>2, <2>3 DEF deactivate, OneExpectation
<1>10. CASE AnswerClosed
  <2>1. results' = Send(IdsOf(unsent), "closed") /\ unsent' = <<>> /\ unsent' \in Seq(Expectations)
    BY <1>10, EmptySeq DEF AnswerClosed
  <2>2. results' \in [Ids -> Seq({"acknowledged", "closed"})]
    BY <2>1, AppendProperties DEF Send, TypeOK
  <2>3. \A i \in Ids : i > current => results'[i] = results[i]
    BY <2>1 DEF Send, IdsOf, TypeOK, OneExpectation, Ids
  <2>4. ~active
    BY <1>10 DEF AnswerClosed, OneExpectation
  <2>5. TypeOK'
    BY <1>10, <2>1, <2>2 DEF AnswerClosed, TypeOK
  <2>6. Len(pending) # 1 /\ UNCHANGED <<pending, active, subscriptionDone, writer, current, taken>>
    BY <1>10, <2>4 DEF AnswerClosed, OneExpectation
  <2>7. \A i \in Ids : i > current => results'[i] = <<>>
    BY <2>3 DEF OneExpectation
  <2> QED
    BY <2>1, <2>4, <2>5, <2>6, <2>7 DEF OneExpectation
<1>11. CASE ForeignChange
  <2>1. PICK k \in Keys : updates' = Append(updates, [key |-> k, own |-> FALSE])
    BY <1>11 DEF ForeignChange
  <2>2. updates' \in Seq(Updates)
    BY <2>1, AppendProperties DEF TypeOK, Updates
  <2> QED
    BY <1>11, <2>2 DEF ForeignChange, TypeOK, OneExpectation
<1>12. CASE Overflow
  <2>1. updates' \in Seq(Updates)
    BY <1>12, FrontOfUpdates DEF Overflow, TypeOK
  <2>2. ownLost' \in Nat /\ lost' \in Nat
    BY <1>12 DEF Overflow, TypeOK
  <2> QED
    BY <1>12, <2>1, <2>2 DEF Overflow, TypeOK, OneExpectation
<1>13. CASE UNCHANGED vars
  BY <1>13 DEF vars, TypeOK, OneExpectation
<1> QED
  BY <1>1, <1>2, <1>3, <1>4, <1>5, <1>6, <1>7, <1>8, <1>9, <1>10, <1>11, <1>12, <1>13,
     <1>14, <1>15, <1>16
  DEF Next, writerStep, forwardRouteEvents, closerStep

-----------------------------------------------------------------------------
(* A notification leaves the queue only by being received, which takes the *)
(* expectation of its key, or by being lost.                               *)
LEMMA NextUnderWay ==
  ASSUME TypeOK, OneExpectation, UnderWay, [Next]_vars
  PROVE  UnderWay'
<1> SUFFICES ASSUME Len(pending') = 1, writer' = "wait" PROVE ownLost' > 0 \/ Confirming'
  BY DEF UnderWay
<1> USE DEF trackerVars, writerVars, forwarderVars, closerVars, counts
<1>1. CASE expect \/ WriteFails \/ waitReturns \/ waitGivesUp
  <2>1. writer' # "wait"
    BY <1>1 DEF expect, WriteFails, waitReturns, waitGivesUp
  <2> QED
    BY <2>1
<1>2. CASE Write
  <2>1. /\ updates' = Append(updates, [key |-> key, own |-> TRUE]) /\ key' = key
        /\ [key |-> key, own |-> TRUE] \in Updates
    BY <1>2 DEF Write, TypeOK, Updates
  <2>2. /\ Len(updates) + 1 \in DOMAIN updates'
        /\ updates'[Len(updates) + 1] = [key |-> key, own |-> TRUE]
    <3>1. updates \in Seq(Updates)
      BY DEF TypeOK
    <3>2. /\ updates' \in Seq(Updates) /\ Len(updates') = Len(updates) + 1
          /\ updates'[Len(updates) + 1] = [key |-> key, own |-> TRUE]
      BY <2>1, <3>1, AppendProperties
    <3>3. Len(updates) \in Nat /\ DOMAIN updates' = 1..Len(updates')
      BY <3>1, <3>2, LenProperties
    <3>4. \A n \in Nat : n + 1 \in 1..(n + 1)
      OBVIOUS
    <3> QED
      BY <3>2, <3>3, <3>4, Zenon
  <2> QED
    BY <2>1, <2>2 DEF Confirming
<1>3. CASE Receive
  <2>1. /\ updates' = Tail(updates) /\ updates # <<>> /\ acknowledge(Head(updates).key)
        /\ UNCHANGED <<key, writer, ownLost>>
    BY <1>3 DEF Receive
  <2>2. /\ Len(pending) = 1 /\ pending[1].key = key /\ Head(updates).key # key
    <3>1. pending' # <<>>
      BY EmptySeq
    <3>2. UNCHANGED pending /\ ~(Len(pending) = 1 /\ pending[1].key = Head(updates).key)
      BY <2>1, <3>1, Acknowledged
    <3> QED
      BY <3>2 DEF OneExpectation
  <2>3. CASE ownLost > 0
    BY <2>1, <2>3
  <2>4. CASE Confirming
    <3>1. PICK j \in DOMAIN updates : updates[j] = [key |-> key, own |-> TRUE]
      BY <2>4 DEF Confirming
    <3>2. updates[j].key = key
      BY <3>1
    <3>3. j # 1
      <4>1. Head(updates) = updates[1]
        BY <2>1 DEF TypeOK
      <4> QED
        BY <2>2, <3>2, <4>1
    <3>4. j - 1 \in DOMAIN Tail(updates) /\ Tail(updates)[j - 1] = updates[j]
      BY <2>1, <3>3, HeadTailProperties DEF TypeOK
    <3> QED
      BY <2>1, <3>1, <3>4 DEF Confirming
  <2> QED
    BY <2>1, <2>2, <2>3, <2>4 DEF UnderWay
<1>4. CASE ForeignChange
  <2>1. PICK k \in Keys : updates' = Append(updates, [key |-> k, own |-> FALSE])
    BY <1>4 DEF ForeignChange
  <2>2. [key |-> k, own |-> FALSE] \in Updates
    BY DEF Updates
  <2>3. \A j \in DOMAIN updates : j \in DOMAIN updates' /\ updates'[j] = updates[j]
    <3>1. updates \in Seq(Updates)
      BY DEF TypeOK
    <3>2. /\ updates' \in Seq(Updates) /\ Len(updates') = Len(updates) + 1
          /\ \A j \in 1..Len(updates) : updates'[j] = updates[j]
      BY <2>1, <2>2, <3>1, AppendProperties
    <3> QED
      BY <3>1, <3>2
  <2> QED
    BY <1>4, <2>3 DEF ForeignChange, UnderWay, Confirming
<1>5. CASE Overflow
  <2>1. /\ updates' = Front(updates) /\ updates # <<>> /\ UNCHANGED <<key, writer, pending>>
        /\ ownLost' = IF Last(updates).own THEN ownLost + 1 ELSE ownLost
    BY <1>5 DEF Overflow
  <2>2. CASE ownLost > 0 \/ Last(updates).own
    BY <2>1, <2>2 DEF TypeOK
  <2>3. CASE Confirming /\ ~Last(updates).own
    <3>1. PICK j \in DOMAIN updates : updates[j] = [key |-> key, own |-> TRUE]
      BY <2>3 DEF Confirming
    <3>2. j # Len(updates)
      BY <2>3, <3>1 DEF Last
    <3>3. j \in 1..Len(Front(updates)) /\ Front(updates)[j] = updates[j]
      BY <2>1, <3>2, FrontOfUpdates, AppendProperties DEF TypeOK
    <3>4. Front(updates) \in Seq(Updates)
      BY <2>1, FrontOfUpdates DEF TypeOK
    <3>5. j \in DOMAIN updates' /\ updates'[j] = [key |-> key', own |-> TRUE]
      BY <2>1, <3>1, <3>3, <3>4
    <3> QED
      BY <3>5 DEF Confirming
  <2> QED
    BY <2>1, <2>2, <2>3 DEF UnderWay
<1>6. CASE deactivate
  <2>1. Len(pending') = 0
    BY <1>6, EmptySeq DEF deactivate
  <2> QED
    BY <2>1
<1>7. CASE \/ Answer \/ sendEvent \/ ForwarderReturns \/ SubscriptionCancelled \/ AnswerClosed
           \/ collectNetworkEvents \/ UNCHANGED vars
  <2>1. UNCHANGED <<pending, writer, updates, key, ownLost>>
    BY <1>7 DEF Answer, sendEvent, ForwarderReturns, SubscriptionCancelled, AnswerClosed,
                collectNetworkEvents, vars
  <2> QED
    BY <2>1 DEF UnderWay, Confirming
<1> QED
  BY <1>1, <1>2, <1>3, <1>4, <1>5, <1>6, <1>7
  DEF Next, writerStep, forwardRouteEvents, closerStep

(* Each action moves a notification from one side's account to another.    *)
LEMMA NextBalance ==
  ASSUME TypeOK, OneExpectation, Balance, [Next]_vars
  PROVE  Balance'
<1> SUFFICES ASSUME ~subscriptionDone' PROVE Balance'
  BY DEF Balance
<1> USE DEF trackerVars, writerVars, forwarderVars, closerVars, counts
<1>0. /\ OwnUpdates \in Nat /\ Writing \in Nat /\ Len(pending) \in Nat
      /\ forwarded \in Nat /\ foreign \in Nat /\ abandoned \in Nat /\ failed \in Nat
      /\ ownLost \in Nat
  BY OwnFinite DEF OwnUpdates, Writing, TypeOK
<1>a. Caused \in Nat /\ Known \in Nat
  BY <1>0 DEF Caused, Known
<1>b. \A m, n \in Nat : \A o \in {0, 1} : m = n + o => n = m - o
  OBVIOUS
<1>1. CASE expect
  <2>1. active /\ ~subscriptionDone
    BY <1>1 DEF expect, OneExpectation
  <2>2. PICK k \in Keys : pending' = Append(pending, [id |-> current + 1, key |-> k])
    BY <1>1, <2>1 DEF expect
  <2>3. [id |-> current + 1, key |-> k] \in Expectations
    <3>1. current + 1 \in Ids
      BY <1>1, RouteEventsAssumption DEF expect, TypeOK, Ids
    <3> QED
      BY <3>1 DEF Expectations
  <2>4. Len(pending') = Len(pending) + 1
    BY <2>2, <2>3, AppendProperties DEF TypeOK
  <2>5. Writing' = 1 /\ Writing = 0 /\ OwnUpdates' = OwnUpdates
    BY <1>1 DEF expect, Writing, OwnUpdates
  <2>6. UNCHANGED <<forwarded, foreign, abandoned, failed, ownLost>>
    BY <1>1 DEF expect
  <2>7. Caused' = Caused + 1 /\ Known' = Known + 1
    BY <1>0, <2>4, <2>5, <2>6 DEF Caused, Known
  <2> QED
    BY <1>0, <1>a, <2>1, <2>6, <2>7 DEF Balance
<1>2. CASE Write
  <2>1. OwnUpdates' = OwnUpdates + 1
    <3>1. [key |-> key, own |-> TRUE] \in Updates
      BY DEF Updates, TypeOK
    <3>2. Cardinality(OwnIn(Append(updates, [key |-> key, own |-> TRUE])))
            = Cardinality(OwnIn(updates)) + 1
      BY <3>1, OwnAppended DEF TypeOK
    <3> QED
      BY <1>2, <3>2 DEF Write, OwnUpdates
  <2>2. /\ Writing' = 0 /\ Writing = 1
        /\ UNCHANGED <<pending, forwarded, foreign, abandoned, failed, ownLost, subscriptionDone>>
    BY <1>2 DEF Write, Writing
  <2>3. Caused' = Caused /\ Known' = Known
    BY <1>0, <2>1, <2>2 DEF Caused, Known
  <2> QED
    BY <2>2, <2>3 DEF Balance
<1>3. CASE WriteFails
  <2>1. Len(pending') = 0 /\ Len(pending) <= 1
    BY <1>3, Cancelled, EmptySeq DEF WriteFails, OneExpectation
  <2>2. /\ Writing' = 0 /\ Writing = 1 /\ failed' = failed + 1 /\ OwnUpdates' = OwnUpdates
        /\ UNCHANGED <<forwarded, foreign, abandoned, ownLost, subscriptionDone>>
    BY <1>3 DEF WriteFails, Writing, OwnUpdates
  <2>3. Caused' = Caused - 1
    BY <1>0, <2>2 DEF Caused
  <2>4. Len(pending) \in {0, 1}
    BY EmptyPending
  <2>5. Known' = Known \/ Known' = Known - 1
    BY <1>0, <2>1, <2>2, <2>4 DEF Known
  <2> QED
    BY <1>0, <1>a, <2>2, <2>3, <2>5 DEF Balance
<1>4. CASE waitReturns
  <2>1. /\ Writing' = 0 /\ Writing = 0 /\ OwnUpdates' = OwnUpdates
        /\ UNCHANGED <<pending, forwarded, foreign, abandoned, ownLost, subscriptionDone>>
    BY <1>4 DEF waitReturns, Writing, OwnUpdates
  <2>2. failed' = failed \/ failed' = failed + 1
    BY <1>4 DEF waitReturns
  <2>3. Caused' = Caused /\ Known' = Known
    BY <2>1 DEF Caused, Known
  <2> QED
    BY <1>0, <1>a, <2>1, <2>2, <2>3 DEF Balance
<1>5. CASE waitGivesUp
  <2>1. Len(pending') = 0 /\ (IsPending <=> Len(pending) = 1) /\ Len(pending) \in {0, 1}
    BY <1>5, Cancelled, EmptySeq, EmptyPending DEF waitGivesUp
  <2>2. /\ Writing' = 0 /\ Writing = 0 /\ OwnUpdates' = OwnUpdates
        /\ UNCHANGED <<forwarded, foreign, ownLost, subscriptionDone>>
    BY <1>5 DEF waitGivesUp, Writing, OwnUpdates
  <2>3. IF IsPending THEN abandoned' = abandoned + 1 /\ failed' = failed + 1
                     ELSE UNCHANGED <<abandoned, failed>>
    BY <1>5 DEF waitGivesUp
  <2>4. Caused' = Caused
    BY <2>2 DEF Caused
  <2>5. Known' = Known
    <3>1. CASE IsPending
      <4>1. /\ Len(pending) = 1 /\ Len(pending') = 0
            /\ abandoned' = abandoned + 1 /\ foreign' = foreign
        BY <2>1, <2>2, <2>3, <3>1
      <4>2. foreign + (abandoned + 1) + 0 = foreign + abandoned + 1
        BY <1>0
      <4> QED
        BY <4>1, <4>2 DEF Known
    <3>2. CASE ~IsPending
      BY <1>0, <2>1, <2>2, <2>3, <3>2 DEF Known
    <3> QED
      BY <3>1, <3>2
  <2>6. failed' = failed \/ failed' = failed + 1
    BY <2>3
  <2> QED
    BY <1>0, <1>a, <2>2, <2>4, <2>5, <2>6 DEF Balance
<1>6. CASE Receive
  <2> DEFINE own == IF Head(updates).own THEN 1 ELSE 0
  <2>1. /\ acknowledge(Head(updates).key) /\ foreign' = foreign + (1 - own)
        /\ UNCHANGED <<writer, abandoned, failed, ownLost, subscriptionDone>>
    BY <1>0, <1>6 DEF Receive
  <2>2. OwnUpdates = OwnUpdates' + own
    BY <1>6, OwnHeadTaken DEF Receive, OwnUpdates, TypeOK
  <2>3. Writing' = Writing /\ own \in {0, 1}
    BY <2>1 DEF Writing
  <2>4. OwnUpdates' \in Nat
    BY <1>6, OwnFinite, HeadTailProperties DEF Receive, OwnUpdates, TypeOK
  <2> HIDE DEF own
  <2>5. OwnUpdates' = OwnUpdates - own /\ OwnUpdates \in Nat
    BY <1>0, <1>b, <2>2, <2>3, <2>4
  <2>6. CASE forwarded' = forwarded + 1 /\ UNCHANGED pending
    <3>1. Caused' = Caused + (1 - own)
      BY <1>0, <2>1, <2>3, <2>5, <2>6 DEF Caused
    <3>2. Known' = Known + (1 - own)
      BY <1>0, <2>1, <2>3, <2>6 DEF Known
    <3> QED
      BY <1>0, <1>a, <2>1, <2>3, <3>1, <3>2 DEF Balance
  <2>7. CASE Len(pending) = 1 /\ pending' = <<>> /\ UNCHANGED forwarded
    <3>1. Len(pending') = 0
      BY <2>7, EmptySeq
    <3>2. Caused' = Caused - own
      BY <1>0, <2>1, <2>3, <2>5, <2>7 DEF Caused
    <3>3. Known' = Known - own
      BY <1>0, <2>1, <2>3, <2>7, <3>1 DEF Known
    <3> QED
      BY <1>0, <1>a, <2>1, <2>3, <3>2, <3>3 DEF Balance
  <2> QED
    BY <2>1, <2>6, <2>7, Acknowledged
<1>7. CASE ForeignChange
  <2>1. OwnUpdates' = OwnUpdates
    <3>1. PICK k \in Keys : updates' = Append(updates, [key |-> k, own |-> FALSE])
      BY <1>7 DEF ForeignChange
    <3>2. [key |-> k, own |-> FALSE] \in Updates
      BY DEF Updates
    <3>3. Cardinality(OwnIn(updates')) = Cardinality(OwnIn(updates)) + 0
      BY <3>1, <3>2, OwnAppended DEF TypeOK
    <3> QED
      BY <1>0, <3>3 DEF OwnUpdates
  <2>2. UNCHANGED <<pending, writer, forwarded, foreign, abandoned, failed, ownLost,
                    subscriptionDone>>
    BY <1>7 DEF ForeignChange
  <2> QED
    BY <2>1, <2>2 DEF Balance, Caused, Known, Writing
<1>8. CASE Overflow
  <2> DEFINE own == IF Last(updates).own THEN 1 ELSE 0
  <2>1. OwnUpdates = OwnUpdates' + own
    BY <1>8, OwnLastDropped DEF Overflow, OwnUpdates, TypeOK
  <2>2. /\ ownLost' = ownLost + own /\ own \in {0, 1}
        /\ UNCHANGED <<pending, writer, forwarded, foreign, abandoned, failed, subscriptionDone>>
    BY <1>0, <1>8 DEF Overflow
  <2>3. OwnUpdates' \in Nat
    BY <1>8, OwnFinite, FrontOfUpdates DEF Overflow, OwnUpdates, TypeOK
  <2>4. Writing' = Writing
    BY <2>2 DEF Writing
  <2> HIDE DEF own
  <2>5. OwnUpdates' = OwnUpdates - own /\ OwnUpdates \in Nat
    BY <1>0, <1>b, <2>1, <2>2, <2>3
  <2>6. Caused' = Caused
    BY <1>0, <2>2, <2>4, <2>5 DEF Caused
  <2>7. Known' = Known
    BY <2>2 DEF Known
  <2> QED
    BY <2>2, <2>6, <2>7 DEF Balance
<1>9. CASE deactivate \/ SubscriptionCancelled \/ AnswerClosed
  <2>1. CASE deactivate \/ SubscriptionCancelled
    BY <2>1 DEF deactivate, SubscriptionCancelled
  <2>2. CASE AnswerClosed
    BY <2>2 DEF AnswerClosed, OneExpectation
  <2> QED
    BY <1>9, <2>1, <2>2
<1>10. CASE Answer \/ sendEvent \/ ForwarderReturns \/ collectNetworkEvents \/ UNCHANGED vars
  <2>1. UNCHANGED <<pending, writer, updates, forwarded, foreign, abandoned, failed, ownLost,
                    subscriptionDone>>
    BY <1>10 DEF Answer, sendEvent, ForwarderReturns, collectNetworkEvents, vars
  <2> QED
    BY <2>1 DEF Balance, Caused, Known, OwnUpdates, Writing
<1> QED
  BY <1>1, <1>2, <1>3, <1>4, <1>5, <1>6, <1>7, <1>8, <1>9, <1>10
  DEF Next, writerStep, forwardRouteEvents, closerStep

-----------------------------------------------------------------------------
(* The invariant holds in every reachable state.                           *)
LEMMA Inductive == Spec => []IInv
<1>1. Init => IInv
  <2> SUFFICES ASSUME Init PROVE IInv
    OBVIOUS
  <2>1. TypeOK /\ OneExpectation
    BY InitExpectation
  <2>2. OwnIn(updates) = {} /\ Len(pending) = 0
    BY DEF Init, OwnIn
  <2>3. OwnUpdates = 0 /\ Writing = 0
    BY <2>2, FS_EmptySet DEF Init, OwnUpdates, Writing
  <2> QED
    BY <2>1, <2>2, <2>3 DEF IInv, Init, UnderWay, Balance, Caused, Known
<1>2. IInv /\ [Next]_vars => IInv'
  BY NextExpectation, NextUnderWay, NextBalance DEF IInv
<1> QED
  BY <1>1, <1>2, PTL DEF Spec

(* Every return of a confirmed write has removed its expectation: activate *)
(* never finds "stale expectations".                                       *)
THEOREM NoStaleExpectation == Spec => []NothingStale
<1>1. IInv => NothingStale
  BY EmptyPending DEF IInv, OneExpectation, NothingStale
<1> QED
  BY <1>1, Inductive, PTL

(* For any number of writes, the events that wake the Controller are at    *)
(* most the changes of others and the confirmations given up on.           *)
THEOREM NoEventForOwnWrites == Spec => []OwnWritesAbsorbed
<1>1. IInv => OwnWritesAbsorbed
  <2> SUFFICES ASSUME IInv, ~subscriptionDone PROVE forwarded <= foreign + abandoned
    BY DEF OwnWritesAbsorbed
  <2>1. /\ OwnUpdates \in Nat /\ Len(pending) \in {0, 1}
        /\ forwarded \in Nat /\ foreign \in Nat /\ abandoned \in Nat /\ ownLost \in Nat
    BY OwnFinite, EmptyPending DEF OwnUpdates, IInv, TypeOK
  <2>2. Confirming => OwnUpdates > 0
    <3>1. ASSUME NEW j \in DOMAIN updates, updates[j] = [key |-> key, own |-> TRUE]
          PROVE  j \in OwnIn(updates)
      <4>1. updates[j].own
        BY <3>1
      <4> QED
        BY <4>1 DEF OwnIn
    <3>2. Confirming => OwnIn(updates) # {}
      BY <3>1 DEF Confirming
    <3> QED
      BY <2>1, <3>2, OwnFinite, FS_EmptySet DEF OwnUpdates, IInv, TypeOK
  <2>3. Len(pending) = 1 => Writing = 1 \/ ownLost > 0 \/ OwnUpdates > 0
    BY <2>2 DEF IInv, OneExpectation, UnderWay, Writing
  <2>4. Writing \in {0, 1}
    BY DEF Writing
  <2>5. forwarded + OwnUpdates + ownLost + Writing <= foreign + abandoned + Len(pending)
    BY DEF IInv, Balance, Caused, Known
  <2>6. CASE Len(pending) = 0
    BY <2>1, <2>4, <2>5, <2>6
  <2>7. CASE Len(pending) = 1
    BY <2>1, <2>3, <2>4, <2>5, <2>7
  <2> QED
    BY <2>1, <2>6, <2>7
<1> QED
  BY <1>1, Inductive, PTL

(* A change of somebody else reaches the Controller as an event, in its    *)
(* own place or in that of the confirmation it was taken for, or a write   *)
(* failed or a notification was lost.                                      *)
THEOREM NoForeignChangeSwallowed == Spec => []ForeignChangesSurface
<1>1. IInv => ForeignChangesSurface
  <2> SUFFICES ASSUME IInv, writer = "idle", ~subscriptionDone,
                      \A i \in DOMAIN updates : ~updates[i].own
               PROVE  foreign <= forwarded + failed + ownLost
    BY DEF ForeignChangesSurface
  <2>1. Len(pending) \in {0, 1} /\ Len(pending) # 1
    BY EmptyPending DEF IInv, OneExpectation
  <2>2. OwnIn(updates) = {}
    BY DEF OwnIn
  <2>3. OwnUpdates = 0 /\ Writing = 0
    BY <2>2, FS_EmptySet DEF OwnUpdates, Writing
  <2> QED
    BY <2>1, <2>3 DEF IInv, TypeOK, Balance, Caused, Known
<1> QED
  BY <1>1, Inductive, PTL
=============================================================================

---------------------------- MODULE GossipProofs ----------------------------
(***************************************************************************)
(* Proofs about Gossip, for every set of keys, values and publishers and   *)
(* every size of Zenoh's buffer and of the channel.                        *)
(***************************************************************************)
EXTENDS Gossip, SequenceTheorems, TLAPS

-----------------------------------------------------------------------------
(* What the forwarder does to the items on their way: it moves the front   *)
(* of the buffer into its hand, and what it has in hand to the end of the  *)
(* queue.                                                                  *)
LEMMA TakeMoves ==
  ASSUME NEW S, NEW q \in Seq(S), NEW b \in Seq(S), b # <<>>
  PROVE  q \o <<Head(b)>> \o Tail(b) = q \o <<>> \o b
<1>1. /\ Head(b) \in S /\ Tail(b) \in Seq(S) /\ <<Head(b)>> \in Seq(S)
      /\ q \o <<>> = q
  BY HeadTailProperties, ConcatEmptySeq
<1>2. <<Head(b)>> \o Tail(b) = b
  <2>1. Len(b) \in Nat \ {0} /\ 1 \in 1 .. Len(b) /\ Len(b) \in 1 .. Len(b)
    BY LenProperties, EmptySeq
  <2>2. SubSeq(b, 1, Len(b)) = <<b[1]>> \o SubSeq(b, 1 + 1, Len(b))
    BY <2>1, SubSeqRecursiveFirst, Zenon
  <2>3. SubSeq(b, 1, Len(b)) = b /\ Tail(b) = SubSeq(b, 2, Len(b)) /\ Head(b) = b[1]
    BY <2>1, SubSeqFull, TailIsSubSeq
  <2> QED
    BY <2>2, <2>3
<1> QED
  BY <1>1, <1>2, ConcatAssociative

(* Sending the held item moves it from the forwarder to the end of the     *)
(* channel.                                                                *)
LEMMA SendMoves ==
  ASSUME NEW S, NEW q \in Seq(S), NEW h \in S, NEW b \in Seq(S)
  PROVE  Append(q, h) \o <<>> \o b = q \o <<h>> \o b
<1>1. Append(q, h) \in Seq(S) /\ Append(q, h) = q \o <<h>>
  BY AppendProperties, AppendIsConcat, Zenon
<1> QED
  BY <1>1, ConcatEmptySeq, Zenon

(* A put adds an item at the end, the listing takes the first one.         *)
LEMMA PutAppends ==
  ASSUME NEW S, NEW q \in Seq(S), NEW b \in Seq(S), NEW e \in S
  PROVE  q \o Append(b, e) = Append(q \o b, e)
<1>1. <<e>> \in Seq(S) /\ q \o b \in Seq(S)
  BY ConcatProperties
<1>2. Append(b, e) = b \o <<e>> /\ Append(q \o b, e) = (q \o b) \o <<e>>
  BY <1>1, AppendIsConcat, Zenon
<1> QED
  BY <1>1, <1>2, ConcatAssociative

(* The first of two sequences put together is that of the first one.       *)
LEMMA NextTakes ==
  ASSUME NEW S, NEW q \in Seq(S), NEW b \in Seq(S), q # <<>>
  PROVE  /\ q \o b \in Seq(S) /\ q \o b # <<>>
         /\ Head(q \o b) = Head(q) /\ Tail(q \o b) = Tail(q) \o b
<1> DEFINE c == q \o b
           u == Tail(c)
           v == Tail(q) \o b
<1>1. /\ Len(q) \in Nat \ {0} /\ Len(b) \in Nat
  BY LenProperties, EmptySeq, Zenon
<1>2. /\ c \in Seq(S) /\ Len(c) = Len(q) + Len(b)
      /\ \A i \in 1 .. Len(q) + Len(b) :
           c[i] = IF i <= Len(q) THEN q[i] ELSE b[i - Len(q)]
  BY ConcatProperties, Zenon
<1>3. c # <<>>
  BY <1>1, <1>2, EmptySeq
<1>4. Head(c) = c[1] /\ Head(q) = q[1]
  OBVIOUS
<1>5. Head(c) = Head(q)
  BY <1>1, <1>2, <1>4
<1>6. /\ Tail(q) \in Seq(S) /\ Len(Tail(q)) = Len(q) - 1
      /\ \A i \in 1 .. Len(q) - 1 : Tail(q)[i] = q[i + 1]
  BY HeadTailProperties, Zenon
<1>7. /\ u \in Seq(S) /\ Len(u) = Len(c) - 1
      /\ \A i \in 1 .. Len(c) - 1 : u[i] = c[i + 1]
  BY <1>2, <1>3, HeadTailProperties, Zenon
<1>8. /\ v \in Seq(S) /\ Len(v) = Len(Tail(q)) + Len(b)
      /\ \A i \in 1 .. Len(Tail(q)) + Len(b) :
           v[i] = IF i <= Len(Tail(q)) THEN Tail(q)[i] ELSE b[i - Len(Tail(q))]
  BY <1>6, ConcatProperties, Zenon
<1> HIDE DEF c, u, v
<1>9. Len(u) = Len(v) /\ Len(u) = Len(q) + Len(b) - 1
  BY <1>1, <1>2, <1>6, <1>7, <1>8
<1>10. ASSUME NEW i \in 1 .. Len(u) PROVE u[i] = v[i]
  <2>1. u[i] = IF i + 1 <= Len(q) THEN q[i + 1] ELSE b[(i + 1) - Len(q)]
    BY <1>1, <1>2, <1>7, <1>9
  <2>2. v[i] = IF i <= Len(q) - 1 THEN Tail(q)[i] ELSE b[i - (Len(q) - 1)]
    BY <1>1, <1>6, <1>8, <1>9, Zenon
  <2>3. (i + 1) - Len(q) = i - (Len(q) - 1) /\ (i + 1 <= Len(q) <=> i <= Len(q) - 1)
    BY <1>1, <1>9
  <2>4. i <= Len(q) - 1 => Tail(q)[i] = q[i + 1]
    BY <1>1, <1>6, <1>9
  <2> QED
    BY <2>1, <2>2, <2>3, <2>4, Zenon
<1>11. u = v
  BY <1>7, <1>8, <1>9, <1>10, SeqEqual, Zenon
<1> QED
  BY <1>2, <1>3, <1>5, <1>11, Zenon DEF c, u, v

-----------------------------------------------------------------------------
(* The fields of an item; an error has no key.                             *)
LEMMA ItemFields ==
  ASSUME NEW k \in Key, NEW v \in Value
  PROVE  /\ Item(k, v) \in Items /\ Error \in Items
         /\ Item(k, v).key = k /\ Item(k, v).value = v /\ Error.key \notin Key
  BY GossipAssumption DEF Items, Item, Error

(* The types at the start.                                                 *)
LEMMA TypeInit == Init => TypeOK
<1>1. <<>> \in Seq(Items) /\ Len(<<>>) = 0
  BY EmptySeq, Zenon
<1> QED
  BY <1>1, GossipAssumption DEF Init, TypeOK, Items

(* A put reaches the buffer only when somebody is subscribed.              *)
LEMMA PutType ==
  ASSUME TypeOK, NEW k \in Key, NEW v \in Value, Put(k, v),
         proc' \in [Key -> {"down", "up", "serving", "announced"}]
  PROVE  TypeOK'
<1>1. /\ UNCHANGED <<cmd, linked, session, fwdVars, queue, listVars>>
      /\ last' \in [Key -> Value \cup {None}]
      /\ ~Subscribed => last' = [last EXCEPT ![k] = None]
  BY Zenon DEF Put, TypeOK
<1>2. buffer' \in Seq(Items) /\ Len(buffer') <= ZenohBuffer
  <2>1. CASE UNCHANGED buffer
    BY <2>1, Zenon DEF TypeOK
  <2>2. CASE buffer' = Append(buffer, Item(k, v)) /\ Len(buffer) < ZenohBuffer
    <3>1. /\ Append(buffer, Item(k, v)) \in Seq(Items)
          /\ Len(Append(buffer, Item(k, v))) = Len(buffer) + 1
          /\ Len(buffer) \in Nat
      BY ItemFields, AppendProperties, LenProperties DEF TypeOK
    <3> QED
      BY <2>2, <3>1, GossipAssumption
  <2> QED
    BY <2>1, <2>2, Zenon DEF Put
<1>3. pc' = "start" => fwd' = "off" /\ \A l \in Key : last'[l] = None
  BY <1>1, Zenon DEF Subscribed, TypeOK, listVars, fwdVars
<1> QED
  BY <1>1, <1>2, <1>3, Zenon DEF TypeOK, fwdVars, listVars

(* The end of a listing keeps the types.                                   *)
LEMMA FinishType == TypeOK /\ Finish /\ pc \in {"check", "wait"} => TypeOK'
<1>1. <<>> \in Seq(Items) /\ Len(<<>>) = 0
  BY EmptySeq, Zenon
<1> QED
  BY <1>1, GossipAssumption DEF Finish, TypeOK, pubVars, fwdVars

(* Every step keeps the types and the bounds.                              *)
LEMMA TypeStep == TypeOK /\ [Next]_vars => TypeOK'
<1> SUFFICES ASSUME TypeOK, [Next]_vars PROVE TypeOK'
  BY Zenon
<1>1. CASE UNCHANGED vars
  BY <1>1, Zenon DEF vars, pubVars, fwdVars, listVars, TypeOK
<1>2. ASSUME NEW k \in Key, Up(k) \/ Serve(k) \/ Down(k) \/ Link(k)
      PROVE  TypeOK'
  <2>1. /\ proc' \in [Key -> {"down", "up", "serving", "announced"}]
        /\ linked' \in SUBSET Key
    BY <1>2, Zenon DEF Up, Serve, Down, Link, TypeOK
  <2>2. UNCHANGED <<cmd, last, buffer, session, fwdVars, queue, listVars>>
    BY <1>2, Zenon DEF Up, Serve, Down, Link
  <2> QED
    BY <2>1, <2>2, Zenon DEF TypeOK, fwdVars, listVars
<1>3. ASSUME NEW k \in Key, Publish(k) PROVE TypeOK'
  <2>1. PICK v \in Value : Beat(k, v) \/ AnnounceOnce(k, v)
    BY <1>3, Zenon DEF Publish
  <2>2. /\ Put(k, v)
        /\ proc' \in [Key -> {"down", "up", "serving", "announced"}]
    BY <2>1, Zenon DEF Beat, AnnounceOnce, TypeOK
  <2> QED
    BY <2>2, PutType, Zenon
<1>4. CASE PutMalformed
  <2>1. /\ Append(buffer, Error) \in Seq(Items)
        /\ Len(Append(buffer, Error)) = Len(buffer) + 1 /\ Len(buffer) \in Nat
    BY AppendProperties, LenProperties DEF TypeOK, Items
  <2>2. /\ buffer' \in Seq(Items) /\ Len(buffer') <= ZenohBuffer
        /\ UNCHANGED <<cmd, pubVars, session, fwdVars, queue, listVars>>
    BY <1>4, <2>1, GossipAssumption DEF PutMalformed
  <2> QED
    BY <2>2, Zenon DEF TypeOK, pubVars, fwdVars, listVars
<1>5. CASE TakeSample
  <2>1. /\ Head(buffer) \in Items /\ Tail(buffer) \in Seq(Items)
        /\ Len(Tail(buffer)) = Len(buffer) - 1 /\ Len(buffer) \in Nat
    BY <1>5, HeadTailProperties, LenProperties, Zenon DEF TakeSample, TypeOK
  <2>2. /\ buffer' \in Seq(Items) /\ Len(buffer') <= ZenohBuffer
        /\ held' \in Items /\ fwd = "recv" /\ fwd' = "send"
        /\ UNCHANGED <<cmd, pubVars, session, queue, listVars>>
    BY <1>5, <2>1, GossipAssumption DEF TakeSample, TypeOK
  <2> QED
    BY <2>2, Zenon DEF TypeOK, pubVars, listVars
<1>6. CASE SendItem
  <2>1. /\ Append(queue, held) \in Seq(Items)
        /\ Len(Append(queue, held)) = Len(queue) + 1 /\ Len(queue) \in Nat
    BY AppendProperties, LenProperties DEF TypeOK
  <2>2. /\ fwd = "send" /\ fwd' \in {"recv", "done"} /\ held' = Error
        /\ UNCHANGED <<cmd, pubVars, buffer, session, listVars>>
        /\ \/ UNCHANGED queue
           \/ pc # "done" /\ Len(queue) < Capacity /\ queue' = Append(queue, held)
    BY <1>6, Zenon DEF SendItem, Reading
  <2>3. queue' \in Seq(Items) /\ Len(queue') <= Capacity
    <3>1. CASE UNCHANGED queue
      BY <3>1, Zenon DEF TypeOK
    <3>2. CASE Len(queue) < Capacity /\ queue' = Append(queue, held)
      BY <2>1, <3>2, GossipAssumption
    <3> QED
      BY <2>2, <3>1, <3>2, Zenon
  <2> QED
    BY <2>2, <2>3 DEF TypeOK, Items, pubVars, listVars
<1>7. CASE CloseSession \/ SubscriberClosed
  BY <1>7, Zenon
  DEF CloseSession, SubscriberClosed, TypeOK, pubVars, fwdVars, listVars
<1>8. CASE Subscribe \/ Tick
  BY <1>8, GossipAssumption
     DEF Subscribe, Tick, Reading, TypeOK, pubVars, fwdVars, listVars
<1>9. CASE CheckDeadline \/ StopWaiting
  <2>1. CASE Finish
    BY <1>9, <2>1, FinishType, Zenon DEF CheckDeadline, StopWaiting
  <2>2. CASE ~Finish
    BY <1>9, <2>2, Zenon
    DEF CheckDeadline, StopWaiting, TypeOK, pubVars, fwdVars
  <2> QED
    BY <2>1, <2>2, Zenon
<1>10. CASE NextItem
  <2>1. /\ Head(queue) \in Items /\ Tail(queue) \in Seq(Items)
        /\ Len(Tail(queue)) = Len(queue) - 1 /\ Len(queue) \in Nat
    BY <1>10, HeadTailProperties, LenProperties, Zenon DEF NextItem, TypeOK
  <2>2. /\ queue' = Tail(queue) /\ pc = "wait" /\ pc' = "check"
        /\ UNCHANGED <<cmd, pubVars, buffer, session, fwdVars, left>>
        /\ \/ seen' = seen
           \/ /\ Head(queue) # Error
              /\ seen' = [seen EXCEPT ![Head(queue).key] = Head(queue).value]
    BY <1>10, Zenon DEF NextItem
  <2>3. Head(queue) # Error => Head(queue).value \in Value
    BY <2>1 DEF Items, Item
  <2>4. seen' \in [Key -> Value \cup {None}]
    BY <2>2, <2>3, Zenon DEF TypeOK
  <2>5. queue' \in Seq(Items) /\ Len(queue') <= Capacity
    BY <2>1, <2>2, GossipAssumption DEF TypeOK
  <2> QED
    BY <2>2, <2>4, <2>5, Zenon DEF TypeOK, pubVars, fwdVars
<1> QED
  BY <1>1, <1>2, <1>3, <1>4, <1>5, <1>6, <1>7, <1>8, <1>9, <1>10, Zenon
     DEF Next, Forwarder, Listing

(* The channel of subscribe stays within its capacity, with any number of  *)
(* publishers, because the forwarder waits; and nothing is put into it     *)
(* after the listing has dropped the stream.                               *)
THEOREM ChannelIsBounded == Spec => []TypeOK
  BY TypeInit, TypeStep, PTL DEF Spec

-----------------------------------------------------------------------------
(* The items on their way form one queue, whatever holds them.             *)
LEMMA TransitType ==
  ASSUME TypeOK
  PROVE  /\ InTransit \in Seq(Items)
         /\ queue \in Seq(Items) /\ buffer \in Seq(Items) /\ held \in Items
         /\ (IF fwd = "send" THEN <<held>> ELSE <<>>) \in Seq(Items)
<1> DEFINE hand == IF fwd = "send" THEN <<held>> ELSE <<>>
<1>1. hand \in Seq(Items) /\ queue \in Seq(Items) /\ buffer \in Seq(Items)
  BY EmptySeq DEF TypeOK
<1>2. queue \o hand \in Seq(Items)
  BY <1>1, ConcatProperties, Zenon
<1> HIDE DEF hand
<1>3. (queue \o hand) \o buffer \in Seq(Items)
  BY <1>1, <1>2, ConcatProperties, Zenon
<1> QED
  BY <1>1, <1>3, Zenon DEF InTransit, hand, TypeOK

(* The forwarder changes nothing of what is on its way.                    *)
LEMMA ForwarderKeeps ==
  ASSUME TypeOK, TakeSample \/ SubscriberClosed \/ (SendItem /\ Reading)
  PROVE  InTransit' = InTransit
<1>1. queue \in Seq(Items) /\ buffer \in Seq(Items) /\ held \in Items
  BY TransitType, Zenon
<1>2. CASE TakeSample
  <2>1. queue \o <<Head(buffer)>> \o Tail(buffer) = queue \o <<>> \o buffer
    BY <1>1, <1>2, TakeMoves, Zenon DEF TakeSample
  <2> QED
    BY <1>2, <2>1, Zenon DEF TakeSample, InTransit
<1>3. CASE SubscriberClosed
  BY <1>3, Zenon DEF SubscriberClosed, InTransit
<1>4. CASE SendItem /\ Reading
  <2>1. Append(queue, held) \o <<>> \o buffer = queue \o <<held>> \o buffer
    BY <1>1, SendMoves
  <2>2. queue' = Append(queue, held) /\ fwd = "send" /\ fwd' = "recv" /\ buffer' = buffer
    BY <1>4, Zenon DEF SendItem, Reading
  <2> QED
    BY <2>1, <2>2, Zenon DEF InTransit
<1> QED
  BY <1>2, <1>3, <1>4, Zenon

(* A put adds at the end of what is on its way.                            *)
LEMMA AddedLast ==
  ASSUME TypeOK, NEW e \in Items, buffer' = Append(buffer, e),
         UNCHANGED <<queue, fwdVars>>
  PROVE  InTransit' = Append(InTransit, e)
<1> DEFINE front == queue \o (IF fwd = "send" THEN <<held>> ELSE <<>>)
<1>1. front \in Seq(Items) /\ buffer \in Seq(Items)
  BY TransitType, ConcatProperties, Zenon
<1>2. InTransit' = front \o Append(buffer, e) /\ InTransit = front \o buffer
  BY Zenon DEF InTransit, fwdVars
<1> HIDE DEF front
<1> QED
  BY <1>1, <1>2, PutAppends

(* The listing takes the first of what is on its way.                      *)
LEMMA TakenFirst ==
  ASSUME TypeOK, NextItem
  PROVE  /\ InTransit # <<>> /\ Head(InTransit) = Head(queue)
         /\ InTransit' = Tail(InTransit)
<1> DEFINE hand == IF fwd = "send" THEN <<held>> ELSE <<>>
           front == queue \o hand
<1>1. /\ queue # <<>> /\ queue \in Seq(Items) /\ buffer \in Seq(Items)
      /\ hand \in Seq(Items)
  BY TransitType, Zenon DEF NextItem
<1>2. InTransit = front \o buffer /\ InTransit' = (Tail(queue) \o hand) \o buffer
  BY Zenon DEF InTransit, NextItem, fwdVars
<1> HIDE DEF hand
<1>3. /\ front \in Seq(Items) /\ front # <<>> /\ Head(front) = Head(queue)
      /\ Tail(front) = Tail(queue) \o hand
  BY <1>1, NextTakes, ZenonT(20)
<1> HIDE DEF front
<1>4. /\ front \o buffer # <<>> /\ Head(front \o buffer) = Head(front)
      /\ Tail(front \o buffer) = Tail(front) \o buffer
  BY <1>1, <1>3, NextTakes
<1> QED
  BY <1>2, <1>3, <1>4, Zenon

(* What is left on its way when the stream is dropped, or the item in      *)
(* hand, was on its way before.                                            *)
Mentions(s, k) == \E i \in DOMAIN s : s[i].key = k

(* A key is mentioned in one or the other part.                            *)
LEMMA KeyInConcat ==
  ASSUME NEW S, NEW s \in Seq(S), NEW t \in Seq(S), NEW k
  PROVE  Mentions(s \o t, k) <=> Mentions(s, k) \/ Mentions(t, k)
<1> DEFINE c == s \o t
<1>1. /\ Len(s) \in Nat /\ Len(t) \in Nat
      /\ DOMAIN s = 1 .. Len(s) /\ DOMAIN t = 1 .. Len(t)
  BY LenProperties, Zenon
<1>2. /\ c \in Seq(S) /\ Len(c) = Len(s) + Len(t)
      /\ \A i \in 1 .. Len(s) + Len(t) :
           c[i] = IF i <= Len(s) THEN s[i] ELSE t[i - Len(s)]
  BY ConcatProperties, Zenon
<1>3. DOMAIN c = 1 .. Len(s) + Len(t)
  BY <1>2, LenProperties, Zenon
<1> HIDE DEF c
<1>4. ASSUME NEW i \in DOMAIN c
      PROVE  \/ i \in DOMAIN s /\ c[i] = s[i]
             \/ i - Len(s) \in DOMAIN t /\ c[i] = t[i - Len(s)]
  BY <1>1, <1>2, <1>3
<1>5. ASSUME NEW i \in DOMAIN s PROVE i \in DOMAIN c /\ c[i] = s[i]
  BY <1>1, <1>2, <1>3
<1>6. ASSUME NEW i \in DOMAIN t
      PROVE  i + Len(s) \in DOMAIN c /\ c[i + Len(s)] = t[i]
  <2>1. i + Len(s) \in 1 .. Len(s) + Len(t) /\ ~(i + Len(s) <= Len(s))
        /\ (i + Len(s)) - Len(s) = i
    BY <1>1
  <2> QED
    BY <1>2, <1>3, <2>1, Zenon
<1>7. Mentions(c, k) <=> Mentions(s, k) \/ Mentions(t, k)
  BY <1>4, <1>5, <1>6 DEF Mentions
<1> QED
  BY <1>7, Zenon DEF c

(* Nothing new is on its way after a listing ends.                         *)
LEMMA LeftOver ==
  ASSUME TypeOK, NEW k, OnItsWay(k)', Finish \/ (SendItem /\ ~Reading)
  PROVE  OnItsWay(k)
<1> DEFINE hand == IF fwd = "send" THEN <<held>> ELSE <<>>
           front == queue \o hand
<1>1. /\ queue \in Seq(Items) /\ hand \in Seq(Items) /\ buffer \in Seq(Items)
      /\ InTransit = front \o buffer
  BY TransitType, Zenon DEF InTransit
<1>2. InTransit' = hand \o buffer \/ InTransit' = queue \o buffer
  <2>1. CASE Finish
    <3>1. InTransit' = (<<>> \o hand) \o buffer
      BY <2>1, Zenon DEF Finish, InTransit, fwdVars
    <3> HIDE DEF hand
    <3> QED
      BY <1>1, <3>1, ConcatEmptySeq, Zenon
  <2>2. CASE SendItem /\ ~Reading
    <3>1. InTransit' = (queue \o <<>>) \o buffer
      BY <2>2, Zenon DEF SendItem, InTransit
    <3> QED
      BY <1>1, <3>1, ConcatEmptySeq, Zenon
  <2> QED
    BY <2>1, <2>2, Zenon
<1> HIDE DEF hand
<1>3. /\ front \in Seq(Items)
      /\ Mentions(front, k) <=> Mentions(queue, k) \/ Mentions(hand, k)
  BY <1>1, ConcatProperties, KeyInConcat, Zenon
<1> HIDE DEF front
<1>4. Mentions(InTransit, k) <=> Mentions(front, k) \/ Mentions(buffer, k)
  BY <1>1, <1>3, KeyInConcat, Zenon
<1>5. Mentions(InTransit', k)
  BY Zenon DEF OnItsWay, Mentions
<1>6. Mentions(queue, k) \/ Mentions(hand, k) \/ Mentions(buffer, k)
  <2>1. Mentions(hand \o buffer, k) \/ Mentions(queue \o buffer, k)
    BY <1>2, <1>5, Zenon
  <2>2. /\ Mentions(hand \o buffer, k) <=> Mentions(hand, k) \/ Mentions(buffer, k)
        /\ Mentions(queue \o buffer, k) <=> Mentions(queue, k) \/ Mentions(buffer, k)
    BY <1>1, KeyInConcat, Zenon
  <2> QED
    BY <2>1, <2>2, Zenon
<1>7. Mentions(InTransit, k)
  BY <1>3, <1>4, <1>6, Zenon
<1> QED
  BY <1>7, Zenon DEF OnItsWay, Mentions

-----------------------------------------------------------------------------
(* NothingStale, of one key.                                               *)
Fresh(k) ==
  \/ \E i \in DOMAIN InTransit : Newest(k, i) /\ InTransit[i].value = last[k]
  \/ ~OnItsWay(k) /\ seen[k] = last[k]

(* A key stays fresh when an event is added.                               *)
LEMMA FreshAppend ==
  ASSUME TypeOK, NEW e \in Items, InTransit' = Append(InTransit, e), NEW k \in Key,
         \/ e.key = k /\ last'[k] = e.value
         \/ e.key # k /\ last'[k] = last[k] /\ seen'[k] = seen[k] /\ Fresh(k)
  PROVE  Fresh(k)'
<1> DEFINE n == Len(InTransit)
<1>1. /\ n \in Nat /\ DOMAIN InTransit = 1 .. n /\ DOMAIN InTransit' = 1 .. n + 1
      /\ \A i \in 1 .. n : InTransit'[i] = InTransit[i]
      /\ InTransit'[n + 1] = e
  <2>1. InTransit \in Seq(Items)
    BY TransitType, Zenon
  <2>2. /\ InTransit' \in Seq(Items) /\ Len(InTransit') = n + 1
        /\ \A i \in 1 .. n : InTransit'[i] = InTransit[i]
        /\ InTransit'[n + 1] = e
    BY <2>1, AppendProperties
  <2> QED
    BY <2>1, <2>2, LenProperties, Zenon
<1> HIDE DEF n
<1>2. CASE e.key = k /\ last'[k] = e.value
  <2>1. n + 1 \in DOMAIN InTransit' /\ InTransit'[n + 1].value = last'[k]
    BY <1>1, <1>2
  <2>2. /\ InTransit'[n + 1].key = k
        /\ \A j \in DOMAIN InTransit' : ~(j > n + 1)
    BY <1>1, <1>2
  <2> QED
    BY <2>1, <2>2, Zenon DEF Fresh, Newest
<1>3. CASE e.key # k /\ last'[k] = last[k] /\ seen'[k] = seen[k] /\ Fresh(k)
  <2>1. ASSUME NEW i \in DOMAIN InTransit, Newest(k, i), InTransit[i].value = last[k]
        PROVE  Fresh(k)'
    <3>1. /\ i \in DOMAIN InTransit' /\ InTransit'[i].value = last'[k]
          /\ InTransit'[i].key = k
      BY <1>1, <1>3, <2>1 DEF Newest
    <3>2. ASSUME NEW j \in DOMAIN InTransit', j > i PROVE InTransit'[j].key # k
      <4>1. CASE j = n + 1
        BY <1>1, <1>3, <4>1, Zenon
      <4>2. CASE j # n + 1
        BY <1>1, <2>1, <3>2, <4>2 DEF Newest
      <4> QED
        BY <4>1, <4>2, Zenon
    <3> QED
      BY <3>1, <3>2, Zenon DEF Fresh, Newest
  <2>2. CASE ~OnItsWay(k) /\ seen[k] = last[k]
    <3>1. \A i \in DOMAIN InTransit' : InTransit'[i].key # k
      <4>1. \A i \in 1 .. n : InTransit[i].key # k
        BY <1>1, <2>2, Zenon DEF OnItsWay
      <4>2. \A i \in 1 .. n + 1 : i \in 1 .. n \/ i = n + 1
        BY <1>1
      <4> QED
        BY <1>1, <1>3, <4>1, <4>2, Zenon
    <3> QED
      BY <1>3, <2>2, <3>1, Zenon DEF Fresh, OnItsWay
  <2> QED
    BY <1>3, <2>1, <2>2, Zenon DEF Fresh
<1> QED
  BY <1>2, <1>3, Zenon

(* The listing takes the first item: if it was the newest of its key, it   *)
(* is now what was seen.                                                   *)
LEMMA FreshNext ==
  ASSUME TypeOK, NextItem, NEW k \in Key, Fresh(k)
  PROVE  Fresh(k)'
<1> DEFINE n == Len(InTransit)
           item == Head(queue)
<1>1. /\ n \in Nat /\ n >= 1
      /\ DOMAIN InTransit = 1 .. n /\ DOMAIN InTransit' = 1 .. n - 1
      /\ \A i \in 1 .. n - 1 : InTransit'[i] = InTransit[i + 1]
      /\ InTransit[1] = item
  <2>1. /\ InTransit \in Seq(Items) /\ InTransit # <<>> /\ Head(InTransit) = item
        /\ InTransit' = Tail(InTransit)
    BY TransitType, TakenFirst, Zenon
  <2>2. /\ InTransit' \in Seq(Items) /\ Len(InTransit') = n - 1
        /\ \A i \in 1 .. n - 1 : InTransit'[i] = InTransit[i + 1]
    BY <2>1, HeadTailProperties, Zenon
  <2>3. Head(InTransit) = InTransit[1]
    BY <2>1
  <2>4. n \in Nat \ {0} /\ DOMAIN InTransit = 1 .. n
    BY <2>1, LenProperties, EmptySeq, Zenon
  <2>5. DOMAIN InTransit' = 1 .. n - 1
    BY <2>2, LenProperties, Zenon
  <2> QED
    BY <2>1, <2>2, <2>3, <2>4, <2>5
<1>2. /\ seen' = IF item = Error THEN seen ELSE [seen EXCEPT ![item.key] = item.value]
      /\ UNCHANGED last
  BY Zenon DEF NextItem, pubVars
<1>3. /\ item.key = k => seen'[k] = item.value
      /\ item.key # k => seen'[k] = seen[k]
  <2>1. item = Error => item.key # k
    BY GossipAssumption DEF Error
  <2> HIDE DEF item
  <2> QED
    BY <1>2, <2>1, Zenon DEF TypeOK
<1> HIDE DEF n, item
<1>4. ASSUME NEW i \in DOMAIN InTransit, Newest(k, i), InTransit[i].value = last[k]
      PROVE  Fresh(k)'
  <2>1. CASE i = 1
    <3>1. item.key = k /\ item.value = last[k]
      BY <1>1, <1>4, <2>1, Zenon DEF Newest
    <3>2. ASSUME NEW j \in DOMAIN InTransit' PROVE InTransit'[j].key # k
      <4>1. j + 1 \in DOMAIN InTransit /\ j + 1 > 1 /\ InTransit'[j] = InTransit[j + 1]
        BY <1>1
      <4> QED
        BY <1>4, <2>1, <4>1, Zenon DEF Newest
    <3> QED
      BY <1>2, <1>3, <3>1, <3>2, Zenon DEF Fresh, OnItsWay
  <2>2. CASE i # 1
    <3>1. i - 1 \in DOMAIN InTransit' /\ InTransit'[i - 1] = InTransit[i]
      <4>1. i - 1 \in 1 .. n - 1 /\ (i - 1) + 1 = i
        BY <1>1, <2>2
      <4> QED
        BY <1>1, <4>1, Zenon
    <3>2. ASSUME NEW j \in DOMAIN InTransit', j > i - 1 PROVE InTransit'[j].key # k
      <4>1. j + 1 \in DOMAIN InTransit /\ j + 1 > i /\ InTransit'[j] = InTransit[j + 1]
        BY <1>1, <3>2
      <4> QED
        BY <1>4, <4>1, Zenon DEF Newest
    <3> QED
      BY <1>2, <1>4, <3>1, <3>2, Zenon DEF Fresh, Newest
  <2> QED
    BY <2>1, <2>2, Zenon
<1>5. CASE ~OnItsWay(k) /\ seen[k] = last[k]
  <2>1. item.key # k
    BY <1>1, <1>5 DEF OnItsWay
  <2>2. \A j \in DOMAIN InTransit' : InTransit'[j].key # k
    <3>1. \A j \in 1 .. n - 1 : j + 1 \in DOMAIN InTransit
      BY <1>1
    <3> QED
      BY <1>1, <1>5, <3>1, Zenon DEF OnItsWay
  <2> QED
    BY <1>2, <1>3, <1>5, <2>1, <2>2, Zenon DEF Fresh, OnItsWay
<1> QED
  BY <1>4, <1>5, Zenon DEF Fresh

(* No step makes a listing stale.                                          *)
LEMMA StaleStep == TypeOK /\ NothingStale /\ [Next]_vars => NothingStale'
<1> SUFFICES ASSUME TypeOK, NothingStale, [Next]_vars, Reading',
                    NEW k \in Key, last'[k] # None
             PROVE  Fresh(k)'
  BY Zenon DEF NothingStale, Fresh
<1>1. Reading /\ last[k] # None => Fresh(k)
  BY Zenon DEF NothingStale, Fresh
<1>2. ASSUME InTransit' = InTransit, Reading, last'[k] = last[k], seen' = seen
      PROVE  Fresh(k)'
  BY <1>1, <1>2, Zenon DEF Fresh, OnItsWay, Newest
<1>3. CASE UNCHANGED <<buffer, queue, fwdVars, pc, seen>> /\ UNCHANGED last
  BY <1>2, <1>3, Zenon DEF InTransit, fwdVars, Reading
<1>4. CASE TakeSample \/ SubscriberClosed
  BY <1>2, <1>4, ForwarderKeeps, Zenon
     DEF TakeSample, SubscriberClosed, Reading, pubVars, listVars
<1>5. CASE SendItem
  <2>1. Reading /\ UNCHANGED <<last, seen>>
    BY <1>5, Zenon DEF SendItem, Reading, pubVars, listVars
  <2> QED
    BY <1>2, <1>5, <2>1, ForwarderKeeps, Zenon
<1>6. ASSUME NEW l \in Key, Publish(l) PROVE Fresh(k)'
  <2>1. PICK v \in Value : Put(l, v)
    BY <1>6, Zenon DEF Publish, Beat, AnnounceOnce
  <2>2. Reading /\ UNCHANGED <<seen, queue, fwdVars>>
    BY <2>1, Zenon DEF Put, Reading, listVars
  <2>3. CASE UNCHANGED buffer /\ last' = [last EXCEPT ![l] = None]
    <3>1. k # l /\ last'[k] = last[k]
      BY <2>3, Zenon DEF TypeOK
    <3> QED
      BY <1>2, <2>2, <2>3, <3>1, Zenon DEF InTransit, fwdVars
  <2>4. CASE buffer' = Append(buffer, Item(l, v)) /\ last' = [last EXCEPT ![l] = v]
    <3>1. Item(l, v) \in Items /\ Item(l, v).key = l /\ Item(l, v).value = v
      BY ItemFields, Zenon
    <3>2. InTransit' = Append(InTransit, Item(l, v))
      BY <2>2, <2>4, <3>1, AddedLast, Zenon
    <3>3. (k = l => last'[k] = v) /\ (k # l => last'[k] = last[k])
      BY <2>4, Zenon DEF TypeOK
    <3> QED
      BY <1>1, <2>2, <3>1, <3>2, <3>3, FreshAppend, Zenon
  <2> QED
    BY <2>1, <2>3, <2>4, Zenon DEF Put
<1>7. CASE PutMalformed
  <2>1. /\ Reading /\ UNCHANGED <<last, seen, queue, fwdVars>>
        /\ buffer' = Append(buffer, Error)
    BY <1>7, Zenon DEF PutMalformed, Reading, pubVars, listVars
  <2>2. Error \in Items /\ Error.key # k
    BY GossipAssumption DEF Items, Error
  <2>3. InTransit' = Append(InTransit, Error)
    BY <2>1, <2>2, AddedLast, Zenon
  <2> QED
    BY <1>1, <2>1, <2>2, <2>3, FreshAppend, Zenon
<1>8. CASE Subscribe
  BY <1>8, Zenon DEF Subscribe, TypeOK, pubVars
<1>9. CASE NextItem
  BY <1>1, <1>9, FreshNext, Zenon DEF NextItem, Reading, pubVars
<1>10. CASE CheckDeadline \/ StopWaiting
  BY <1>2, <1>10, Zenon
     DEF CheckDeadline, StopWaiting, Finish, Reading, InTransit, pubVars,
       fwdVars
<1>11. CASE CloseSession \/ Tick \/ UNCHANGED vars
  BY <1>3, <1>11, Zenon DEF CloseSession, Tick, vars, pubVars, listVars
<1>12. ASSUME NEW l \in Key, Up(l) \/ Serve(l) \/ Down(l) \/ Link(l)
       PROVE  Fresh(k)'
  BY <1>3, <1>12, Zenon DEF Up, Serve, Down, Link, listVars
<1> QED
  BY <1>4, <1>5, <1>6, <1>7, <1>8, <1>9, <1>10, <1>11, <1>12, Zenon
     DEF Next, Forwarder, Listing

(* Between Transport::publish and the map a listing prints there is Zenoh's*)
(* buffer, the forwarder task of subscribe and its channel: whatever their *)
(* sizes, a listing has or will get the newest event that was accepted for *)
(* every peer and every model.                                             *)
THEOREM ListingIsFresh == Spec => []NothingStale
<1>1. Init => NothingStale
  BY Zenon DEF Init, NothingStale, Reading
<1> QED
  BY <1>1, TypeInit, TypeStep, StaleStep, PTL DEF Spec

-----------------------------------------------------------------------------
(* What has been heard of k is still heard of, and nothing else is, unless *)
(* k publishes.                                                            *)
LEMMA HeardStep ==
  ASSUME TypeOK, [Next]_vars, NEW k \in Key, seen'[k] # None \/ OnItsWay(k)'
  PROVE  seen[k] # None \/ OnItsWay(k) \/ Publish(k)
<1>1. CASE InTransit' = InTransit /\ UNCHANGED seen
  BY <1>1, Zenon DEF OnItsWay
<1>2. ASSUME NEW e \in Items, InTransit' = Append(InTransit, e), e.key # k,
             UNCHANGED seen
      PROVE  seen[k] # None \/ OnItsWay(k)
  <2>1. /\ InTransit' = InTransit \o <<e>> /\ InTransit \in Seq(Items)
        /\ <<e>> \in Seq(Items)
    BY <1>2, TransitType, AppendIsConcat
  <2>2. ~Mentions(<<e>>, k)
    BY <1>2 DEF Mentions
  <2>3. OnItsWay(k)' => Mentions(InTransit \o <<e>>, k)
    BY <2>1, Zenon DEF OnItsWay, Mentions
  <2>4. Mentions(InTransit \o <<e>>, k) => Mentions(InTransit, k)
    BY <2>1, <2>2, KeyInConcat, Zenon
  <2>5. Mentions(InTransit, k) => OnItsWay(k)
    BY Zenon DEF OnItsWay, Mentions
  <2> QED
    BY <1>2, <2>3, <2>4, <2>5, Zenon
<1>3. CASE UNCHANGED <<buffer, queue, fwdVars, seen>>
  BY <1>1, <1>3, Zenon DEF InTransit, fwdVars
<1>4. CASE TakeSample \/ SubscriberClosed \/ (SendItem /\ Reading)
  BY <1>1, <1>4, ForwarderKeeps, Zenon
  DEF TakeSample, SubscriberClosed, SendItem, listVars
<1>5. CASE (SendItem /\ ~Reading) \/ Finish
  BY <1>5, LeftOver, Zenon DEF SendItem, Finish, listVars
<1>6. ASSUME NEW l \in Key, Publish(l), l # k
      PROVE  seen[k] # None \/ OnItsWay(k)
  <2>1. PICK v \in Value : Put(l, v)
    BY <1>6, Zenon DEF Publish, Beat, AnnounceOnce
  <2>2. UNCHANGED <<seen, queue, fwdVars>>
    BY <2>1, Zenon DEF Put, listVars
  <2>3. CASE UNCHANGED buffer
    BY <1>1, <2>2, <2>3, Zenon DEF InTransit, fwdVars, OnItsWay
  <2>4. CASE buffer' = Append(buffer, Item(l, v))
    <3>1. Item(l, v) \in Items /\ Item(l, v).key = l
      BY ItemFields, Zenon
    <3>2. InTransit' = Append(InTransit, Item(l, v))
      BY <2>2, <2>4, <3>1, AddedLast, Zenon
    <3> QED
      BY <1>2, <1>6, <2>2, <3>1, <3>2, Zenon
  <2> QED
    BY <2>1, <2>3, <2>4, Zenon DEF Put
<1>7. CASE PutMalformed
  <2>1. UNCHANGED <<seen, queue, fwdVars>> /\ buffer' = Append(buffer, Error)
    BY <1>7, Zenon DEF PutMalformed, listVars
  <2>2. Error \in Items /\ Error.key # k
    BY GossipAssumption DEF Items, Error
  <2>3. InTransit' = Append(InTransit, Error)
    BY <2>1, <2>2, AddedLast, Zenon
  <2> QED
    BY <1>2, <2>1, <2>2, <2>3, Zenon
<1>8. CASE NextItem
  <2>1. /\ InTransit \in Seq(Items) /\ InTransit # <<>>
        /\ Head(InTransit) = Head(queue) /\ InTransit' = Tail(InTransit)
    BY <1>8, TransitType, TakenFirst, Zenon
  <2>2. /\ Len(InTransit) \in Nat \ {0} /\ DOMAIN InTransit = 1 .. Len(InTransit)
        /\ Len(InTransit') = Len(InTransit) - 1
        /\ DOMAIN InTransit' = 1 .. Len(InTransit')
        /\ \A i \in 1 .. Len(InTransit') : InTransit'[i] = InTransit[i + 1]
    BY <2>1, HeadTailProperties, LenProperties, EmptySeq, Zenon
  <2>3. OnItsWay(k)' => OnItsWay(k)
    <3>1. \A i \in DOMAIN InTransit' :
            i + 1 \in DOMAIN InTransit /\ InTransit'[i] = InTransit[i + 1]
      BY <2>2
    <3> QED
      BY <3>1, Zenon DEF OnItsWay
  <2>4. Head(queue).key = k => OnItsWay(k)
    <3>1. 1 \in DOMAIN InTransit /\ InTransit[1] = Head(queue)
      BY <2>1, <2>2
    <3> QED
      BY <3>1, Zenon DEF OnItsWay
  <2>5. Head(queue).key # k => seen'[k] = seen[k]
    BY <1>8, Zenon DEF NextItem, TypeOK
  <2> QED
    BY <2>3, <2>4, <2>5, Zenon
<1>9. CASE CheckDeadline \/ StopWaiting \/ Subscribe
  <2>1. CASE Subscribe
    <3>1. InTransit' = InTransit
      BY <2>1, Zenon DEF Subscribe, InTransit, TypeOK
    <3> QED
      BY <1>1, <2>1, <3>1, Zenon DEF Subscribe
  <2>2. CASE ~Subscribe
    BY <1>3, <1>5, <1>9, <2>2, Zenon DEF CheckDeadline, StopWaiting
  <2> QED
    BY <2>1, <2>2, Zenon
<1>10. CASE CloseSession \/ Tick \/ UNCHANGED vars
  BY <1>3, <1>10, Zenon DEF CloseSession, Tick, vars, listVars
<1>11. ASSUME NEW l \in Key, Up(l) \/ Serve(l) \/ Down(l) \/ Link(l)
       PROVE  seen[k] # None \/ OnItsWay(k)
  <2>1. UNCHANGED <<buffer, queue, fwdVars, seen>>
    BY <1>11, Zenon DEF Up, Serve, Down, Link, listVars
  <2>2. InTransit' = InTransit
    BY <2>1, Zenon DEF InTransit, fwdVars
  <2> QED
    BY <2>1, <2>2, Zenon DEF OnItsWay
<1> QED
  BY <1>4, <1>5, <1>6, <1>7, <1>8, <1>9, <1>10, <1>11, Zenon
     DEF Next, Forwarder, Listing

(* Publishers that stay up only move on.                                   *)
LEMMA ServedStep == TypeOK /\ SeenIsServed /\ [Next]_vars => SeenIsServed'
<1> SUFFICES ASSUME TypeOK, SeenIsServed, [Next]_vars, NEW k \in Steady,
                    cmd' = "models", seen'[k] # None \/ OnItsWay(k)'
             PROVE  proc'[k] \in {"serving", "announced"}
  BY Zenon DEF SeenIsServed
<1>1. k \in Key /\ UNCHANGED cmd
  BY GossipAssumption, Zenon
     DEF Next, Up, Serve, Down, Link, Publish, Beat, AnnounceOnce, Put,
       Forwarder,
         TakeSample, SendItem, SubscriberClosed, Listing, Subscribe,
         CheckDeadline,
         NextItem, StopWaiting, Finish, Tick, PutMalformed, CloseSession, vars
<1>2. CASE Publish(k)
  BY <1>1, <1>2, Zenon DEF Publish, Beat, AnnounceOnce, TypeOK
<1>3. CASE ~Publish(k)
  <2>1. seen[k] # None \/ OnItsWay(k)
    BY <1>1, <1>3, HeardStep, Zenon
  <2>2. proc[k] \in {"serving", "announced"}
    BY <1>1, <2>1, Zenon DEF SeenIsServed
  <2>3. ASSUME NEW l \in Key, Up(l) \/ Serve(l) \/ Down(l) \/ Link(l)
        PROVE  proc'[k] \in {"serving", "announced"}
    BY <1>1, <2>2, <2>3, Zenon DEF Up, Serve, Down, Link, TypeOK
  <2>4. ASSUME NEW l \in Key, Publish(l)
        PROVE  proc'[k] = proc[k]
    BY <1>1, <1>3, <2>4, Zenon DEF Publish, Beat, AnnounceOnce, TypeOK
  <2>5. CASE UNCHANGED proc
    BY <2>2, <2>5, Zenon
  <2> QED
    BY <2>2, <2>3, <2>4, <2>5, Zenon
       DEF Next, Forwarder, TakeSample, SendItem, SubscriberClosed, Listing,
           Subscribe, CheckDeadline, NextItem, StopWaiting, Finish, Tick,
           PutMalformed, CloseSession, vars, pubVars
<1> QED
  BY <1>2, <1>3, Zenon

(* Nobody hears of a model before model_push has declared the queryable    *)
(* that serves it, for any number of pushers.                              *)
THEOREM HeardIsServed == Spec => []SeenIsServed
<1>1. Init => SeenIsServed
  <2> SUFFICES ASSUME Init PROVE SeenIsServed
    BY Zenon
  <2>1. InTransit = <<>>
    <3>1. InTransit = (<<>> \o <<>>) \o <<>>
      BY Zenon DEF Init, InTransit
    <3>2. <<>> \in Seq(Items)
      BY EmptySeq, Zenon
    <3> QED
      BY <3>1, <3>2, ConcatEmptySeq, Zenon
  <2> QED
    BY <2>1, GossipAssumption DEF Init, SeenIsServed, OnItsWay
<1> QED
  BY <1>1, TypeInit, TypeStep, ServedStep, PTL DEF Spec
=============================================================================

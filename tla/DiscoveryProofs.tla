-------------------------- MODULE DiscoveryProofs ---------------------------
(***************************************************************************)
(* Proofs about Discovery, for every configuration, capacity and number of *)
(* events: the bounds and the order of events (TypeOK), and that nothing   *)
(* found is lost, doubled or reordered on its way to the caller            *)
(* (NothingLost).                                                          *)
(***************************************************************************)
EXTENDS Discovery, FiniteSetTheorems, SequenceTheorems, TLAPS

-----------------------------------------------------------------------------
(* Sequences.                                                              *)

(* What is appended to the second of two sequences is appended to both.    *)
LEMMA AppendLast ==
  ASSUME NEW S, NEW r \in Seq(S), NEW q \in Seq(S), NEW x \in S
  PROVE  r \o Append(q, x) = Append(r \o q, x)
<1>1. Append(q, x) = q \o <<x>> /\ <<x>> \in Seq(S)
  BY AppendIsConcat
<1>2. r \o q \in Seq(S)
  BY ConcatProperties, Zenon
<1>3. Append(r \o q, x) = (r \o q) \o <<x>>
  BY <1>2, AppendIsConcat, Zenon
<1>4. (r \o q) \o <<x>> = r \o (q \o <<x>>)
  BY <1>1, ConcatAssociative
<1> QED
  BY <1>1, <1>3, <1>4, Zenon

(* An entry that goes from the head of one to the end of the other.        *)
LEMMA MoveHead ==
  ASSUME NEW S, NEW r \in Seq(S), NEW q \in Seq(S), q # <<>>
  PROVE  Append(r, Head(q)) \o Tail(q) = r \o q
<1>1. /\ Head(q) \in S /\ Tail(q) \in Seq(S)
      /\ q = <<Head(q)>> \o Tail(q)
  BY HeadTailProperties, SMT
<1>2. Append(r, Head(q)) = r \o <<Head(q)>>
  BY <1>1, AppendIsConcat, Zenon
<1>3. <<Head(q)>> \in Seq(S)
  BY <1>1
<1>4. (r \o <<Head(q)>>) \o Tail(q) = r \o (<<Head(q)>> \o Tail(q))
  BY <1>1, <1>3, ConcatAssociative
<1> QED
  BY <1>1, <1>2, <1>4, Zenon

(* The elements of a sequence with one appended.                           *)
LEMMA AppendAt ==
  ASSUME NEW S, NEW s \in Seq(S), NEW x \in S
  PROVE  /\ Append(s, x) \in Seq(S) /\ Len(Append(s, x)) = Len(s) + 1
         /\ Append(s, x)[Len(s) + 1] = x
         /\ \A i \in 1 .. Len(s) : Append(s, x)[i] = s[i]
  BY AppendProperties

(* The elements of a sequence without its first.                           *)
LEMMA TailAt ==
  ASSUME NEW S, NEW s \in Seq(S), s # <<>>
  PROVE  /\ Tail(s) \in Seq(S) /\ Len(Tail(s)) = Len(s) - 1 /\ Len(s) >= 1
         /\ \A i \in 1 .. Len(s) - 1 : Tail(s)[i] = s[i + 1]
         /\ Head(s) = s[1] /\ Head(s) \in S
  BY HeadTailProperties, SMT

-----------------------------------------------------------------------------
(* Counting.                                                               *)

(* The number of members of a set of positions.                            *)
LEMMA CountOf ==
  ASSUME NEW n \in Nat, NEW W \in SUBSET (1 .. n)
  PROVE  IsFiniteSet(W) /\ Cardinality(W) \in Nat
<1>1. IsFiniteSet(1 .. n)
  BY FS_Interval
<1>2. IsFiniteSet(W)
  BY <1>1, FS_Subset, Zenon
<1> QED
  BY <1>2, FS_CardinalityType, Zenon

(* It grows with the set, and a set that has a member counts.              *)
LEMMA CountGrows ==
  ASSUME NEW n \in Nat, NEW W \in SUBSET (1 .. n), NEW V \in SUBSET W
  PROVE  /\ Cardinality(V) \in Nat /\ Cardinality(V) <= Cardinality(W)
         /\ V # {} => Cardinality(V) >= 1
<1>1. IsFiniteSet(W) /\ IsFiniteSet(V) /\ Cardinality(V) \in Nat
  BY CountOf, Zenon
<1>2. Cardinality(V) <= Cardinality(W)
  BY <1>1, FS_Subset, Zenon
<1>3. V # {} => Cardinality(V) # 0
  BY <1>1, FS_EmptySet, Zenon
<1> QED
  BY <1>1, <1>2, <1>3

(* A set with one more element.                                            *)
LEMMA CountOneMore ==
  ASSUME NEW n \in Nat, NEW W \in SUBSET (1 .. n)
  PROVE  Cardinality(W \cup {n + 1}) = Cardinality(W) + 1
<1>1. IsFiniteSet(W)
  BY CountOf, Zenon
<1>2. n + 1 \notin W
  OBVIOUS
<1> QED
  BY <1>1, <1>2, FS_AddElement, Zenon

-----------------------------------------------------------------------------
(* Types, bounds and the order of events.                                  *)

(* The seeds of a configuration.                                           *)
LEMMA ConfigTypes ==
  ASSUME cfg \in Config
  PROVE  /\ cfg.seeds \in Seq(Peer \cup {Bad}) /\ Len(cfg.seeds) \in Nat
         /\ \A i \in 1 .. Len(cfg.seeds) : cfg.seeds[i] \in Peer \cup {Bad}
  BY DiscoveryAssumption

(* What run sends is a peer with its origin.                               *)
LEMMA SentTypes ==
  ASSUME NEW p \in Peer
  PROVE  Seed(p) \in Discovered /\ Found(p) \in Discovered
  BY Zenon DEF Seed, Found, Discovered

(* tx.send keeps the channel within its capacity.                          *)
LEMMA SendTypes ==
  ASSUME TypeOK, NEW x \in Discovered, Send(x)
  PROVE  queue' \in Seq(Discovered) /\ Len(queue') <= Capacity
<1>1. /\ queue \in Seq(Discovered) /\ queue' = Append(queue, x)
      /\ Len(queue) < Capacity
  BY Zenon DEF TypeOK, Send
<1>2. queue' \in Seq(Discovered) /\ Len(queue') = Len(queue) + 1
  BY <1>1, AppendAt, Zenon
<1> QED
  BY <1>1, <1>2, DiscoveryAssumption

(* The types at the start of run.                                          *)
LEMMA InitType == Init => TypeOK
<1> SUFFICES ASSUME Init PROVE TypeOK
  BY Zenon
<1>1. cfg \in Config /\ Len(cfg.seeds) \in Nat
  BY ConfigTypes, Zenon DEF Init
<1>2. /\ queue \in Seq(Discovered) /\ received \in Seq(Discovered)
      /\ events \in Seq(Event) /\ arrived \in Seq(Event)
      /\ Len(queue) = 0 /\ Len(events) = 0 /\ Len(arrived) = 0
  BY EmptySeq, Zenon DEF Init
<1>3. Len(queue) <= Capacity /\ Len(arrived) <= MaxEvents /\ Len(events) <= Len(arrived)
  BY <1>2, DiscoveryAssumption
<1>4. 1 .. Len(events) = {} /\ sent \in 0 .. Len(cfg.seeds)
  BY <1>1, <1>2 DEF Init
<1> QED
  BY <1>1, <1>2, <1>3, <1>4, Zenon DEF Init, TypeOK

(* Taking the head of events.                                              *)
LEMMA TakeType ==
  ASSUME TypeOK, events # <<>>, events' = Tail(events), arrived' = arrived
  PROVE  /\ events' \in Seq(Event) /\ Len(events') <= Len(arrived')
         /\ Handled \in Nat /\ Handled + 1 <= Len(arrived) /\ Handled' = Handled + 1
         /\ Head(events) = arrived[Handled + 1]
         /\ \A i \in 1 .. Len(events') : events'[i] = arrived'[Handled' + i]
<1>1. /\ events \in Seq(Event) /\ Len(events) <= Len(arrived) /\ Len(arrived) \in Nat
      /\ Len(events) \in Nat
      /\ \A i \in 1 .. Len(events) : events[i] = arrived[Handled + i]
  BY DEF TypeOK
<1>2. /\ events' \in Seq(Event) /\ Len(events') = Len(events) - 1 /\ Len(events) >= 1
      /\ \A i \in 1 .. Len(events) - 1 : events'[i] = events[i + 1]
      /\ Head(events) = events[1]
  BY <1>1, TailAt, Zenon
<1>3. /\ Handled \in Nat /\ Handled + 1 <= Len(arrived) /\ Handled' = Handled + 1
  BY <1>1, <1>2 DEF Handled
<1>4. Head(events) = arrived[Handled + 1]
  BY <1>1, <1>2
<1>5. ASSUME NEW i \in 1 .. Len(events')
      PROVE  events'[i] = arrived'[Handled' + i]
  <2>1. i \in 1 .. Len(events) - 1 /\ i + 1 \in 1 .. Len(events)
    BY <1>1, <1>2
  <2>2. events'[i] = arrived[Handled + (i + 1)]
    BY <1>1, <1>2, <2>1, Zenon
  <2>3. Handled + (i + 1) = Handled' + i
    BY <1>3
  <2> QED
    BY <2>2, <2>3, Zenon
<1> QED
  BY <1>1, <1>2, <1>3, <1>4, <1>5

(* One more event at the end of both.                                      *)
LEMMA ArriveType ==
  ASSUME TypeOK, NEW e \in Event, MdnsEvent(e)
  PROVE  /\ events' \in Seq(Event) /\ arrived' \in Seq(Event)
         /\ Len(events') <= Len(arrived') /\ Len(arrived') <= MaxEvents
         /\ Handled \in Nat /\ Handled <= Len(arrived) /\ Handled' = Handled
         /\ \A i \in 1 .. Len(arrived) : arrived'[i] = arrived[i]
         /\ \A i \in 1 .. Len(events') : events'[i] = arrived'[Handled' + i]
         /\ events # <<>> => events' # <<>> /\ Head(events') = Head(events)
<1>1. /\ events \in Seq(Event) /\ Len(events) <= Len(arrived) /\ Len(arrived) \in Nat
      /\ Len(events) \in Nat /\ arrived \in Seq(Event)
      /\ \A i \in 1 .. Len(events) : events[i] = arrived[Handled + i]
  BY DEF TypeOK
<1>2. /\ events' = Append(events, e) /\ arrived' = Append(arrived, e)
      /\ Len(arrived) < MaxEvents
  BY Zenon DEF MdnsEvent
<1>3. /\ events' \in Seq(Event) /\ Len(events') = Len(events) + 1
      /\ events'[Len(events) + 1] = e
      /\ \A i \in 1 .. Len(events) : events'[i] = events[i]
  BY <1>1, <1>2, AppendAt
<1>4. /\ arrived' \in Seq(Event) /\ Len(arrived') = Len(arrived) + 1
      /\ arrived'[Len(arrived) + 1] = e
      /\ \A i \in 1 .. Len(arrived) : arrived'[i] = arrived[i]
  BY <1>1, <1>2, AppendAt
<1>5. Handled \in Nat /\ Handled <= Len(arrived) /\ Handled' = Handled
  BY <1>1, <1>3, <1>4 DEF Handled
<1>6. ASSUME NEW i \in 1 .. Len(events')
      PROVE  events'[i] = arrived'[Handled' + i]
  <2>1. CASE i = Len(events) + 1
    <3>1. Handled + i = Len(arrived) + 1
      BY <2>1, <1>1 DEF Handled
    <3> QED
      BY <2>1, <3>1, <1>3, <1>4, <1>5, Zenon
  <2>2. CASE i # Len(events) + 1
    <3>1. i \in 1 .. Len(events)
      BY <2>2, <1>1, <1>3
    <3>2. Handled + i \in 1 .. Len(arrived)
      BY <3>1, <1>1 DEF Handled
    <3> QED
      BY <3>1, <3>2, <1>1, <1>3, <1>4, <1>5, Zenon
  <2> QED
    BY <2>1, <2>2, Zenon
<1>7. events # <<>> => events' # <<>> /\ Head(events') = Head(events)
  BY <1>1, <1>2, <1>3
<1>8. Len(events') <= Len(arrived') /\ Len(arrived') <= MaxEvents
  BY <1>1, <1>2, <1>3, <1>4, DiscoveryAssumption
<1> QED
  BY <1>3, <1>4, <1>5, <1>6, <1>7, <1>8, Zenon

(* What is left of TypeOK when neither events nor the channel moves.       *)
LEMMA ControlType ==
  ASSUME TypeOK, UNCHANGED <<cfg, sent, queue, open, received, events,
  arrived>>,
         pc' \in {"closed", "daemon", "register", "browse", "loop", "done"},
         sent < Len(cfg.seeds) => pc' = "done",
         advertised' \in BOOLEAN,
         outcome' \in {"none", "ok", "BadSeed", "Mdns"}
  PROVE  TypeOK'
<1>1. Handled' = Handled
  BY Zenon DEF Handled
<1> QED
  BY <1>1, Zenon DEF TypeOK

(* Sending a seed, or skipping a bad one, keeps the types.                 *)
LEMMA SendSeedType ==
  ASSUME TypeOK, SendSeed
  PROVE  TypeOK'
<1> USE DEF Return, Goto
<1>1. CASE cfg.seeds[sent + 1] # Bad /\ Send(Seed(cfg.seeds[sent + 1])) /\ sent' = sent + 1
           /\ UNCHANGED <<pc, outcome>>
  <2>1. /\ sent' \in 0 .. Len(cfg.seeds) /\ cfg.seeds[sent + 1] \in Peer
        /\ pc = "seeds" /\ cfg' = cfg
    BY <1>1, ConfigTypes DEF TypeOK, SendSeed
  <2>2. queue' \in Seq(Discovered) /\ Len(queue') <= Capacity
    BY <1>1, <2>1, SentTypes, SendTypes, Zenon
  <2>3. Handled' = Handled /\ UNCHANGED <<open, received, events, arrived, advertised>>
    BY Zenon DEF SendSeed, Handled
  <2> QED
    BY <1>1, <2>1, <2>2, <2>3, Zenon DEF TypeOK
<1>2. CASE Return("BadSeed") /\ UNCHANGED <<sent, queue>>
  BY <1>2, ControlType, Zenon DEF SendSeed, TypeOK
<1>3. CASE Return("ok") /\ UNCHANGED <<sent, queue>>
  BY <1>3, ControlType, Zenon DEF SendSeed, TypeOK
<1> QED
  BY <1>1, <1>2, <1>3, Zenon DEF SendSeed

(* The steps that only move control keep the types, and touch nothing that *)
(* was sent or has arrived.                                                *)
LEMMA ControlSteps ==
  ASSUME TypeOK, SeedsDone \/ WaitClosed \/ StartDaemon \/ RegisterLocal \/ Browse
                   \/ BrowseClosed
  PROVE  TypeOK' /\ UNCHANGED <<cfg, sent, queue, open, received, events, arrived>>
<1> USE DEF Return, Goto
<1>1. /\ sent \in 0 .. Len(cfg.seeds) /\ Len(cfg.seeds) \in Nat
      /\ sent < Len(cfg.seeds) => pc \in {"seeds", "done"}
      /\ advertised \in BOOLEAN /\ outcome \in {"none", "ok", "BadSeed", "Mdns"}
  BY ConfigTypes, Zenon DEF TypeOK
<1>2. CASE SeedsDone
  BY <1>1, <1>2, ControlType DEF SeedsDone
<1>3. CASE WaitClosed
  BY <1>1, <1>3, ControlType, Zenon DEF WaitClosed
<1>4. CASE StartDaemon
  BY <1>1, <1>4, ControlType, Zenon DEF StartDaemon
<1>5. CASE RegisterLocal
  BY <1>1, <1>5, ControlType, Zenon DEF RegisterLocal
<1>6. CASE Browse
  BY <1>1, <1>6, ControlType, Zenon DEF Browse
<1>7. CASE BrowseClosed
  BY <1>1, <1>7, ControlType, Zenon DEF BrowseClosed, Shutdown
<1> QED
  BY <1>2, <1>3, <1>4, <1>5, <1>6, <1>7, Zenon

(* Taking an mDNS event keeps the types.                                   *)
LEMMA TakeEventType ==
  ASSUME TypeOK, TakeEvent
  PROVE  TypeOK'
<1> USE DEF Goto
<1>1. CASE Wanted(Head(events)) /\ pc' = "send" /\ UNCHANGED events
  <2>1. Handled' = Handled /\ Wanted(Head(events))'
    BY <1>1, Zenon DEF TakeEvent, Handled, Wanted, Advertises
  <2> QED
    BY <1>1, <2>1, Zenon DEF TakeEvent, TypeOK
<1>2. CASE events' = Tail(events) /\ UNCHANGED pc
  <2>1. events # <<>> /\ arrived' = arrived
    BY Zenon DEF TakeEvent
  <2>2. /\ events' \in Seq(Event) /\ Len(events') <= Len(arrived')
        /\ \A i \in 1 .. Len(events') : events'[i] = arrived'[Handled' + i]
    BY <1>2, <2>1, TakeType, Zenon
  <2> QED
    BY <1>2, <2>2, Zenon DEF TakeEvent, TypeOK
<1> QED
  BY <1>1, <1>2, Zenon DEF TakeEvent

(* Sending a resolved service keeps the types.                             *)
LEMMA SendFoundType ==
  ASSUME TypeOK, SendFound
  PROVE  TypeOK'
<1> USE DEF Goto, Return
<1>1. /\ events # <<>> /\ Wanted(Head(events)) /\ events' = Tail(events)
      /\ arrived' = arrived /\ pc = "send"
  BY Zenon DEF SendFound, TypeOK
<1>2. /\ events' \in Seq(Event) /\ Len(events') <= Len(arrived')
      /\ \A i \in 1 .. Len(events') : events'[i] = arrived'[Handled' + i]
  BY <1>1, TakeType, Zenon
<1>3. Found(Head(events)) \in Discovered
  BY <1>1, SentTypes, Zenon DEF Wanted
<1>4. CASE Send(Found(Head(events))) /\ pc' = "loop" /\ UNCHANGED <<advertised, outcome>>
  <2>1. queue' \in Seq(Discovered) /\ Len(queue') <= Capacity
    BY <1>3, <1>4, SendTypes, Zenon
  <2> QED
    BY <1>1, <1>2, <1>4, <2>1, Zenon DEF SendFound, TypeOK
<1>5. CASE Shutdown /\ UNCHANGED queue
  BY <1>1, <1>2, <1>5, Zenon DEF SendFound, TypeOK, Shutdown
<1> QED
  BY <1>4, <1>5, Zenon DEF SendFound

(* An event of the mDNS daemon keeps the types.                            *)
LEMMA MdnsEventType ==
  ASSUME TypeOK, NEW e \in Event, MdnsEvent(e)
  PROVE  TypeOK'
<1>1. /\ events' \in Seq(Event) /\ arrived' \in Seq(Event)
      /\ Len(events') <= Len(arrived') /\ Len(arrived') <= MaxEvents
      /\ \A i \in 1 .. Len(events') : events'[i] = arrived'[Handled' + i]
      /\ events # <<>> => events' # <<>> /\ Head(events') = Head(events)
  BY ArriveType, Zenon
<1>2. pc \in {"loop", "send"} /\ UNCHANGED <<cfg, queue, open, received, runVars>>
  BY Zenon DEF MdnsEvent
<1>3. (pc = "send" => events # <<>> /\ Wanted(Head(events)))'
  BY <1>1, <1>2, Zenon DEF TypeOK, Wanted, Advertises, runVars
<1> QED
  BY <1>1, <1>2, <1>3, Zenon DEF TypeOK, runVars

(* A caller that reads or drops the receiver keeps the types.              *)
LEMMA CallerType ==
  ASSUME TypeOK, Read \/ DropReceiver
  PROVE  TypeOK'
<1>1. /\ UNCHANGED <<cfg, events, arrived, runVars>>
      /\ Handled' = Handled /\ Wanted(Head(events))' = Wanted(Head(events))
  BY Zenon DEF Read, DropReceiver, Handled, Wanted, Advertises
<1>2. queue \in Seq(Discovered) /\ received \in Seq(Discovered) /\ Len(queue) <= Capacity
      /\ Capacity \in Nat
  BY DiscoveryAssumption, Zenon DEF TypeOK
<1>3. CASE Read
  <2>1. queue # <<>> /\ queue' = Tail(queue) /\ received' = Append(received, Head(queue))
    BY <1>3, Zenon DEF Read
  <2>2. queue' \in Seq(Discovered) /\ Len(queue') <= Capacity /\ Head(queue) \in Discovered
    BY <1>2, <2>1, TailAt
  <2>3. received' \in Seq(Discovered)
    BY <1>2, <2>1, <2>2, AppendAt, Zenon
  <2> QED
    BY <1>1, <1>3, <2>2, <2>3, Zenon DEF Read, TypeOK, runVars
<1>4. CASE DropReceiver
  <2>1. queue' \in Seq(Discovered) /\ Len(queue') <= Capacity
    BY <1>2, <1>4, EmptySeq DEF DropReceiver
  <2> QED
    BY <1>1, <1>4, <2>1, Zenon DEF DropReceiver, TypeOK, runVars
<1> QED
  BY <1>3, <1>4, Zenon

(* The channel never holds more than its capacity, and run handles events  *)
(* in the order they came, whatever comes in while a send waits.           *)
THEOREM DiscoveryIsBounded == Spec => []TypeOK
<1>1. TypeOK /\ [Next]_vars => TypeOK'
  <2> SUFFICES ASSUME TypeOK, [Next]_vars PROVE TypeOK'
    BY Zenon
  <2>1. CASE UNCHANGED vars
    BY <2>1, Zenon DEF vars, TypeOK, Handled, Wanted, Advertises
  <2>2. CASE Run \/ BrowseClosed
    BY <2>2, SendSeedType, ControlSteps, TakeEventType, SendFoundType, Zenon
    DEF Run
  <2>3. CASE \E e \in Event : MdnsEvent(e)
    BY <2>3, MdnsEventType, Zenon
  <2>4. CASE Read \/ DropReceiver
    BY <2>4, CallerType, Zenon
  <2> QED
    BY <2>1, <2>2, <2>3, <2>4, Zenon DEF Next
<1> QED
  BY <1>1, InitType, PTL DEF Spec

-----------------------------------------------------------------------------
(* Nothing found is lost.                                                  *)

(* What was found so far: WantedOf is a set of positions that grows.       *)
LEMMA PlacesOf ==
  ASSUME NEW n \in Nat
  PROVE  /\ WantedOf(n) \in SUBSET (1 .. n)
         /\ Cardinality(WantedOf(n)) \in Nat
         /\ \A j \in WantedOf(n) :
              /\ Cardinality(WantedOf(j)) \in 1 .. Cardinality(WantedOf(n))
              /\ WantedOf(j) \in SUBSET (1 .. n)
<1>1. WantedOf(n) \in SUBSET (1 .. n)
  BY Zenon DEF WantedOf
<1>2. Cardinality(WantedOf(n)) \in Nat
  BY <1>1, CountOf, Zenon
<1>3. ASSUME NEW j \in WantedOf(n)
      PROVE  /\ Cardinality(WantedOf(j)) \in 1 .. Cardinality(WantedOf(n))
             /\ WantedOf(j) \in SUBSET (1 .. n)
  <2>1. WantedOf(j) \in SUBSET WantedOf(n) /\ j \in WantedOf(j)
    BY DEF WantedOf
  <2>2. /\ Cardinality(WantedOf(j)) \in Nat /\ Cardinality(WantedOf(j)) >= 1
        /\ Cardinality(WantedOf(j)) <= Cardinality(WantedOf(n))
    BY <1>1, <2>1, CountGrows, Zenon
  <2> QED
    BY <1>1, <1>2, <2>1, <2>2
<1> QED
  BY <1>1, <1>2, <1>3, Zenon

(* It does not depend on events that come later.                           *)
LEMMA SamePlaces ==
  ASSUME NEW n \in Nat, \A i \in 1 .. n : arrived'[i] = arrived[i], cfg' = cfg
  PROVE  \A j \in 0 .. n : WantedOf(j)' = WantedOf(j)
  BY DEF WantedOf, Wanted, Advertises

(* A step that adds nothing to what was sent, and handles no event.        *)
LEMMA NothingSent ==
  ASSUME TypeOK, NothingLost, cfg' = cfg, sent' = sent, open' => open,
         Handled \in Nat, Handled' = Handled,
         \A i \in 1 .. Handled : arrived'[i] = arrived[i],
         open' => received' \o queue' = received \o queue
  PROVE  NothingLost'
<1> SUFFICES ASSUME open' PROVE NothingLost'
  BY Zenon DEF NothingLost
<1>1. \A j \in 0 .. Handled : WantedOf(j)' = WantedOf(j)
  BY SamePlaces, Zenon
<1>2. WantedOf(Handled)' = WantedOf(Handled)
  BY <1>1, Zenon DEF WantedOf, Wanted, Advertises
<1>3. ASSUME NEW j \in WantedOf(Handled)
      PROVE  WantedOf(j)' = WantedOf(j) /\ arrived'[j] = arrived[j]
  BY <1>1 DEF WantedOf
<1> QED
  BY <1>2, <1>3, Zenon DEF NothingLost, Found, Seed

(* Before there are events: the next seed.                                 *)
LEMMA SeedSent ==
  ASSUME TypeOK, NothingLost, SendSeed, sent' = sent + 1, open,
         Send(Seed(cfg.seeds[sent + 1])), cfg.seeds[sent + 1] # Bad
  PROVE  NothingLost'
<1>1. /\ arrived = <<>> /\ arrived' = arrived /\ events' = events /\ open' = open
      /\ received' = received /\ cfg' = cfg
      /\ queue' = Append(queue, Seed(cfg.seeds[sent + 1]))
      /\ sent \in Nat /\ sent < Len(cfg.seeds)
      /\ queue \in Seq(Discovered) /\ received \in Seq(Discovered)
  BY DEF TypeOK, SendSeed, Send
<1>2. Handled = 0 /\ Handled' = 0
  BY <1>1 DEF TypeOK, Handled
<1>3. WantedOf(Handled) = {} /\ WantedOf(Handled)' = {}
  BY <1>2 DEF WantedOf
<1>4. Cardinality({}) = 0
  BY FS_EmptySet, Zenon
<1>5. PICK x \in Discovered : x = Seed(cfg.seeds[sent + 1])
  BY <1>1, ConfigTypes, SentTypes DEF TypeOK
<1>6. PICK o \in Seq(Discovered) : o = received \o queue
  BY <1>1, ConcatProperties, Zenon
<1>7. received' \o queue' = Append(o, x)
  <2>1. received' = received /\ queue' = Append(queue, x)
    BY <1>1, <1>5, Zenon
  <2>2. received \o Append(queue, x) = Append(received \o queue, x)
    <3>1. received \in Seq(Discovered) /\ queue \in Seq(Discovered)
      BY <1>1, Zenon
    <3> QED
      BY <3>1, AppendLast
  <2> QED
    BY <1>6, <2>1, <2>2, Zenon
<1>8. /\ Len(Append(o, x)) = Len(o) + 1 /\ Append(o, x)[Len(o) + 1] = x
      /\ \A i \in 1 .. Len(o) : Append(o, x)[i] = o[i]
  BY AppendAt
<1>9. /\ Len(o) = sent
      /\ \A i \in 1 .. sent : o[i] = Seed(cfg.seeds[i])
  BY <1>1, <1>3, <1>4, <1>6 DEF NothingLost
<1>10. \A i \in 1 .. sent + 1 : Append(o, x)[i] = Seed(cfg.seeds[i])
  BY <1>1, <1>5, <1>8, <1>9
<1> QED
  BY <1>1, <1>3, <1>4, <1>7, <1>8, <1>9, <1>10 DEF NothingLost, Seed

(* An event that is not wanted.                                            *)
LEMMA UselessTaken ==
  ASSUME TypeOK, NothingLost, TakeEvent, ~Wanted(Head(events))
  PROVE  NothingLost'
<1>1. /\ events # <<>> /\ events' = Tail(events) /\ arrived' = arrived
      /\ UNCHANGED <<cfg, sent, queue, open, received>>
  BY Zenon DEF TakeEvent
<1>2. /\ Handled \in Nat /\ Handled' = Handled + 1
      /\ Head(events) = arrived[Handled + 1]
  BY <1>1, TakeType, Zenon
<1>3. \A n \in Nat : WantedOf(n)' = WantedOf(n)
  BY <1>1, Zenon DEF WantedOf, Wanted, Advertises
<1>4. WantedOf(Handled + 1) = WantedOf(Handled)
  BY <1>2 DEF WantedOf
<1>5. WantedOf(Handled)' = WantedOf(Handled)
  BY <1>1, <1>2, <1>4, Zenon DEF WantedOf, Wanted, Advertises
<1>6. \A j \in WantedOf(Handled) : j \in Nat
  BY <1>2 DEF WantedOf
<1> QED
  BY <1>1, <1>3, <1>5, <1>6, Zenon DEF NothingLost, Found, Seed

(* A wanted service: the next place is its own.                            *)
LEMMA FoundSent ==
  ASSUME TypeOK, NothingLost, SendFound, open
  PROVE  NothingLost'
<1>1. /\ events # <<>> /\ events' = Tail(events) /\ arrived' = arrived
      /\ UNCHANGED <<cfg, sent, open, received>> /\ Wanted(Head(events))
      /\ queue' = Append(queue, Found(Head(events)))
      /\ queue \in Seq(Discovered) /\ received \in Seq(Discovered) /\ sent \in Nat
  BY DEF SendFound, Send, TypeOK
<1>2. PICK h \in Nat : h = Handled /\ Handled' = h + 1 /\ Head(events) = arrived[h + 1]
  BY <1>1, TakeType, Zenon
<1>3. PICK x \in Discovered : x = Found(arrived[h + 1])
  BY <1>1, <1>2, SentTypes, Zenon DEF Wanted
<1>4. PICK o \in Seq(Discovered) : o = received \o queue
  BY <1>1, ConcatProperties, Zenon
<1>5. received' \o queue' = Append(o, x)
  <2>1. received' = received /\ queue' = Append(queue, x)
    BY <1>1, <1>2, <1>3, Zenon
  <2>2. received \in Seq(Discovered) /\ queue \in Seq(Discovered)
    BY <1>1, Zenon
  <2>3. received \o Append(queue, x) = Append(received \o queue, x)
    BY <2>2, AppendLast
  <2> QED
    BY <1>4, <2>1, <2>3, Zenon
<1>6. /\ Len(Append(o, x)) = Len(o) + 1 /\ Append(o, x)[Len(o) + 1] = x
      /\ \A i \in 1 .. Len(o) : Append(o, x)[i] = o[i]
  BY AppendAt
<1>7. \A n \in Nat : WantedOf(n)' = WantedOf(n)
  BY <1>1, Zenon DEF WantedOf, Wanted, Advertises
<1>8. WantedOf(h + 1) = WantedOf(h) \cup {h + 1}
  BY <1>1, <1>2 DEF WantedOf
<1>9. /\ WantedOf(h) \in SUBSET (1 .. h) /\ Cardinality(WantedOf(h)) \in Nat
      /\ \A j \in WantedOf(h) : Cardinality(WantedOf(j)) \in 1 .. Cardinality(WantedOf(h))
  BY PlacesOf, Zenon
<1>10. Cardinality(WantedOf(h + 1)) = Cardinality(WantedOf(h)) + 1
  BY <1>8, <1>9, CountOneMore, Zenon
<1>11. /\ Len(o) = sent + Cardinality(WantedOf(h))
       /\ \A i \in 1 .. sent : o[i] = Seed(cfg.seeds[i])
       /\ \A j \in WantedOf(h) : o[sent + Cardinality(WantedOf(j))] = Found(arrived[j])
  BY <1>2, <1>4, Zenon DEF NothingLost
<1>12. Len(Append(o, x)) = sent + Cardinality(WantedOf(h + 1))
  BY <1>1, <1>6, <1>9, <1>10, <1>11
<1>13. \A i \in 1 .. sent : Append(o, x)[i] = Seed(cfg.seeds[i])
  BY <1>1, <1>6, <1>9, <1>11
<1>14. ASSUME NEW j \in WantedOf(h + 1)
       PROVE  Append(o, x)[sent + Cardinality(WantedOf(j))] = Found(arrived[j])
  <2>1. CASE j = h + 1
    <3>1. sent + Cardinality(WantedOf(j)) = Len(o) + 1
      BY <1>1, <1>9, <1>10, <1>11, <2>1
    <3> QED
      BY <1>3, <1>6, <2>1, <3>1, Zenon
  <2>2. CASE j \in WantedOf(h)
    <3>1. sent + Cardinality(WantedOf(j)) \in 1 .. Len(o)
      BY <1>1, <1>9, <1>11, <2>2
    <3> QED
      BY <1>6, <1>11, <2>2, <3>1, Zenon
  <2> QED
    BY <1>8, <2>1, <2>2, Zenon
<1>15. WantedOf(Handled)' = WantedOf(h + 1)
  BY <1>1, <1>2, Zenon DEF WantedOf, Wanted, Advertises
<1>16. \A j \in WantedOf(h + 1) : WantedOf(j)' = WantedOf(j)
  BY <1>7, <1>8, <1>9
<1> QED
  BY <1>1, <1>5, <1>12, <1>13, <1>14, <1>15, <1>16, Zenon
  DEF NothingLost, Found, Seed

(* At the start nothing is lost.                                           *)
LEMMA LostInit == Init => NothingLost
<1> SUFFICES ASSUME Init PROVE NothingLost
  BY Zenon
<1>1. received \o queue = <<>> /\ Len(received \o queue) = 0 /\ sent = 0
  BY DEF Init
<1>2. Handled = 0
  BY DEF Init, Handled
<1>3. WantedOf(Handled) = {}
  BY <1>2 DEF WantedOf
<1>4. Cardinality({}) = 0
  BY FS_EmptySet, Zenon
<1> QED
  BY <1>1, <1>3, <1>4 DEF NothingLost

(* No step loses a wanted service.                                         *)
LEMMA LostStep ==
  ASSUME TypeOK, NothingLost, [Next]_vars
  PROVE  NothingLost'
<1>1. Handled \in Nat /\ Handled <= Len(arrived)
  BY DEF TypeOK, Handled
<1>2. CASE UNCHANGED <<cfg, sent, queue, open, received, events, arrived>>
  <2>1. Handled' = Handled
    BY <1>2, Zenon DEF Handled
  <2> QED
    BY <1>1, <1>2, <2>1, NothingSent, Zenon
<1>3. CASE SendSeed
  <2>1. CASE sent' = sent + 1 /\ Send(Seed(cfg.seeds[sent + 1])) /\ cfg.seeds[sent + 1] # Bad
    BY <1>3, <2>1, SeedSent, Zenon DEF Send
  <2> QED
    BY <1>2, <1>3, <2>1, Zenon DEF SendSeed
<1>4. CASE TakeEvent
  <2>1. CASE Wanted(Head(events))
    BY <1>2, <1>4, <2>1, Zenon DEF TakeEvent
  <2> QED
    BY <1>4, <2>1, UselessTaken, Zenon
<1>5. CASE SendFound
  <2>1. CASE ~open
    BY <1>5, <2>1, Zenon DEF SendFound, NothingLost
  <2> QED
    BY <1>5, <2>1, FoundSent, Zenon DEF TypeOK
<1>6. ASSUME NEW e \in Event, MdnsEvent(e) PROVE NothingLost'
  <2>1. Handled' = Handled /\ \A i \in 1 .. Len(arrived) : arrived'[i] = arrived[i]
    BY <1>6, ArriveType, Zenon
  <2>2. \A i \in 1 .. Handled : i \in 1 .. Len(arrived)
    BY <1>1 DEF TypeOK
  <2> QED
    BY <1>1, <1>6, <2>1, <2>2, NothingSent, Zenon DEF MdnsEvent, runVars
<1>7. CASE Read
  <2>1. received' \o queue' = received \o queue
    BY <1>7, MoveHead, Zenon DEF Read, TypeOK
  <2>2. Handled' = Handled
    BY <1>7, Zenon DEF Read, Handled
  <2> QED
    BY <1>1, <1>7, <2>1, <2>2, NothingSent, Zenon DEF Read, runVars
<1>8. CASE DropReceiver
  BY <1>8, Zenon DEF DropReceiver, NothingLost
<1>9. CASE SeedsDone \/ WaitClosed \/ StartDaemon \/ RegisterLocal \/ Browse
             \/ BrowseClosed
  BY <1>2, <1>9, ControlSteps, Zenon
<1>10. CASE UNCHANGED vars
  BY <1>2, <1>10, Zenon DEF vars
<1> QED
  BY <1>3, <1>4, <1>5, <1>6, <1>7, <1>8, <1>9, <1>10, Zenon DEF Next, Run

(* What a caller has read, and what waits for it, is all that was found,   *)
(* in order and without repetition: the seeds, then the wanted services.   *)
THEOREM FoundIsDelivered == Spec => []NothingLost
<1>1. TypeOK /\ NothingLost /\ [Next]_vars => NothingLost'
  BY LostStep, Zenon
<1> QED
  BY <1>1, DiscoveryIsBounded, LostInit, PTL DEF Spec
=============================================================================

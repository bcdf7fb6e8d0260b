--------------------------- MODULE TransferProofs ---------------------------
(* The composition of Transfer implements Pull: its pullers take only the  *)
(* steps of module Pull, and what its senders put in a reply channel is a  *)
(* reply of that module.  So what PullProofs shows of a cache directory,   *)
(* for every sender, holds of the composed system.                         *)
EXTENDS ReceivingProofs, PullProofs

(* The bytes of one read are a payload, and so is whatever replaces them   *)
(* in transit.                                                             *)
LEMMA ReadIsPayload ==
  ASSUME NEW c \in Content, NEW o \in Nat, o < Len(c),
         NEW n \in ReadSizes(Len(c) - o)
  PROVE  LET bytes == SubSeq(c, o + 1, o + n) IN
         /\ bytes \in Payload
         /\ \A arrived \in Transit(bytes) : arrived \in Payload
         /\ o \in Offset
<1> DEFINE bytes == SubSeq(c, o + 1, o + n)
<1>1. /\ Len(c) \in Nat /\ n \in 1 .. CHUNK_SIZE
      /\ bytes \in [1 .. n -> Byte]
  <2>1. NextBytes(c, o, n, bytes)
    BY ReadBytes, TransferAssumption, Zenon
  <2> QED
    BY <2>1, Zenon DEF NextBytes
<1>2. Transit(bytes) \subseteq [1 .. n -> Byte]
  BY <1>1, Zenon DEF Transit
<1>3. [1 .. n -> Byte] \subseteq Payload
  BY <1>1, TransferAssumption, Zenon
<1>4. o \in 0 .. Len(c) - 1
  BY <1>1
<1>5. o \in Offset
  BY <1>4, TransferAssumption, Zenon
<1> QED
  BY <1>1, <1>2, <1>3, <1>5, Zenon

(* When the query of a pull is given up, every sender keeps its queue and  *)
(* its stream, with nobody at the other end.                               *)
LEMMA AbandonTypes ==
  ASSUME SenderTypes, NEW p \in Puller, Abandon(p)
  PROVE  /\ inbox' \in [Server -> Seq(Query)]
         /\ stream' \in [Server -> [to : Puller \cup {Nobody}, digest : Digest,
                                    busy : BOOLEAN, offset : Nat, total : Nat]]
<1>1. ASSUME NEW s \in Server
      PROVE  [i \in DOMAIN inbox[s] |->
                IF inbox[s][i].to = p THEN [inbox[s][i] EXCEPT !.to = Nobody]
                                      ELSE inbox[s][i]] \in Seq(Query)
  <2> DEFINE f == [i \in DOMAIN inbox[s] |->
                IF inbox[s][i].to = p THEN [inbox[s][i] EXCEPT !.to = Nobody]
                                      ELSE inbox[s][i]]
  <2>1. inbox[s] \in Seq(Query)
    BY Zenon DEF SenderTypes
  <2>2. /\ Len(inbox[s]) \in Nat /\ DOMAIN inbox[s] = 1 .. Len(inbox[s])
        /\ \A i \in DOMAIN inbox[s] : inbox[s][i] \in Query
    BY <2>1, LenProperties, Zenon
  <2>3. \A q \in Query : [q EXCEPT !.to = Nobody] \in Query
    BY Zenon DEF Query
  <2>4. f \in [1 .. Len(inbox[s]) -> Query]
    BY <2>2, <2>3, Zenon
  <2> QED
    BY <2>2, <2>4, SeqDef
<1>2. ASSUME NEW s \in Server
      PROVE  [stream[s] EXCEPT !.to = Nobody] \in
               [to : Puller \cup {Nobody}, digest : Digest,
                busy : BOOLEAN, offset : Nat, total : Nat]
  BY Zenon DEF SenderTypes
<1>3. inbox' \in [Server -> Seq(Query)]
  BY <1>1, Zenon DEF Abandon
<1> QED
  BY <1>2, <1>3, Zenon DEF Abandon, SenderTypes

(* A sender without a query.                                               *)
LEMMA IdleType ==
  Idle \in [to : Puller \cup {Nobody}, digest : Digest,
            busy : BOOLEAN, offset : Nat, total : Nat]
  BY PullAssumption, Zenon DEF PullAssumption, Idle

(* A step of a sender is a step of Pull that adds one reply, or none.      *)
LEMMA ServerStepTypes ==
  ASSUME TypeOK, SenderTypes, NEW s \in Server, ServerStep(s)
  PROVE  [Next]_vars /\ SenderTypes'
<1>1. CASE IgnoreQuery(s)
  <2>1. Tail(inbox[s]) \in Seq(Query)
    BY <1>1, HeadTailProperties, Zenon DEF IgnoreQuery, SenderTypes
  <2> QED
    BY <1>1, <2>1, Zenon DEF IgnoreQuery, SenderTypes, serverVars
<1>2. CASE TakeQuery(s)
  <2> DEFINE q == Head(inbox[s])
  <2>1. Tail(inbox[s]) \in Seq(Query) /\ q \in Query
    BY <1>2, HeadTailProperties, Zenon DEF TakeQuery, SenderTypes
  <2>2. q.digest \in Digest /\ q.to \in Puller \cup {Nobody}
    BY <2>1, Zenon DEF Query
  <2>3. file[s][q.digest] \in Seq(Byte)
    BY <2>2, TransferAssumption DEF SenderTypes, TransferAssumption
  <2>4. Len(file[s][q.digest]) \in Nat
    BY <2>3, LenProperties, Zenon
  <2>5. /\ inbox' = [inbox EXCEPT ![s] = Tail(inbox[s])]
        /\ stream' = [stream EXCEPT ![s] =
             [to |-> q.to, digest |-> q.digest, busy |-> TRUE,
              offset |-> 0, total |-> Len(file[s][q.digest])]]
        /\ UNCHANGED <<vars, file>>
    BY <1>2, Zenon DEF TakeQuery, serverVars
  <2> HIDE DEF q
  <2> QED
    BY <2>1, <2>2, <2>4, <2>5, Zenon DEF SenderTypes
<1>3. CASE StreamChunk(s)
  <2> DEFINE q == stream[s]
             content == file[s][q.digest]
  <2>1. /\ q \in [to : Puller \cup {Nobody}, digest : Digest,
                  busy : BOOLEAN, offset : Nat, total : Nat]
        /\ content \in Content
    BY Zenon DEF SenderTypes
  <2>2. PICK n \in ReadSizes(Len(content) - q.offset) :
          LET bytes == SubSeq(content, q.offset + 1, q.offset + n)
              last == q.offset + n >= q.total
          IN
          /\ stream' = [stream EXCEPT ![s] =
               IF last THEN Idle ELSE [q EXCEPT !.offset = @ + n]]
          /\ IF q.to = Nobody
             THEN UNCHANGED vars
             ELSE \E arrived \in Transit(bytes) :
                    Arrive(q.to, [kind |-> "chunk", offset |-> q.offset,
                                  payload |-> arrived, last |-> last,
                                  chunk_hash |-> Blake3(bytes)])
    BY <1>3, Zenon DEF StreamChunk
  <2>3. q.offset < Len(content) /\ UNCHANGED <<file, inbox>>
    BY <1>3, Zenon DEF StreamChunk, serverVars
  <2> DEFINE bytes == SubSeq(content, q.offset + 1, q.offset + n)
             last == q.offset + n >= q.total
  <2>4. n \in Nat
    <3>1. Len(content) \in Nat
      BY <2>1, LenProperties, TransferAssumption, Zenon DEF TransferAssumption
    <3> QED
      BY <2>1, <3>1, PullAssumption DEF PullAssumption, ReadSizes
  <2>5. SenderTypes'
    <3>1. /\ Idle \in [to : Puller \cup {Nobody}, digest : Digest,
                       busy : BOOLEAN, offset : Nat, total : Nat]
          /\ [q EXCEPT !.offset = @ + n] \in
               [to : Puller \cup {Nobody}, digest : Digest,
                busy : BOOLEAN, offset : Nat, total : Nat]
      BY <2>1, <2>4, IdleType
    <3> HIDE DEF q, content
    <3>2. stream' \in [Server -> [to : Puller \cup {Nobody}, digest : Digest,
                                  busy : BOOLEAN, offset : Nat, total : Nat]]
      BY <2>2, <3>1, Zenon DEF SenderTypes
    <3> QED
      BY <2>3, <3>2, Zenon DEF SenderTypes
  <2>6. CASE q.to = Nobody
    BY <2>2, <2>5, <2>6, Zenon
  <2>7. CASE q.to # Nobody
    <3>1. PICK arrived \in Transit(bytes) :
            Arrive(q.to, [kind |-> "chunk", offset |-> q.offset,
                          payload |-> arrived, last |-> last,
                          chunk_hash |-> Blake3(bytes)])
      BY <2>2, <2>7, Zenon
    <3>2. bytes \in Payload /\ arrived \in Payload /\ q.offset \in Offset
      BY <2>1, <2>3, ReadIsPayload, Zenon
    <3>3. q.to \in Puller /\ last \in BOOLEAN
      BY <2>1, <2>7
    <3> HIDE DEF q, content, bytes, last
    <3>4. [kind |-> "chunk", offset |-> q.offset, payload |-> arrived,
           last |-> last, chunk_hash |-> Blake3(bytes)] \in Reply
      BY <3>2, <3>3, Zenon DEF Reply, Chunk
    <3>5. Next
      BY <3>1, <3>3, <3>4, Zenon DEF Next
    <3> QED
      BY <2>5, <3>5, Zenon
  <2> QED
    BY <2>6, <2>7, Zenon
<1>4. CASE StreamEof(s)
  BY <1>4, IdleType, Zenon DEF StreamEof, SenderTypes, serverVars
<1> QED
  BY <1>1, <1>2, <1>3, <1>4, Zenon DEF ServerStep

(* What else happens to a sender is no step of Pull at all.                *)
LEMMA ServerEventTypes ==
  ASSUME SenderTypes, NEW s \in Server, ServerEvent(s)
  PROVE  UNCHANGED vars /\ SenderTypes'
<1>1. CASE (\E d \in Digest : Register(s, d)) \/ Serve(s)
  BY <1>1, Zenon DEF Register, Serve, queryVars, SenderTypes
<1>2. CASE StreamFails(s)
  BY <1>2, IdleType, Zenon DEF StreamFails, SenderTypes, serverVars
<1>3. CASE ServerCrash(s)
  <2>1. <<>> \in Seq(Query)
    BY EmptySeq, Zenon
  <2> QED
    BY <1>3, <2>1, IdleType, Zenon DEF ServerCrash, SenderTypes
<1>4. ASSUME NEW d \in Digest, NEW c \in Content, ModifyFile(s, d, c)
      PROVE  UNCHANGED vars /\ SenderTypes'
  BY <1>4, Zenon DEF ModifyFile, SenderTypes, queryVars
<1> QED
  BY <1>1, <1>2, <1>3, <1>4, Zenon DEF ServerEvent

(* While a pull goes on its query is untouched, or given up.               *)
LEMMA ListeningTypes ==
  ASSUME SenderTypes, NEW p \in Puller, Listening(p)
  PROVE  SenderTypes'
  BY AbandonTypes, Zenon DEF Listening, SenderTypes, serverVars, queryVars

(* A step of a puller, or of its channel, is a step of Pull.               *)
LEMMA PullerTypes ==
  ASSUME TypeOK, SenderTypes, NEW p \in Puller,
         PullerStep(p) \/ Call(p) \/ PullFails(p) \/ Timeout(p) \/ ErrorReply(p)
  PROVE  Next /\ SenderTypes'
<1>1. CASE Advance(p)
  BY <1>1, ListeningTypes, Zenon DEF Advance, Next, PullStep
<1>2. CASE Ask(p)
  <2>1. \A s \in Server :
          Append(inbox[s], [to |-> p, digest |-> digest[p]]) \in Seq(Query)
    <3>1. [to |-> p, digest |-> digest[p]] \in Query
      BY Zenon DEF Query, TypeOK
    <3> QED
      BY <3>1, AppendProperties, Zenon DEF SenderTypes
  <2>2. inbox' \in [Server -> Seq(Query)]
    BY <1>2, <2>1, Zenon DEF Ask, SenderTypes
  <2> QED
    BY <1>2, <2>2, Zenon DEF Ask, SenderTypes, serverVars, Next, PullStep
<1>3. CASE Finish(p)
  BY <1>3, Zenon DEF Finish, SenderTypes, serverVars, queryVars, Next
<1>4. CASE Call(p)
  BY <1>4, ListeningTypes, Zenon DEF Call, Next
<1>5. CASE PullFails(p)
  BY <1>5, ListeningTypes, Zenon DEF PullFails, Next
<1>6. CASE Timeout(p)
  BY <1>6, AbandonTypes, Zenon DEF Timeout, SenderTypes, serverVars, Next
<1>7. CASE ErrorReply(p)
  <2>1. [kind |-> "error"] \in Reply
    BY Zenon DEF Reply
  <2> QED
    BY <1>7, <2>1, Zenon
    DEF ErrorReply, SenderTypes, serverVars, queryVars, Next
<1> QED
  BY <1>1, <1>2, <1>3, <1>4, <1>5, <1>6, <1>7, Zenon DEF PullerStep

(* Every step of the composition is one of Pull or leaves it alone, and    *)
(* keeps the types.                                                        *)
LEMMA TransferStep ==
  TypeOK /\ SenderTypes /\ [TransferNext]_allVars
    => [Next]_vars /\ TypeOK' /\ SenderTypes'
<1> SUFFICES ASSUME TypeOK, SenderTypes, [TransferNext]_allVars
             PROVE  [Next]_vars /\ SenderTypes'
  BY NextType, Zenon
<1>1. CASE UNCHANGED allVars
  BY <1>1, Zenon DEF allVars, serverVars, queryVars, SenderTypes
<1>2. ASSUME NEW s \in Server, ServerStep(s) \/ ServerEvent(s)
      PROVE  [Next]_vars /\ SenderTypes'
  BY <1>2, ServerStepTypes, ServerEventTypes, Zenon
<1>3. ASSUME NEW p \in Puller,
             \/ PullerStep(p) \/ Call(p) \/ PullFails(p) \/ Timeout(p)
             \/ ErrorReply(p)
      PROVE  [Next]_vars /\ SenderTypes'
  BY <1>3, PullerTypes, Zenon
<1> QED
  BY <1>1, <1>2, <1>3, Zenon DEF TransferNext

(* The composition starts as Pull does.                                    *)
LEMMA TransferStart == TransferInit => Init /\ TypeOK /\ SenderTypes
<1>1. <<>> \in Seq(Query)
  BY EmptySeq, Zenon
<1> QED
  BY <1>1, IdleType, InitType DEF TransferInit, SenderTypes

-----------------------------------------------------------------------------
(* The parts of TransferTypeOK.                                            *)
LEMMA TypeParts ==
  TransferTypeOK <=>
    /\ TypeOK /\ SenderTypes /\ IndexTypes
    /\ \A p \in Puller : Waiting(p)
    /\ \A s \in Server : InFile(s)
<1>1. \A p \in Puller : Outstanding(p) # {} <=> \E s \in Server : Holds(s, p)
  BY Zenon DEF Outstanding, Holds
<1> QED
  BY <1>1, Zenon DEF TransferTypeOK, SenderTypes, IndexTypes, Waiting, InFile

(* A query handed on at one sender is still with somebody who had it.      *)
LEMMA TailHolds ==
  ASSUME SenderTypes, NEW s \in Server, inbox[s] # <<>>, NEW p \in Puller,
         NEW i \in DOMAIN Tail(inbox[s]), Tail(inbox[s])[i].to = p
  PROVE  Holds(s, p)
<1>1. inbox[s] \in Seq(Query)
  BY Zenon DEF SenderTypes
<1>2. i + 1 \in DOMAIN inbox[s] /\ inbox[s][i + 1].to = p
  BY <1>1, TailIndices, Zenon
<1> QED
  BY <1>2, Zenon DEF Holds

(* No step of a sender hands a query to anybody it was not asked by.       *)
LEMMA ServerHolds ==
  ASSUME SenderTypes, NEW s \in Server, ServerStep(s) \/ ServerEvent(s)
  PROVE  /\ \A t \in Server, p \in Puller : Holds(t, p)' => Holds(t, p)
         /\ UNCHANGED <<pc, closed, hosts>>

<1>1. CASE IgnoreQuery(s)
  <2>1. /\ inbox' = [inbox EXCEPT ![s] = Tail(inbox[s])] /\ inbox[s] # <<>>
        /\ UNCHANGED <<stream, pc, closed, hosts>>
    BY <1>1, Zenon DEF IgnoreQuery, vars, pullVars, chanVars
  <2>2. /\ inbox'[s] = Tail(inbox[s])
        /\ \A t \in Server : t # s => inbox'[t] = inbox[t]
    BY <2>1, Zenon DEF SenderTypes
  <2> QED
    BY <2>1, <2>2, TailHolds DEF Holds
<1>2. CASE TakeQuery(s)
  <2> DEFINE q == Head(inbox[s])
             new == [to |-> q.to, digest |-> q.digest, busy |-> TRUE,
                     offset |-> 0, total |-> Len(file[s][q.digest])]
  <2>1. /\ inbox' = [inbox EXCEPT ![s] = Tail(inbox[s])] /\ inbox[s] # <<>>
        /\ stream' = [stream EXCEPT ![s] = new]
        /\ UNCHANGED <<pc, closed, hosts>>
    BY <1>2, Zenon DEF TakeQuery, vars, pullVars, chanVars
  <2>2. new.to = q.to
    BY Zenon
  <2> HIDE DEF q, new
  <2>3. /\ inbox'[s] = Tail(inbox[s]) /\ stream'[s] = new
        /\ \A t \in Server : t # s => inbox'[t] = inbox[t] /\ stream'[t] = stream[t]
    BY <2>1, Zenon DEF SenderTypes
  <2>4. 1 \in DOMAIN inbox[s] /\ q = inbox[s][1]
    BY <2>1, LenProperties, EmptySeq DEF SenderTypes, q
  <2>5. \A p \in Puller : q.to = p => Holds(s, p)
    BY <2>4, Zenon DEF Holds
  <2>6. ASSUME NEW p \in Puller, Holds(s, p)' PROVE Holds(s, p)
    <3>1. CASE stream'[s].to = p
      BY <2>2, <2>3, <2>5, <3>1, Zenon
    <3>2. CASE \E i \in DOMAIN inbox'[s] : inbox'[s][i].to = p
      BY <2>1, <2>3, <3>2, TailHolds, Zenon
    <3> QED
      BY <2>6, <3>1, <3>2, Zenon DEF Holds
  <2> QED
    BY <2>1, <2>3, <2>6 DEF Holds
<1>3. CASE \/ StreamChunk(s) \/ StreamEof(s) \/ StreamFails(s)
  <2>1. PICK new : /\ stream' = [stream EXCEPT ![s] = new]
                   /\ new.busy => stream[s].busy /\ new.to = stream[s].to
    <3>1. ~Idle.busy
      BY Zenon DEF Idle
    <3>2. \A n : LET next == [stream[s] EXCEPT !.offset = @ + n] IN
            next.busy = stream[s].busy /\ next.to = stream[s].to
      BY Zenon DEF SenderTypes
    <3>3. CASE StreamChunk(s)
      <4>1. PICK n : stream' = [stream EXCEPT ![s] =
                       IF stream[s].offset + n >= stream[s].total THEN Idle
                       ELSE [stream[s] EXCEPT !.offset = @ + n]]
        BY <3>3, Zenon DEF StreamChunk
      <4> QED
        BY <3>1, <3>2, <4>1, Zenon
    <3> QED
      BY <1>3, <3>1, <3>3, Zenon DEF StreamEof, StreamFails
  <2>2. UNCHANGED <<inbox, pc, closed, hosts>>
    BY <1>3, Zenon
    DEF StreamChunk, StreamEof, StreamFails, Arrive, vars, pullVars,
                chanVars
  <2>3. /\ stream'[s] = new
        /\ \A t \in Server : t # s => stream'[t] = stream[t]
    BY <2>1, Zenon DEF SenderTypes
  <2> QED
    BY <2>1, <2>2, <2>3, Zenon DEF Holds
<1>4. CASE ServerCrash(s)
  <2>1. /\ inbox' = [inbox EXCEPT ![s] = <<>>]
        /\ stream' = [stream EXCEPT ![s] = Idle]
        /\ UNCHANGED <<pc, closed, hosts>>
    BY <1>4, Zenon DEF ServerCrash, vars, pullVars, chanVars
  <2>2. /\ inbox'[s] = <<>> /\ ~stream'[s].busy
        /\ \A t \in Server : t # s => inbox'[t] = inbox[t] /\ stream'[t] = stream[t]
    BY <2>1, Zenon DEF SenderTypes, Idle
  <2> QED
    BY <2>1, <2>2 DEF Holds
<1>5. CASE \/ (\E d \in Digest : Register(s, d)) \/ Serve(s)
           \/ \E d \in Digest, c \in Content : ModifyFile(s, d, c)
  BY <1>5, Zenon
  DEF Register, Serve, ModifyFile, queryVars, vars, pullVars, chanVars,
              Holds
<1> QED
  BY <1>1, <1>2, <1>3, <1>4, <1>5, Zenon DEF ServerStep, ServerEvent

(* A stream stays within the length read when it began.                    *)
LEMMA ServerInFile ==
  ASSUME TypeOK, SenderTypes, NEW s \in Server, ServerStep(s) \/ ServerEvent(s),
         \A t \in Server : InFile(t)
  PROVE  \A t \in Server : InFile(t)'
<1> DEFINE Good(q) == q.busy => q.total = 0 \/ q.offset < q.total
<1>1. PICK new : stream' = [stream EXCEPT ![s] = new] /\ Good(new)
  <2>1. Good(Idle)
    BY Zenon DEF Idle
  <2>2. CASE TakeQuery(s)
    <3> DEFINE q == Head(inbox[s])
    <3>1. q.digest \in Digest
      <4>1. q \in Query
        BY <2>2, HeadTailProperties, Zenon DEF TakeQuery, SenderTypes
      <4> QED
        BY <4>1, Zenon DEF Query
    <3>2. Len(file[s][q.digest]) \in Nat
      BY <3>1, LenProperties, TransferAssumption DEF SenderTypes
    <3>3. Good([to |-> q.to, digest |-> q.digest, busy |-> TRUE,
                offset |-> 0, total |-> Len(file[s][q.digest])])
      BY <3>2
    <3> QED
      BY <2>2, <3>3, Zenon DEF TakeQuery
  <2>3. CASE StreamChunk(s)
    <3> DEFINE next(n) == [stream[s] EXCEPT !.offset = @ + n]
    <3>1. Len(file[s][stream[s].digest]) \in Nat
      BY LenProperties, TransferAssumption DEF SenderTypes
    <3>2. PICK n \in ReadSizes(Len(file[s][stream[s].digest]) - stream[s].offset) :
            stream' = [stream EXCEPT ![s] =
                         IF stream[s].offset + n >= stream[s].total THEN Idle
                         ELSE next(n)]
      BY <2>3, Zenon DEF StreamChunk
    <3>5. n \in Nat
      <4>1. stream[s].offset \in Nat
        BY Zenon DEF SenderTypes
      <4> QED
        BY <3>1, <4>1, PullAssumption DEF ReadSizes
    <3>3. /\ stream[s].offset \in Nat /\ stream[s].total \in Nat
          /\ next(n).offset = stream[s].offset + n
          /\ next(n).total = stream[s].total
      BY Zenon DEF SenderTypes
    <3>4. ~(stream[s].offset + n >= stream[s].total) => Good(next(n))
      BY <3>3, <3>5
    <3> HIDE DEF Good, next
    <3> QED
      BY <2>1, <3>2, <3>4, Zenon
  <2>4. CASE StreamEof(s) \/ StreamFails(s) \/ ServerCrash(s)
    BY <2>1, <2>4, Zenon DEF StreamEof, StreamFails, ServerCrash
  <2>5. CASE UNCHANGED stream
    BY <2>5, Zenon DEF SenderTypes, InFile
  <2> QED
    BY <2>2, <2>3, <2>4, <2>5, Zenon
       DEF ServerStep, ServerEvent, IgnoreQuery, Register, Serve, ModifyFile,
           queryVars
<1>2. /\ stream'[s] = new
      /\ \A t \in Server : t # s => stream'[t] = stream[t]
  BY <1>1, Zenon DEF SenderTypes
<1> QED
  BY <1>1, <1>2, Zenon DEF InFile

(* Giving up the query of p takes it out of every sender's hands, and      *)
(* touches nobody else's.                                                  *)
LEMMA AbandonHolds ==
  ASSUME SenderTypes, NEW p \in Puller, Abandon(p)
  PROVE  /\ \A s \in Server, q \in Puller : Holds(s, q)' => Holds(s, q) /\ q # p
         /\ (\A s \in Server : InFile(s)) => \A s \in Server : InFile(s)'
<1> SUFFICES ASSUME NEW s \in Server
             PROVE  /\ \A q \in Puller : Holds(s, q)' => Holds(s, q) /\ q # p
                    /\ InFile(s) => InFile(s)'
  BY Zenon
<1>1. /\ stream'[s] = IF stream[s].to = p THEN [stream[s] EXCEPT !.to = Nobody]
                                         ELSE stream[s]
      /\ inbox'[s] = [i \in DOMAIN inbox[s] |->
           IF inbox[s][i].to = p THEN [inbox[s][i] EXCEPT !.to = Nobody]
                                 ELSE inbox[s][i]]
  BY Zenon DEF Abandon
<1>2. /\ stream'[s].busy = stream[s].busy /\ stream'[s].total = stream[s].total
      /\ stream'[s].offset = stream[s].offset
      /\ stream'[s].to = IF stream[s].to = p THEN Nobody ELSE stream[s].to
  BY <1>1, Zenon DEF SenderTypes
<1>3. /\ DOMAIN inbox'[s] = DOMAIN inbox[s]
      /\ \A i \in DOMAIN inbox[s] :
           inbox'[s][i].to = IF inbox[s][i].to = p THEN Nobody ELSE inbox[s][i].to
  <2>1. \A i \in DOMAIN inbox[s] : inbox[s][i] \in Query
    BY LenProperties DEF SenderTypes
  <2>2. \A q \in Query : [q EXCEPT !.to = Nobody].to = Nobody
    BY Zenon DEF Query
  <2> QED
    BY <1>1, <2>1, <2>2, ZenonT(30)
<1>4. Nobody \notin Puller
  BY TransferAssumption, Zenon
<1> QED
  BY <1>2, <1>3, <1>4, Zenon DEF Holds, InFile

(* The locals and the channel of q.                                        *)
Locals(q) == <<pc[q], digest[q], fd[q], gotAny[q], gotLast[q], hashed[q],
               result[q], replies[q], closed[q]>>

(* A step of one pull leaves the locals of the others alone, and begins to *)
(* receive only by asking.                                                 *)
LEMMA OwnLocals ==
  ASSUME TypeOK, NEW p \in Puller,
         \/ LocalStep(p) \/ Fault(p)
         \/ \E d \in Digest : PullCached(p, d) \/ PullStart(p, d)
  PROVE  /\ \A q \in Puller : q # p => Locals(q)' = Locals(q)
         /\ pc'[p] = "recv" => pc[p] = "recv" /\ closed'[p] = closed[p]
<1>1. ASSUME NEW r, Return(p, r)
      PROVE  /\ \A q \in Puller : q # p => Locals(q)' = Locals(q)
             /\ pc'[p] # "recv"
  BY <1>1, Zenon DEF Return, Locals, TypeOK
<1>2. CASE Fault(p) \/ RejectReply(p) \/ RemovePartial(p) \/ Rename(p) \/ PartialGone(p)
  BY <1>1, <1>2, Zenon
  DEF Fault, GetFails, IoError, Crash, RejectReply, RemovePartial,
                    Rename, PartialGone
<1>3. CASE \E d \in Digest : PullCached(p, d) \/ PullStart(p, d)
  BY <1>3, Zenon DEF PullCached, PullStart, Goto, chanVars, Locals, TypeOK
<1>4. CASE OpenPartial(p) \/ EndOfReplies(p)
  BY <1>4, Zenon DEF OpenPartial, EndOfReplies, Goto, chanVars, Locals, TypeOK
<1>5. CASE ReceiveChunk(p)
  BY <1>5, Zenon DEF ReceiveChunk, Locals, TypeOK
<1>6. CASE HashOpen(p) \/ HashRead(p) \/ HashCompare(p)
  BY <1>6, Zenon
  DEF HashOpen, HashRead, HashCompare, Goto, chanVars, Locals, TypeOK
<1> QED
  BY <1>2, <1>3, <1>4, <1>5, <1>6, Zenon DEF LocalStep

(* A pull that gives up its query, or goes on receiving, leaves no sender  *)
(* with a query nobody waits for.                                          *)
LEMMA PullerWaits ==
  ASSUME TypeOK, SenderTypes, NEW p \in Puller,
         PullerStep(p) \/ Call(p) \/ PullFails(p) \/ Timeout(p) \/ ErrorReply(p),
         \A q \in Puller : Waiting(q), \A s \in Server : InFile(s)
  PROVE  /\ \A q \in Puller : Waiting(q)'
         /\ \A s \in Server : InFile(s)'
<1>1. CASE Advance(p) \/ Call(p) \/ PullFails(p)
  <2>1. /\ Listening(p)
        /\ \A q \in Puller : q # p => pc'[q] = pc[q] /\ closed'[q] = closed[q]
        /\ pc'[p] = "recv" => pc[p] = "recv" /\ closed'[p] = closed[p]
    <3>1. /\ \A q \in Puller : q # p => Locals(q)' = Locals(q)
          /\ pc'[p] = "recv" => pc[p] = "recv" /\ closed'[p] = closed[p]
      BY <1>1, OwnLocals, Zenon DEF Advance, Call, PullFails
    <3> QED
      BY <1>1, <3>1, Zenon DEF Advance, Call, PullFails, Locals
  <2>2. CASE pc'[p] = "recv"
    BY <2>1, <2>2, SMTT(30) DEF Listening, queryVars, Waiting, Holds, InFile
  <2>3. CASE pc'[p] # "recv"
    <3>1. Abandon(p)
      BY <2>1, <2>3, Zenon DEF Listening
    <3> QED
      BY <2>1, <3>1, AbandonHolds, Zenon DEF Waiting
  <2> QED
    BY <2>2, <2>3, Zenon
<1>2. CASE Ask(p)
  <2>1. /\ pc' = [pc EXCEPT ![p] = "recv"] /\ closed' = [closed EXCEPT ![p] = FALSE]
        /\ UNCHANGED stream
    BY <1>2, Zenon DEF Ask, SendQuery, Goto
  <2>2. /\ pc'[p] = "recv" /\ ~closed'[p]
        /\ \A q \in Puller : q # p => pc'[q] = pc[q] /\ closed'[q] = closed[q]
    BY <2>1, Zenon DEF TypeOK
  <2>3. ASSUME NEW s \in Server, NEW q \in Puller, q # p, Holds(s, q)'
        PROVE  Holds(s, q)
    <3> DEFINE new == [to |-> p, digest |-> digest[p]]
    <3>1. /\ new \in Query /\ inbox[s] \in Seq(Query)
          /\ inbox'[s] = IF serving[s] THEN Append(inbox[s], new) ELSE inbox[s]
      BY <1>2, Zenon DEF Ask, Query, TypeOK, SenderTypes
    <3>2. new.to # q
      BY <2>3, Zenon
    <3> HIDE DEF new
    <3>3. \A i \in DOMAIN Append(inbox[s], new) :
            Append(inbox[s], new)[i].to = q =>
              i \in DOMAIN inbox[s] /\ inbox[s][i].to = q
      BY <3>1, <3>2, AppendIndices
    <3> QED
      BY <2>1, <2>3, <3>1, <3>3, Zenon DEF Holds
  <2> QED
    BY <2>1, <2>2, <2>3, Zenon DEF Waiting, InFile
<1>3. CASE Finish(p)
  <2>1. /\ \A s \in Server : ~Holds(s, p)
        /\ UNCHANGED <<pc, queryVars>> /\ closed' = [closed EXCEPT ![p] = TRUE]
    BY <1>3, Zenon DEF Finish, Close, pullVars, Outstanding, Holds
  <2>2. \A q \in Puller : q # p => closed'[q] = closed[q]
    BY <2>1, Zenon DEF TypeOK
  <2> QED
    BY <2>1, <2>2 DEF Waiting, InFile, Holds, queryVars
<1>4. CASE Timeout(p)
  <2>1. Abandon(p) /\ UNCHANGED pc /\ closed' = [closed EXCEPT ![p] = TRUE]
    BY <1>4, Zenon DEF Timeout, Close, pullVars
  <2>2. \A q \in Puller : q # p => closed'[q] = closed[q]
    BY <2>1, Zenon DEF TypeOK
  <2> QED
    BY <2>1, <2>2, AbandonHolds, Zenon DEF Waiting
<1>5. CASE ErrorReply(p)
  BY <1>5, Zenon
  DEF ErrorReply, Arrive, pullVars, queryVars, Waiting, Holds, InFile
<1> QED
  BY <1>1, <1>2, <1>3, <1>4, <1>5, Zenon DEF PullerStep

(* Every step keeps the types of the index and of the hosts.               *)
LEMMA IndexStep ==
  ASSUME SenderTypes, IndexTypes, TransferNext
  PROVE  IndexTypes'
<1>1. ASSUME NEW s \in Server, ServerStep(s) PROVE IndexTypes'
  BY <1>1, Zenon
  DEF ServerStep, IgnoreQuery, TakeQuery, StreamChunk, StreamEof,
              serverVars, IndexTypes
<1>2. ASSUME NEW s \in Server, ServerEvent(s) PROVE IndexTypes'
  <2>1. CASE \E d \in Digest : Register(s, d)
    BY <2>1 DEF Register, IndexTypes
  <2>2. CASE Serve(s) \/ ServerCrash(s)
    BY <2>2, Zenon DEF Serve, ServerCrash, IndexTypes
  <2> QED
    BY <1>2, <2>1, <2>2, Zenon
    DEF ServerEvent, StreamFails, ModifyFile, serverVars,
                            IndexTypes
<1>3. ASSUME NEW p \in Puller,
             PullerStep(p) \/ Call(p) \/ PullFails(p) \/ Timeout(p) \/ ErrorReply(p)
      PROVE  IndexTypes'
  BY <1>3, Zenon
  DEF PullerStep, Advance, Ask, Finish, Call, PullFails, Timeout,
              ErrorReply, Listening, serverVars, IndexTypes
<1> QED
  BY <1>1, <1>2, <1>3, Zenon DEF TransferNext

(* Every step keeps TransferTypeOK.                                        *)
LEMMA TransferTypeStep ==
  TransferTypeOK /\ [TransferNext]_allVars => TransferTypeOK'
<1> SUFFICES ASSUME TransferTypeOK, [TransferNext]_allVars PROVE TransferTypeOK'
  BY Zenon
<1>1. /\ TypeOK /\ SenderTypes /\ IndexTypes
      /\ \A p \in Puller : Waiting(p)
      /\ \A s \in Server : InFile(s)
  BY TypeParts, Zenon
<1>2. TypeOK' /\ SenderTypes'
  BY <1>1, TransferStep, Zenon
<1>3. /\ IndexTypes'
      /\ \A p \in Puller : Waiting(p)'
      /\ \A s \in Server : InFile(s)'
  <2>1. CASE UNCHANGED allVars
    <3>1. IndexTypes'
      BY <1>1, <2>1, Zenon DEF allVars, serverVars, IndexTypes
    <3> QED
      BY <1>1, <2>1, <3>1, Zenon
      DEF allVars, vars, pullVars, chanVars, queryVars,
                              Waiting, Holds, InFile
  <2>2. ASSUME NEW s \in Server, ServerStep(s) \/ ServerEvent(s)
        PROVE  /\ \A p \in Puller : Waiting(p)'
               /\ \A t \in Server : InFile(t)'
    BY <1>1, <2>2, ServerHolds, ServerInFile, Zenon DEF Waiting
  <2>3. CASE TransferNext
    BY <1>1, <2>2, <2>3, IndexStep, PullerWaits, Zenon DEF TransferNext
  <2> QED
    BY <2>1, <2>3, Zenon
<1>4. \A p \in Puller : (Outstanding(p) # {})' <=> \E s \in Server : Holds(s, p)'
  BY Zenon DEF Outstanding, Holds
<1> QED
  BY <1>2, <1>3, <1>4, Zenon
  DEF TransferTypeOK, SenderTypes, IndexTypes, Waiting, InFile

(* TransferTypeOK holds at the start.                                      *)
LEMMA TransferTypeInit == TransferInit => TransferTypeOK
<1> SUFFICES ASSUME TransferInit PROVE TransferTypeOK
  BY Zenon
<1>1. TypeOK /\ SenderTypes
  BY TransferStart, Zenon
<1>2. IndexTypes
  BY Zenon DEF TransferInit, IndexTypes
<1>3. \A s \in Server : ~stream[s].busy /\ inbox[s] = <<>>
  BY Zenon DEF TransferInit, Idle
<1> QED
  BY <1>1, <1>2, <1>3, TypeParts DEF Waiting, Holds, InFile

(* However pulls overlap, time out, fail and are called again, however     *)
(* senders crash or their files change: a sender never works on a query of *)
(* a pull that has stopped waiting (the reply would go to a later query of *)
(* the same pull), and stream_file_chunks stays within the length it read  *)
(* when it began.                                                          *)
THEOREM TransferTypeCorrect == TransferSpec => []TransferTypeOK
  BY TransferTypeInit, TransferTypeStep, PTL DEF TransferSpec

(* The pullers and senders of furcate-mesh-transfer, joined by Zenoh,      *)
(* implement Pull: what holds of pull_with_options against arbitrary       *)
(* replies holds of it against TransferService::serve.                     *)
THEOREM ImplementsPull == TransferSpec => Spec
  BY TransferStep, TransferStart, PTL DEF TransferSpec, Spec

(* Pulls that do not overlap here do not overlap in Pull.                  *)
LEMMA SerialStep ==
  TypeOK /\ SenderTypes /\ [TransferNext /\ OnePullPerDigest']_allVars
    => [SerialNext]_vars /\ TypeOK' /\ SenderTypes'
<1> SUFFICES ASSUME TypeOK, SenderTypes,
                    [TransferNext /\ OnePullPerDigest']_allVars
             PROVE  [SerialNext]_vars /\ TypeOK' /\ SenderTypes'
  BY Zenon
<1>1. [Next]_vars /\ TypeOK' /\ SenderTypes'
  BY TransferStep, Zenon
<1>2. UNCHANGED vars \/ OnePullPerDigest'
  BY Zenon DEF allVars
<1> QED
  BY <1>1, <1>2, Zenon DEF SerialNext

(* The composed system keeps the promise of ContentCache as long as pulls  *)
(* of one digest do not overlap: with senders whose files change under     *)
(* them, that crash while they stream, and whose replies are damaged.      *)
THEOREM TransferKeepsCache == SerialTransfer => CacheSpec
<1>1. SerialTransfer => SerialSpec
  BY SerialStep, TransferStart, PTL DEF SerialTransfer, SerialSpec
<1> QED
  BY <1>1, ImplementsCache, Zenon

(* Overlapping pulls, failing senders and lost or damaged replies never    *)
(* cost the cache directory an entry.                                      *)
THEOREM TransferKeepsEntries == TransferSpec => EntriesStay
  BY ImplementsPull, EntriesNeverVanish, Zenon

-----------------------------------------------------------------------------
(* HostedPullSucceeds.                                                     *)

(* A step of one pull changes neither the temp name of another, nor the    *)
(* file behind it.                                                         *)
LEMMA OtherFiles ==
  ASSUME CacheInv, NEW p \in Puller, NEW q \in Puller, q # p, Active(q),
         \/ LocalStep(p) \/ SendQuery(p)
         \/ \E d \in Digest : PullCached(p, d) \/ PullStart(p, d)
  PROVE  /\ partial'[digest[q]] = partial[digest[q]]
         /\ partial[digest[q]] # NoFile =>
              data'[partial[digest[q]]] = data[partial[digest[q]]]
<1>1. /\ TypeOK /\ NamesDistinct
      /\ digest[p] \in Digest /\ digest[q] \in Digest
      /\ Active(p) => digest[p] # digest[q]
  BY Zenon DEF CacheInv, OnePullPerDigest, TypeOK
<1>2. CASE UNCHANGED fileVars
  BY <1>2, Zenon DEF fileVars
<1>3. CASE OpenPartial(p)
  <2>1. Active(p)
    BY <1>3, Zenon DEF OpenPartial, Active
  <2>2. PICK i \in Inode :
          /\ IF partial[digest[p]] = NoFile THEN Unused(i)
                                            ELSE i = partial[digest[p]]
          /\ partial' = [partial EXCEPT ![digest[p]] = i]
          /\ data' = [data EXCEPT ![i] = <<>>]
    BY <1>3, Zenon DEF OpenPartial
  <2>3. partial[digest[q]] # NoFile => partial[digest[q]] # i
    BY <1>1, <2>1, <2>2, Zenon DEF NamesDistinct, Unused
  <2> QED
    BY <1>1, <2>1, <2>2, <2>3, Zenon DEF TypeOK
<1>4. CASE ReceiveChunk(p)
  <2>1. /\ Active(p) /\ pc[p] = "recv" /\ UNCHANGED partial
        /\ data' = [data EXCEPT ![fd[p]] =
                      WriteAt(@, Head(replies[p]).offset, Head(replies[p]).payload)]
    BY <1>4, Zenon DEF ReceiveChunk, Active
  <2>2. fd[p] = partial[digest[p]]
    BY <2>1, OfPuller, Zenon DEF PullInv
  <2>3. partial[digest[q]] # NoFile => partial[digest[q]] # fd[p]
    BY <1>1, <2>1, <2>2, Zenon DEF NamesDistinct
  <2> QED
    BY <1>1, <2>1, <2>3, Zenon DEF TypeOK
<1>5. CASE RemovePartial(p) \/ Rename(p)
  <2>1. /\ Active(p) /\ UNCHANGED data
        /\ partial' = [partial EXCEPT ![digest[p]] = NoFile]
    BY <1>5, Zenon DEF RemovePartial, Rename, Active
  <2> QED
    BY <1>1, <2>1, Zenon DEF TypeOK
<1> QED
  BY <1>2, <1>3, <1>4, <1>5, Zenon
     DEF LocalStep, SendQuery, PullCached, PullStart, RejectReply,
       EndOfReplies,
         HashOpen, HashRead, HashCompare, PartialGone

(* What HostedPullSucceeds says of p.                                      *)
EndsWell(p) ==
  \/ result[p] \in {"none", "ok"}
  \/ result[p] = "PeerMissing" /\ (hosts[p] = {} \/ digest[p] = EmptyDigest)

(* A step of one pull does not disturb another.                            *)
LEMMA OtherHosted ==
  ASSUME CacheInv, SenderTypes, IndexTypes, NEW p \in Puller,
         PullerStep(p) \/ Call(p), NEW q \in Puller, q # p,
         HostedPull(q), EndsWell(q)
  PROVE  HostedPull(q)' /\ EndsWell(q)'
<1>1. TypeOK
  BY Zenon DEF CacheInv
<1>2. /\ Locals(q)' = Locals(q) /\ hosts'[q] = hosts[q]
      /\ \A s \in Server : SameQuery(s, q)
  <2>1. CASE Advance(p) \/ Call(p)
    <3>1. Locals(q)' = Locals(q)
      BY <1>1, <2>1, OwnLocals, Zenon DEF Advance, Call
    <3>2. UNCHANGED queryVars \/ Abandon(p)
      BY <2>1, Zenon DEF Advance, Call, Listening
    <3>3. UNCHANGED <<artefacts, hosts>>
      BY <2>1, Zenon DEF Advance, Call, Listening, serverVars
    <3>4. \A s \in Server : SameQuery(s, q)
      <4>1. CASE UNCHANGED queryVars
        BY <3>3, <4>1, Zenon DEF queryVars, SameQuery, Streaming, Holds
      <4>2. CASE Abandon(p)
        BY <3>3, <4>2, AbandonSame, Zenon
      <4> QED
        BY <3>2, <4>1, <4>2, Zenon
    <3> QED
      BY <3>1, <3>3, <3>4, Zenon
  <2>2. CASE Ask(p)
    <3>1. Locals(q)' = Locals(q)
      BY <1>1, <2>2, Zenon DEF Ask, SendQuery, Goto, Locals, TypeOK
    <3>2. hosts'[q] = hosts[q]
      BY <2>2, Zenon DEF Ask, IndexTypes
    <3> QED
      BY <1>1, <2>2, <3>1, <3>2, AskSame, Zenon
  <2>3. CASE Finish(p)
    <3>1. UNCHANGED <<inbox, stream, artefacts, hosts>>
      BY <2>3, Zenon DEF Finish, queryVars, serverVars
    <3>2. Locals(q)' = Locals(q)
      BY <1>1, <2>3, Zenon DEF Finish, Close, pullVars, Locals, TypeOK
    <3> QED
      BY <3>1, <3>2, Zenon DEF SameQuery, Streaming, Holds
  <2> QED
    BY <2>1, <2>2, <2>3, Zenon DEF PullerStep
<1>3. /\ pc'[q] = pc[q] /\ digest'[q] = digest[q] /\ fd'[q] = fd[q]
      /\ gotAny'[q] = gotAny[q] /\ gotLast'[q] = gotLast[q]
      /\ result'[q] = result[q] /\ replies'[q] = replies[q]
  BY <1>2, Zenon DEF Locals
<1>4. ASSUME Active(q)
      PROVE  /\ partial'[digest[q]] = partial[digest[q]]
             /\ partial[digest[q]] # NoFile =>
                  data'[partial[digest[q]]] = data[partial[digest[q]]]
  <2>1. CASE Finish(p)
    BY <2>1, Zenon DEF Finish, Close, fileVars
  <2>2. CASE Advance(p) \/ Ask(p) \/ Call(p)
    BY <1>4, <2>2, OtherFiles, Zenon DEF Advance, Ask, Call
  <2> QED
    BY <2>1, <2>2, Zenon DEF PullerStep
<1>5. ASSUME pc[q] \in {"get", "recv"}
      PROVE  data'[fd[q]] = data[fd[q]]
  <2>1. fd[q] = partial[digest[q]] /\ fd[q] # NoFile
    BY <1>1, <1>5, OfPuller, Zenon DEF PullInv, TypeOK
  <2> QED
    BY <1>4, <1>5, <2>1, Zenon DEF Active
<1>6. pc[q] = "recv" => ReceivingInv(q)'
  BY <1>2, <1>3, <1>5, ReceivingFrame, Zenon DEF HostedPull, Untouched
<1>7. HostedPull(q)'
  BY <1>3, <1>4, <1>5, <1>6, Zenon DEF HostedPull, Active
<1> QED
  BY <1>2, <1>3, <1>7, Zenon DEF EndsWell

(* The channel is closed and drained: the temp file is the file asked for, *)
(* or nobody had it, or it is empty.                                       *)
LEMMA EndHosted ==
  ASSUME CacheInv, IndexTypes, NEW p \in Puller, EndOfReplies(p), Waiting(p),
         UNCHANGED hosts, HostedPull(p)
  PROVE  HostedPull(p)' /\ EndsWell(p)'
<1>1. /\ pc[p] = "recv" /\ replies[p] = <<>> /\ closed[p]
      /\ UNCHANGED <<digest, gotAny, gotLast, partial, data>>
  BY Zenon DEF EndOfReplies, fileVars
<1>2. TypeOK /\ result[p] = "none" /\ ReceivingInv(p)
  BY <1>1, Zenon DEF CacheInv, HostedPull
<1>3. PiecesInv(p) /\ BegunInv(p) /\ \A s \in hosts[p] : HostInv(s, p)
  BY <1>2, Zenon DEF ReceivingInv
<1>4. \A s \in Server : ~Streaming(s, p) /\ s \notin Outstanding(p)
  BY <1>1, Zenon DEF Waiting, Holds, Streaming, Outstanding
<1>5. Ended(p) => gotLast[p]
  BY <1>1 DEF Ended
<1>6. gotAny[p] => gotLast[p]
  BY <1>3, <1>4, <1>5, Zenon DEF BegunInv
<1>7. CASE ~gotAny[p]
  <2>1. result' = [result EXCEPT ![p] = "PeerMissing"] /\ Goto(p, "remove")
    BY <1>7, Zenon DEF EndOfReplies
  <2>2. result'[p] = "PeerMissing" /\ pc'[p] = "remove"
    BY <1>2, <2>1, Zenon DEF Goto, TypeOK
  <2>3. hosts[p] = {} \/ digest[p] = EmptyDigest
    <3>1. ~Ended(p)
      BY <1>3, <1>5, <1>7, Zenon DEF PiecesInv
    <3>2. \A s \in hosts[p] : s \in Server
      BY Zenon DEF IndexTypes
    <3> QED
      BY <1>3, <1>4, <3>1, <3>2, Zenon DEF HostInv
  <2> QED
    BY <1>1, <2>2, <2>3, Zenon DEF HostedPull, EndsWell
<1>8. CASE gotAny[p]
  <2>1. Goto(p, "hash") /\ UNCHANGED result
    BY <1>6, <1>8, Zenon DEF EndOfReplies
  <2>2. pc'[p] = "hash" /\ result'[p] = "none"
    BY <1>2, <2>1, Zenon DEF Goto, TypeOK
  <2>3. fd[p] = partial[digest[p]] /\ fd[p] # NoFile /\ fd[p] \in Inode
    BY <1>1, <1>2, OfPuller, Zenon DEF PullInv, TypeOK
  <2>4. data[fd[p]] = Bytes(digest[p])
    <3> DEFINE c == data[fd[p]]
               t == Bytes(digest[p])
    <3>1. c \in Seq(Byte) /\ t \in Seq(Byte)
      BY <1>2, <1>3, <1>8, <2>3, Zenon DEF BegunInv, TypeOK
    <3>2. /\ DOMAIN c \subseteq DOMAIN t
          /\ \A b \in DOMAIN t : b \in DOMAIN c /\ c[b] = t[b]
      BY <1>3, <1>6, <1>8, Zenon DEF PiecesInv, Written
    <3> HIDE DEF c, t
    <3>3. /\ Len(c) \in Nat /\ Len(t) \in Nat
          /\ DOMAIN c = 1 .. Len(c) /\ DOMAIN t = 1 .. Len(t)
      BY <3>1, LenProperties, Zenon
    <3>4. Len(c) = Len(t)
      <4>1. \A m, n \in Nat : 1 .. m \subseteq 1 .. n => m <= n
        <5> SUFFICES ASSUME NEW m \in Nat, NEW n \in Nat, 1 .. m \subseteq 1 .. n
                     PROVE  m <= n
          BY Zenon
        <5>1. m > 0 => m \in 1 .. m
          OBVIOUS
        <5> QED
          BY <5>1
      <4>2. \A m, n \in Nat : m <= n /\ n <= m => m = n
        OBVIOUS
      <4>3. 1 .. Len(c) \subseteq 1 .. Len(t) /\ 1 .. Len(t) \subseteq 1 .. Len(c)
        BY <3>2, <3>3, Zenon
      <4> QED
        BY <3>3, <4>1, <4>2, <4>3, Zenon
    <3>5. c = t
      BY <3>1, <3>2, <3>3, <3>4, SeqEqual, Zenon
    <3> QED
      BY <3>5, Zenon DEF c, t
  <2>5. Blake3(data[partial[digest[p]]]) = digest[p]
    BY <1>3, <1>8, <2>3, <2>4, Zenon DEF BegunInv
  <2> QED
    BY <1>1, <2>2, <2>3, <2>5, Zenon DEF HostedPull, EndsWell
<1> QED
  BY <1>7, <1>8, Zenon

(* The steps of p itself.                                                  *)
LEMMA OwnHosted ==
  ASSUME CacheInv, SenderTypes, IndexTypes, \A s \in Server : InFile(s),
         NEW p \in Puller, Waiting(p), PullerStep(p) \/ Call(p),
         HostedPull(p), EndsWell(p)
  PROVE  HostedPull(p)' /\ EndsWell(p)'
<1>1. TypeOK
  BY Zenon DEF CacheInv
<1>2. CASE Call(p)
  <2>1. UNCHANGED hosts
    BY <1>2, Zenon DEF Call, Listening
  <2>2. ~Active(p) /\ ~gotAny[p] /\ ~gotLast[p]
    BY <1>2, Zenon DEF Call, PullCached, PullStart, HostedPull, Active
  <2>3. CASE \E d \in Digest : PullCached(p, d)
    <3>1. result'[p] = "ok" /\ UNCHANGED <<pc, gotAny, gotLast>>
      BY <1>1, <2>3, Zenon DEF PullCached, TypeOK
    <3> QED
      BY <2>2, <3>1, Zenon DEF HostedPull, EndsWell, Active
  <2>4. CASE \E d \in Digest : PullStart(p, d)
    <3>1. result'[p] = "none" /\ pc'[p] = "open" /\ UNCHANGED <<gotAny, gotLast>>
      BY <1>1, <2>4, Zenon DEF PullStart, Goto, TypeOK
    <3> QED
      BY <2>2, <3>1, Zenon DEF HostedPull, EndsWell
  <2> QED
    BY <1>2, <2>3, <2>4, Zenon DEF Call
<1>3. CASE Ask(p)
  <2>1. /\ pc[p] = "get" /\ pc'[p] = "recv" /\ UNCHANGED result
    BY <1>1, <1>3, Zenon DEF Ask, SendQuery, Goto, TypeOK
  <2>2. ReceivingInv(p)'
    BY <1>1, <1>3, AskReceiving, Zenon
  <2> QED
    BY <2>1, <2>2, Zenon DEF HostedPull, EndsWell
<1>4. CASE Finish(p)
  <2>1. /\ pc[p] = "recv" /\ UNCHANGED <<pullVars, replies, fileVars>>
        /\ UNCHANGED <<artefacts, inbox, stream, hosts>>
    BY <1>4, Zenon DEF Finish, Close, serverVars, queryVars
  <2>2. Untouched(p) /\ \A s \in Server : SameQuery(s, p)
    BY <2>1, Zenon
    DEF Untouched, SameQuery, Streaming, Holds, pullVars, fileVars
  <2>3. ReceivingInv(p)'
    BY <2>1, <2>2, ReceivingFrame, Zenon DEF HostedPull
  <2> QED
    BY <2>1, <2>3, Zenon DEF HostedPull, EndsWell, pullVars, fileVars
<1>5. CASE Advance(p)
  <2>0. UNCHANGED <<artefacts, hosts>>
    BY <1>5, Zenon DEF Advance, Listening, serverVars
  <2>1. ASSUME NEW r \in {"ok", result[p]}, Return(p, r)
        PROVE  HostedPull(p)' /\ EndsWell(p)'
    <3>1. /\ pc'[p] = "idle" /\ result'[p] = r /\ ~gotAny'[p] /\ ~gotLast'[p]
          /\ UNCHANGED digest
      BY <1>1, <2>1, Zenon DEF Return, TypeOK
    <3> QED
      BY <2>0, <3>1, Zenon DEF HostedPull, EndsWell
  <2>2. CASE OpenPartial(p)
    <3>1. /\ pc[p] = "open" /\ pc'[p] = "get"
          /\ UNCHANGED <<gotAny, gotLast, result>>
      BY <1>1, <2>2, Zenon DEF OpenPartial, Goto, TypeOK
    <3>2. data'[fd'[p]] = <<>>
      BY <1>1, <2>2 DEF OpenPartial, TypeOK
    <3> QED
      BY <3>1, <3>2, Zenon DEF HostedPull, EndsWell
  <2>3. CASE ReceiveChunk(p)
    <3>1. pc[p] = "recv" /\ UNCHANGED <<pc, result>>
      BY <2>3, Zenon DEF ReceiveChunk
    <3>2. UNCHANGED queryVars
      BY <1>5, <3>1, Zenon DEF Advance, Listening
    <3>3. ReceivingInv(p)'
      BY <2>0, <2>3, <3>1, <3>2, ReceiveReceiving, Zenon DEF HostedPull
    <3> QED
      BY <3>1, <3>3, Zenon DEF HostedPull, EndsWell
  <2>4. ~RejectReply(p)
    <3>1. SUFFICES ASSUME RejectReply(p) PROVE FALSE
      BY Zenon
    <3>2. /\ pc[p] = "recv" /\ replies[p] # <<>>
          /\ Head(replies[p]).kind = "chunk" => ~Verify(Head(replies[p]))
      BY <3>1, Zenon DEF RejectReply
    <3>3. 1 \in DOMAIN replies[p] /\ Head(replies[p]) = replies[p][1]
      BY <1>1, <3>2, TailIndices, SMTT(30) DEF TypeOK
    <3>4. Genuine(p, Head(replies[p]))
      BY <3>2, <3>3, Zenon DEF HostedPull, ReceivingInv, PiecesInv
    <3> QED
      BY <3>2, <3>4, Zenon DEF Genuine
  <2>5. CASE EndOfReplies(p)
    BY <2>0, <2>5, EndHosted, Zenon
  <2>6. CASE RemovePartial(p) \/ Rename(p)
    BY <2>1, <2>6, Zenon DEF RemovePartial, Rename
  <2>7. CASE HashOpen(p) \/ HashRead(p)
    <3>1. /\ pc[p] \in {"hash", "hashing"} /\ pc'[p] = "hashing"
          /\ UNCHANGED <<digest, result, partial, data>>
      BY <1>1, <2>7, Zenon DEF HashOpen, HashRead, Goto, fileVars, TypeOK
    <3> QED
      BY <2>0, <3>1, Zenon DEF HostedPull, EndsWell
  <2>8. CASE HashCompare(p)
    <3>1. pc[p] = "hashing" /\ Blake3(hashed[p]) = digest[p]
      BY <2>8, HashedAll, Zenon DEF HashCompare, HostedPull
    <3>2. pc'[p] = "rename" /\ UNCHANGED result
      BY <1>1, <2>8, <3>1, Zenon DEF HashCompare, Goto, TypeOK
    <3> QED
      BY <3>1, <3>2, Zenon DEF HostedPull, EndsWell
  <2>9. ~PartialGone(p)
    BY OfPuller, Zenon DEF PartialGone, HostedPull, PullInv
  <2> QED
    BY <1>5, <2>2, <2>3, <2>4, <2>5, <2>6, <2>7, <2>8, <2>9, Zenon
       DEF Advance, LocalStep
<1> QED
  BY <1>2, <1>3, <1>4, <1>5, Zenon DEF PullerStep

(* Nothing a sender does changes what the pulls have.                      *)
LEMMA ServerHosted ==
  ASSUME Volatile = {}, Faults = {}, TypeOK, SenderTypes, IndexTypes, FilesRight,
         NEW s \in Server, InFile(s), ServerStep(s) \/ ServerEvent(s),
         NEW p \in Puller, HostedPull(p), EndsWell(p)
  PROVE  HostedPull(p)' /\ EndsWell(p)'
<1>1. UNCHANGED <<pullVars, fileVars, hosts>>
  BY Zenon
  DEF ServerStep, ServerEvent, IgnoreQuery, TakeQuery, StreamChunk, StreamEof,
         Register, Serve, StreamFails, ServerCrash, ModifyFile, Arrive, vars
<1>2. pc[p] = "recv" => ReceivingInv(p)'
  BY ServerReceiving, Zenon DEF HostedPull
<1> QED
  BY <1>1, <1>2, Zenon DEF HostedPull, EndsWell, pullVars, fileVars

(* Without faults every step keeps the invariant of hosted pulls.          *)
LEMMA HostedStep ==
  ASSUME Volatile = {}, Faults = {}, CacheInv, TransferTypeOK, HostedInv,
         [TransferNext]_allVars
  PROVE  HostedInv'
<1>1. /\ TypeOK /\ SenderTypes /\ IndexTypes /\ FilesRight
      /\ \A p \in Puller : Waiting(p) /\ HostedPull(p) /\ EndsWell(p)
      /\ \A s \in Server : InFile(s)
  BY TypeParts, Zenon DEF HostedInv, HostedPullSucceeds, FilesRight, EndsWell
<1>2. CASE UNCHANGED allVars
  <2>1. UNCHANGED <<pullVars, replies, fileVars, artefacts, file, inbox, stream, hosts>>
    BY <1>2, Zenon DEF allVars, vars, chanVars, serverVars, queryVars
  <2>2. ASSUME NEW p \in Puller PROVE HostedPull(p)'
    <3>1. Untouched(p) /\ \A s \in Server : SameQuery(s, p)
      BY <2>1, Zenon
      DEF Untouched, SameQuery, Streaming, Holds, pullVars, fileVars
    <3>2. pc[p] = "recv" => ReceivingInv(p)'
      BY <1>1, <3>1, ReceivingFrame, Zenon DEF HostedPull
    <3> QED
      BY <1>1, <2>1, <3>2, Zenon DEF HostedPull, pullVars, fileVars
  <2> QED
    BY <2>1, <2>2, Zenon DEF HostedInv, HostedPullSucceeds, pullVars
<1>3. CASE TransferNext
  <2>1. UNCHANGED file
    BY <1>3, Zenon
    DEF TransferNext, ServerStep, ServerEvent, IgnoreQuery, TakeQuery,
                StreamChunk, StreamEof, Register, Serve, StreamFails,
                ServerCrash,
                ModifyFile, PullerStep, Advance, Ask, Finish, Call, PullFails,
                Timeout, ErrorReply, Listening, serverVars
  <2>2. ASSUME NEW q \in Puller PROVE HostedPull(q)' /\ EndsWell(q)'
    <3>1. ASSUME NEW s \in Server, ServerStep(s) \/ ServerEvent(s)
          PROVE  HostedPull(q)' /\ EndsWell(q)'
      BY <1>1, <3>1, ServerHosted, Zenon
    <3>2. ASSUME NEW p \in Puller, PullerStep(p) \/ Call(p)
          PROVE  HostedPull(q)' /\ EndsWell(q)'
      BY <1>1, <3>2, OwnHosted, OtherHosted, Zenon
    <3> QED
      BY <1>3, <3>1, <3>2, Zenon
      DEF TransferNext, PullFails, Timeout, ErrorReply
  <2> QED
    BY <1>1, <2>1, <2>2, Zenon
    DEF HostedInv, HostedPullSucceeds, FilesRight, EndsWell
<1> QED
  BY <1>2, <1>3, Zenon

(* At the start no pull has begun.                                         *)
LEMMA HostedInit == TransferInit => HostedInv
<1> SUFFICES ASSUME TransferInit PROVE HostedInv
  BY Zenon
<1>1. \A s \in Server, d \in Digest : Blake3(file[s][d]) = d
  BY Zenon DEF TransferInit
<1>2. \A p \in Puller : /\ pc[p] = "idle" /\ result[p] = "none"
                        /\ ~gotAny[p] /\ ~gotLast[p]
  BY Zenon DEF TransferInit, Init
<1> QED
  BY <1>1, <1>2, Zenon DEF HostedInv, HostedPull, HostedPullSucceeds

(* Files that do not change, replies that are not damaged and nothing that *)
(* fails: what every pull has, is being sent and can still expect at every *)
(* moment, for any number of senders, pulls and chunks in flight.          *)
THEOREM HostedInvariant ==
  ASSUME Volatile = {}, Faults = {}
  PROVE  SerialTransfer => []HostedInv
<1>1. TransferInit => CacheInv /\ TransferTypeOK /\ HostedInv
  BY TransferStart, CacheInvInit, TransferTypeInit, HostedInit, Zenon
<1>2. CacheInv /\ TransferTypeOK /\ HostedInv
        /\ [TransferNext /\ OnePullPerDigest']_allVars
      => (CacheInv /\ TransferTypeOK /\ HostedInv)'
  <2> SUFFICES ASSUME CacheInv, TransferTypeOK, HostedInv,
                      [TransferNext /\ OnePullPerDigest']_allVars
               PROVE  CacheInv' /\ TransferTypeOK' /\ HostedInv'
    BY Zenon
  <2>1. [TransferNext]_allVars /\ [SerialNext]_vars
    BY TypeParts, SerialStep, Zenon
  <2> QED
    BY <2>1, CacheInvStep, TransferTypeStep, HostedStep, Zenon
<1> QED
  BY <1>1, <1>2, PTL DEF SerialTransfer

(* pull_with_options and stream_file_chunks agree on how a file is sent: a *)
(* pull of a digest somebody hosts never ends with an error, however the   *)
(* chunks of the senders mix, whatever their sizes and whichever sender    *)
(* finishes first.  Only the empty file seems to have no host.             *)
THEOREM HostedPullsSucceed ==
  ASSUME Volatile = {}, Faults = {}
  PROVE  SerialTransfer => []HostedPullSucceeds
<1>1. HostedInv => HostedPullSucceeds
  BY Zenon DEF HostedInv
<1> QED
  BY <1>1, HostedInvariant, PTL
=============================================================================

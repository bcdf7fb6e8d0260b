--------------------------- MODULE ReceivingProofs --------------------------
(* Lemmas about a pull of Transfer that is receiving: what it has got, is  *)
(* being sent and can still expect (ReceivingInv), at every step of its    *)
(* own, of a sender and of another pull.  They rest on nothing that        *)
(* PullProofs shows.                                                       *)
EXTENDS Transfer, SequenceTheorems, TLAPS

(* What has to be known of the senders: types only.                        *)
SenderTypes ==
  /\ file \in [Server -> [Digest -> Content]]
  /\ inbox \in [Server -> Seq(Query)]
  /\ stream \in [Server -> [to : Puller \cup {Nobody}, digest : Digest,
                            busy : BOOLEAN, offset : Nat, total : Nat]]

(* What TransferTypeOK says beyond SenderTypes: the types of the index and *)
(* the history, who can still be waiting for a sender, and how far a       *)
(* stream has come.                                                        *)
IndexTypes ==
  /\ artefacts \in [Server -> SUBSET Digest]
  /\ serving \in [Server -> BOOLEAN]
  /\ hosts \in [Puller -> SUBSET Server]

Holds(s, p) ==
  \/ stream[s].busy /\ stream[s].to = p
  \/ \E i \in DOMAIN inbox[s] : inbox[s][i].to = p

Waiting(p) == (\E s \in Server : Holds(s, p)) => pc[p] = "recv" /\ ~closed[p]

InFile(s) ==
  stream[s].busy => stream[s].total = 0 \/ stream[s].offset < stream[s].total

(* One read returns the next bytes of the file, at least one of them.      *)
NextBytes(c, o, n, bytes) ==
  /\ Len(c) \in Nat /\ DOMAIN c = 1 .. Len(c) /\ c # <<>>
  /\ n \in 1 .. CHUNK_SIZE /\ o + n <= Len(c)
  /\ bytes \in [1 .. n -> Byte] /\ Len(bytes) = n
  /\ \A j \in 1 .. n : bytes[j] = c[o + j]

(* What one read of stream_file_chunks yields.                             *)
LEMMA ReadBytes ==
  ASSUME NEW c \in Seq(Byte), NEW o \in Nat, o < Len(c),
         NEW n \in ReadSizes(Len(c) - o)
  PROVE  NextBytes(c, o, n, SubSeq(c, o + 1, o + n))
<1> DEFINE bytes == SubSeq(c, o + 1, o + n)
<1>1. Len(c) \in Nat /\ DOMAIN c = 1 .. Len(c) /\ c # <<>>
  BY LenProperties, EmptySeq
<1>2. n \in 1 .. CHUNK_SIZE /\ o + n <= Len(c)
  BY <1>1, PullAssumption DEF ReadSizes
<1>3. n \in Nat /\ \A i \in o + 1 .. o + n : c[i] \in Byte
  BY <1>1, <1>2, PullAssumption, ElementOfSeq
<1>4. /\ bytes \in Seq(Byte) /\ Len(bytes) = n
      /\ \A i \in 1 .. (o + n) - (o + 1) + 1 : bytes[i] = c[(o + 1) + i - 1]
  BY <1>2, <1>3, SubSeqProperties
<1>5. bytes \in [1 .. n -> Byte]
  BY <1>4, LenProperties, Zenon
<1>6. \A j \in 1 .. n : bytes[j] = c[o + j]
  BY <1>3, <1>4
<1> QED
  BY <1>1, <1>2, <1>4, <1>5, <1>6, Zenon DEF NextBytes

(* Where the elements of a sequence are after its first was taken, and     *)
(* after one was added.                                                    *)
LEMMA TailIndices ==
  ASSUME NEW S, NEW q \in Seq(S), q # <<>>
  PROVE  /\ Len(q) \in Nat /\ Len(Tail(q)) = Len(q) - 1
         /\ DOMAIN q = 1 .. Len(q) /\ DOMAIN Tail(q) = 1 .. Len(q) - 1
         /\ 1 \in DOMAIN q /\ Head(q) = q[1]
         /\ \A i \in DOMAIN Tail(q) : i + 1 \in DOMAIN q /\ Tail(q)[i] = q[i + 1]
         /\ \A j \in DOMAIN q : j # 1 =>
              j - 1 \in DOMAIN Tail(q) /\ Tail(q)[j - 1] = q[j]
<1>1. /\ Tail(q) \in Seq(S) /\ Len(Tail(q)) = Len(q) - 1
      /\ \A j \in 1 .. Len(Tail(q)) : Tail(q)[j] = q[j + 1]
  BY HeadTailProperties, Zenon
<1>2. /\ Len(q) \in Nat \ {0} /\ DOMAIN q = 1 .. Len(q)
      /\ DOMAIN Tail(q) = 1 .. Len(q) - 1
  BY <1>1, LenProperties, EmptySeq, Zenon
<1>3. Head(q) = q[1]
  OBVIOUS
<1> QED
  BY <1>1, <1>2, <1>3

(* The indices of a sequence with one element appended.                    *)
LEMMA AppendIndices ==
  ASSUME NEW S, NEW q \in Seq(S), NEW e \in S
  PROVE  /\ Len(q) \in Nat /\ DOMAIN q = 1 .. Len(q)
         /\ Len(Append(q, e)) = Len(q) + 1
         /\ DOMAIN Append(q, e) = 1 .. Len(q) + 1
         /\ \A i \in DOMAIN q : i \in DOMAIN Append(q, e) /\ Append(q, e)[i] = q[i]
         /\ Append(q, e)[Len(q) + 1] = e
         /\ \A i \in DOMAIN Append(q, e) :
              i \in DOMAIN q \/ (i = Len(q) + 1 /\ Append(q, e)[i] = e)
<1>1. /\ Append(q, e) \in Seq(S) /\ Len(Append(q, e)) = Len(q) + 1
      /\ \A i \in 1 .. Len(q) : Append(q, e)[i] = q[i]
      /\ Append(q, e)[Len(q) + 1] = e
  BY AppendProperties
<1>2. /\ Len(q) \in Nat /\ DOMAIN q = 1 .. Len(q)
      /\ DOMAIN Append(q, e) = 1 .. Len(q) + 1
  BY <1>1, LenProperties, Zenon
<1> QED
  BY <1>1, <1>2

-----------------------------------------------------------------------------
(* A pull that is receiving.  What it has received, what is on its way to  *)
(* it and who is to send the rest is kept by every step that does not      *)
(* touch it.                                                               *)
Untouched(q) ==
  /\ digest'[q] = digest[q] /\ fd'[q] = fd[q] /\ replies'[q] = replies[q]
  /\ gotAny'[q] = gotAny[q] /\ gotLast'[q] = gotLast[q]
  /\ hosts'[q] = hosts[q] /\ data'[fd[q]] = data[fd[q]]

SameQuery(s, q) ==
  /\ artefacts[s] \subseteq artefacts'[s]
  /\ \A i \in DOMAIN inbox'[s] : inbox'[s][i].to = q =>
       \E j \in DOMAIN inbox[s] :
         inbox[s][j].to = q /\ inbox[s][j].digest = inbox'[s][i].digest
  /\ s \in hosts[q] /\ Holds(s, q) => Holds(s, q)'
  /\ Streaming(s, q)' <=> Streaming(s, q)
  /\ Streaming(s, q) => /\ stream'[s].digest = stream[s].digest
                        /\ stream'[s].total = stream[s].total
                        /\ stream'[s].offset = stream[s].offset

(* A step that touches neither a pull nor the queries for it keeps its     *)
(* invariant.                                                              *)
LEMMA ReceivingFrame ==
  ASSUME NEW q \in Puller, ReceivingInv(q), IndexTypes, Untouched(q),
         \A s \in Server : SameQuery(s, q)
  PROVE  ReceivingInv(q)'
<1>1. /\ \A b : Written(q, b)' <=> Written(q, b)
      /\ \A b, n : Delivered(q, b, n)' <=> Delivered(q, b, n)
      /\ Ended(q)' <=> Ended(q)
  BY Zenon DEF Untouched, Written, Delivered, Ended
<1>2. PiecesInv(q)'
  <2>1. PiecesInv(q)
    BY Zenon DEF ReceivingInv
  <2>2. \A r : Genuine(q, r)' <=> Genuine(q, r)
    BY Zenon DEF Untouched, Genuine
  <2> QED
    BY <1>1, <2>1, <2>2, Zenon DEF PiecesInv, Untouched
<1>3. BegunInv(q)'
  <2>1. BegunInv(q)
    BY Zenon DEF ReceivingInv
  <2> QED
    BY <1>1, <2>1, Zenon DEF BegunInv, Untouched, SameQuery
<1>4. ASSUME NEW s \in Server PROVE SenderInv(s, q)'
  <2>1. SenderInv(s, q) /\ SameQuery(s, q)
    BY Zenon DEF ReceivingInv
  <2> QED
    BY <1>1, <2>1, Zenon DEF SenderInv, SameQuery, Untouched
<1>5. ASSUME NEW s \in hosts'[q] PROVE HostInv(s, q)'
  <2>1. s \in Server /\ s \in hosts[q]
    BY <1>5, Zenon DEF IndexTypes, Untouched
  <2>2. HostInv(s, q) /\ SameQuery(s, q)
    BY <2>1, Zenon DEF ReceivingInv
  <2>3. /\ s \in Outstanding(q) <=> Holds(s, q)
        /\ (s \in Outstanding(q))' <=> Holds(s, q)'
    BY <2>1, Zenon DEF Outstanding, Holds
  <2> QED
    BY <1>1, <2>1, <2>2, <2>3, Zenon DEF HostInv, SameQuery, Untouched
<1> QED
  BY <1>2, <1>3, <1>4, <1>5, Zenon DEF ReceivingInv

(* The files senders offer are the files their digests name.               *)
FilesRight == \A s \in Server, d \in Digest : Blake3(file[s][d]) = d

(* A sender that hosts a digest has its bytes, while no file changes.      *)
LEMMA OfferedBytes ==
  ASSUME SenderTypes, FilesRight, NEW s \in Server, NEW d \in Digest
  PROVE  /\ Bytes(d) = file[s][d] /\ Blake3(Bytes(d)) = d
         /\ Bytes(d) \in Seq(Byte) /\ Len(Bytes(d)) \in Nat
         /\ DOMAIN Bytes(d) = 1 .. Len(Bytes(d))
<1>1. Blake3(file[s][d]) = d
  BY Zenon DEF FilesRight
<1>2. Bytes(d) = file[s][d]
  BY <1>1 DEF Bytes, Blake3
<1>3. Bytes(d) \in Seq(Byte)
  BY <1>2, TransferAssumption DEF SenderTypes
<1> QED
  BY <1>1, <1>2, <1>3, LenProperties, Zenon

(* A host does not ignore the query it was asked.                          *)
LEMMA IgnoreReceiving ==
  ASSUME TypeOK, SenderTypes, IndexTypes, NEW s \in Server, IgnoreQuery(s),
         NEW p \in Puller, ReceivingInv(p)
  PROVE  ReceivingInv(p)'
<1>1. /\ inbox' = [inbox EXCEPT ![s] = Tail(inbox[s])] /\ inbox[s] # <<>>
      /\ ~stream[s].busy /\ Head(inbox[s]).digest \notin artefacts[s]
      /\ UNCHANGED <<vars, stream, artefacts, hosts>>
  BY Zenon DEF IgnoreQuery, serverVars
<1>2. /\ inbox'[s] = Tail(inbox[s]) /\ inbox[s] \in Seq(Query)
      /\ \A t \in Server : t # s => inbox'[t] = inbox[t]
  BY <1>1, Zenon DEF SenderTypes
<1>3. Untouched(p)
  BY <1>1, Zenon DEF Untouched, vars, pullVars, chanVars, fileVars
<1>4. ASSUME s \in hosts[p], Holds(s, p) PROVE Holds(s, p)'
  <2>1. Head(inbox[s]).to # p
    <3>1. HostInv(s, p) /\ SenderInv(s, p)
      BY <1>4, Zenon DEF ReceivingInv
    <3>2. 1 \in DOMAIN inbox[s] /\ Head(inbox[s]) = inbox[s][1]
      BY <1>1, <1>2, TailIndices, Zenon
    <3> QED
      BY <1>1, <3>1, <3>2, Zenon DEF HostInv, SenderInv
  <2>2. PICK j \in DOMAIN inbox[s] : inbox[s][j].to = p
    BY <1>1, <1>4, Zenon DEF Holds
  <2>3. j # 1 /\ j - 1 \in DOMAIN Tail(inbox[s]) /\ Tail(inbox[s])[j - 1] = inbox[s][j]
    BY <1>1, <1>2, <2>1, <2>2, TailIndices, Zenon
  <2> QED
    BY <1>2, <2>2, <2>3, Zenon DEF Holds
<1>5. ASSUME NEW t \in Server PROVE SameQuery(t, p)
  <2>1. CASE t = s
    <3>1. \A i \in DOMAIN Tail(inbox[s]) :
            i + 1 \in DOMAIN inbox[s] /\ Tail(inbox[s])[i] = inbox[s][i + 1]
      BY <1>1, <1>2, TailIndices
    <3>2. ASSUME NEW i \in DOMAIN inbox'[s], inbox'[s][i].to = p
          PROVE  \E j \in DOMAIN inbox[s] :
                   inbox[s][j].to = p /\ inbox[s][j].digest = inbox'[s][i].digest
      BY <1>2, <3>1, <3>2, Zenon
    <3> QED
      BY <1>1, <1>4, <2>1, <3>2, ZenonT(30) DEF SameQuery, Streaming
  <2>2. CASE t # s
    BY <1>1, <1>2, <2>2, Zenon DEF SameQuery, Streaming, Holds
  <2> QED
    BY <2>1, <2>2, Zenon
<1> QED
  BY <1>3, <1>5, ReceivingFrame, Zenon

(* A query of p that is taken up begins a stream for p, of the right file. *)
LEMMA TakeReceiving ==
  ASSUME TypeOK, SenderTypes, IndexTypes, FilesRight, NEW s \in Server,
         TakeQuery(s), NEW p \in Puller, ReceivingInv(p)
  PROVE  ReceivingInv(p)'
<1> DEFINE q == Head(inbox[s])
           new == [to |-> q.to, digest |-> q.digest, busy |-> TRUE,
                   offset |-> 0, total |-> Len(file[s][q.digest])]
<1>1. /\ inbox' = [inbox EXCEPT ![s] = Tail(inbox[s])] /\ inbox[s] # <<>>
      /\ stream' = [stream EXCEPT ![s] = new] /\ ~stream[s].busy
      /\ UNCHANGED <<vars, artefacts, hosts>>
  BY Zenon DEF TakeQuery, serverVars
<1>2. /\ new.to = q.to /\ new.digest = q.digest /\ new.offset = 0 /\ new.busy
      /\ new.total = Len(file[s][q.digest])
  BY Zenon
<1>3. /\ q = inbox[s][1] /\ 1 \in DOMAIN inbox[s]
      /\ \A i \in DOMAIN Tail(inbox[s]) :
           i + 1 \in DOMAIN inbox[s] /\ Tail(inbox[s])[i] = inbox[s][i + 1]
      /\ \A j \in DOMAIN inbox[s] : j # 1 =>
           j - 1 \in DOMAIN Tail(inbox[s]) /\ Tail(inbox[s])[j - 1] = inbox[s][j]
  BY <1>1, TailIndices DEF SenderTypes
<1> HIDE DEF q, new
<1>4. /\ inbox'[s] = Tail(inbox[s]) /\ stream'[s] = new
      /\ \A t \in Server : t # s => inbox'[t] = inbox[t] /\ stream'[t] = stream[t]
  BY <1>1, Zenon DEF SenderTypes
<1>5. Untouched(p)
  BY <1>1, Zenon DEF Untouched, vars, pullVars, chanVars, fileVars
<1>6. CASE q.to # p
  <2>1. ASSUME NEW t \in Server PROVE SameQuery(t, p)
    <3>1. CASE t = s
      <4>1. ~Streaming(s, p) /\ ~Streaming(s, p)'
        BY <1>1, <1>2, <1>4, <1>6, Zenon DEF Streaming
      <4>2. ASSUME Holds(s, p) PROVE Holds(s, p)'
        <5>1. PICK j \in DOMAIN inbox[s] : inbox[s][j].to = p
          BY <1>1, <4>2, Zenon DEF Holds
        <5>2. j - 1 \in DOMAIN inbox'[s] /\ inbox'[s][j - 1] = inbox[s][j]
          BY <1>3, <1>4, <1>6, <5>1, Zenon
        <5> QED
          BY <5>1, <5>2, Zenon DEF Holds
      <4>3. ASSUME NEW i \in DOMAIN inbox'[s], inbox'[s][i].to = p
            PROVE  \E j \in DOMAIN inbox[s] :
                     inbox[s][j].to = p /\ inbox[s][j].digest = inbox'[s][i].digest
        <5>1. i + 1 \in DOMAIN inbox[s] /\ inbox'[s][i] = inbox[s][i + 1]
          BY <1>3, <1>4, Zenon
        <5> QED
          BY <4>3, <5>1, Zenon
      <4> QED
        BY <1>1, <3>1, <4>1, <4>2, <4>3, ZenonT(30) DEF SameQuery
    <3>2. CASE t # s
      BY <1>1, <1>4, <3>2, Zenon DEF SameQuery, Streaming, Holds
    <3> QED
      BY <3>1, <3>2, Zenon
  <2> QED
    BY <1>5, <2>1, ReceivingFrame, Zenon
<1>7. CASE q.to = p
  <2>1. /\ \A b, n : Delivered(p, b, n)' <=> Delivered(p, b, n)
        /\ Ended(p)' <=> Ended(p)
    BY <1>5, Zenon DEF Untouched, Written, Delivered, Ended
  <2>2. PiecesInv(p)' /\ BegunInv(p)'
    <3>1. PiecesInv(p) /\ BegunInv(p)
      BY Zenon DEF ReceivingInv
    <3>2. PiecesInv(p)'
      BY <1>1, <3>1, Zenon
      DEF PiecesInv, Genuine, Delivered, Written, vars, pullVars,
                        chanVars, fileVars
    <3>3. \A t \in Server : Streaming(t, p) => Streaming(t, p)'
      BY <1>1, <1>4, Zenon DEF Streaming
    <3> QED
      BY <1>5, <2>1, <3>1, <3>2, <3>3, Zenon DEF BegunInv, Untouched
  <2>3. ASSUME NEW t \in Server PROVE SenderInv(t, p)'
    <3>1. SenderInv(t, p)
      BY Zenon DEF ReceivingInv
    <3>2. CASE t = s
      <4>1. q.digest = digest[p] /\ digest[p] \in Digest
        BY <1>3, <1>7, <3>1, <3>2, Zenon DEF SenderInv, TypeOK
      <4>2. new.total = Len(Bytes(digest[p]))
        BY <1>2, <4>1, OfferedBytes, Zenon
      <4>3. \A i \in DOMAIN inbox'[s] :
              inbox'[s][i].to = p => inbox'[s][i].digest = digest[p]
        BY <1>3, <1>4, <3>1, <3>2 DEF SenderInv
      <4>4. \A b \in 1 .. 0 : FALSE
        OBVIOUS
      <4> QED
        BY <1>2, <1>4, <1>5, <3>2, <4>1, <4>2, <4>3, <4>4, Zenon
        DEF SenderInv, Untouched
    <3>3. CASE t # s
      BY <1>4, <1>5, <2>1, <3>1, <3>3, Zenon
      DEF SenderInv, Untouched, Streaming
    <3> QED
      BY <3>2, <3>3, Zenon
  <2>4. ASSUME NEW t \in hosts'[p] PROVE HostInv(t, p)'
    <3>1. t \in Server /\ HostInv(t, p)
      BY <1>5, <2>4, Zenon DEF IndexTypes, Untouched, ReceivingInv
    <3>2. t \in Outstanding(p) => (t \in Outstanding(p))'
      BY <1>2, <1>4, <1>7, <3>1, Zenon DEF Outstanding
    <3> QED
      BY <1>1, <1>5, <2>1, <3>1, <3>2, Zenon DEF HostInv, Untouched
  <2> QED
    BY <2>2, <2>3, <2>4, Zenon DEF ReceivingInv
<1> QED
  BY <1>6, <1>7, Zenon

(* A chunk sent to p is an intact piece of the file, and what the sender   *)
(* has read so far, the new chunk included, is delivered.                  *)
LEMMA ChunkReceiving ==
  ASSUME Faults = {}, TypeOK, SenderTypes, IndexTypes, FilesRight,
         NEW s \in Server, StreamChunk(s), NEW p \in Puller, ReceivingInv(p),
         pc[p] = "recv"
  PROVE  ReceivingInv(p)'
<1> DEFINE q == stream[s]
           content == file[s][q.digest]
<1>1. /\ q.busy /\ q.offset < Len(content)
      /\ q.digest \in Digest /\ q.offset \in Nat /\ q.total \in Nat
      /\ UNCHANGED <<artefacts, inbox, hosts>>
  BY Zenon DEF StreamChunk, SenderTypes, serverVars
<1>2. PICK n \in ReadSizes(Len(content) - q.offset) :
        LET bytes == SubSeq(content, q.offset + 1, q.offset + n)
            last == q.offset + n >= q.total
        IN
        /\ stream' = [stream EXCEPT ![s] =
             IF last THEN Idle ELSE [q EXCEPT !.offset = @ + n]]
        /\ IF q.to = Nobody
           THEN UNCHANGED vars
           ELSE \E arrived \in Transit(bytes) :
                  Arrive(q.to, [kind |-> "chunk", offset |-> q.offset,
                                payload |-> arrived, last |-> last,
                                chunk_hash |-> Blake3(bytes)])
  BY Zenon DEF StreamChunk
<1> DEFINE bytes == SubSeq(content, q.offset + 1, q.offset + n)
           last == q.offset + n >= q.total
           next == IF last THEN Idle ELSE [q EXCEPT !.offset = @ + n]
           r == [kind |-> "chunk", offset |-> q.offset, payload |-> bytes,
                 last |-> last, chunk_hash |-> Blake3(bytes)]
<1>3. IF q.to = Nobody THEN UNCHANGED vars ELSE Arrive(q.to, r)
  BY <1>2, Zenon DEF Transit
<1>4. /\ stream'[s] = next
      /\ \A t \in Server : t # s => stream'[t] = stream[t]
  BY <1>2, Zenon DEF SenderTypes
<1>5. /\ last => ~next.busy
      /\ ~last => /\ next.busy /\ next.to = q.to /\ next.digest = q.digest
                  /\ next.total = q.total /\ next.offset = q.offset + n
  BY <1>1, Zenon DEF Idle, SenderTypes
<1>6. /\ content \in Seq(Byte) /\ Len(content) \in Nat
      /\ DOMAIN content = 1 .. Len(content) /\ content # <<>>
      /\ n \in Nat /\ n >= 1 /\ q.offset + n <= Len(content)
      /\ Len(bytes) = n /\ DOMAIN bytes = 1 .. n
      /\ \A j \in 1 .. n : bytes[j] = content[q.offset + j]
  <2>1. content \in Seq(Byte) /\ n \in ReadSizes(Len(content) - q.offset)
    BY <1>1, <1>2, TransferAssumption DEF SenderTypes
  <2> HIDE DEF q, content
  <2>2. NextBytes(content, q.offset, n, bytes)
    BY <1>1, <2>1, ReadBytes, Zenon
  <2> HIDE DEF bytes
  <2> QED
    BY <2>1, <2>2, PullAssumption DEF NextBytes
<1>8. CASE q.to # p
  <2>1. Untouched(p)
    <3>1. CASE q.to = Nobody
      BY <1>1, <1>3, <3>1, Zenon
      DEF Untouched, vars, pullVars, chanVars, fileVars
    <3>2. CASE q.to # Nobody
      <4>1. /\ replies' = [replies EXCEPT ![q.to] = Append(@, r)]
            /\ UNCHANGED <<digest, fd, gotAny, gotLast, data, hosts>>
        BY <1>1, <1>3, <3>2, Zenon DEF Arrive, pullVars, fileVars
      <4> QED
        BY <1>8, <4>1, Zenon DEF Untouched, TypeOK
    <3> QED
      BY <3>1, <3>2, Zenon
  <2>2. ~Streaming(s, p) /\ ~Streaming(s, p)'
    BY <1>4, <1>5, <1>8, Zenon DEF Streaming
  <2> HIDE DEF q, content
  <2>3. ASSUME NEW t \in Server PROVE SameQuery(t, p)
    <3>1. CASE t = s
      BY <1>1, <2>2, <3>1, Zenon DEF SameQuery, Holds, Streaming
    <3>2. CASE t # s
      BY <1>1, <1>4, <3>2, Zenon DEF SameQuery, Holds, Streaming
    <3> QED
      BY <3>1, <3>2, Zenon
  <2> QED
    BY <2>1, <2>3, ReceivingFrame, Zenon
<1>9. CASE q.to = p
  <2>0. PICK L \in Nat : L = Len(replies[p])
    BY LenProperties, Zenon DEF TypeOK
  <2>1. /\ Streaming(s, p) /\ PiecesInv(p) /\ BegunInv(p)
        /\ \A t \in Server : SenderInv(t, p)
        /\ \A t \in hosts[p] : HostInv(t, p)
    BY <1>1, <1>9, Zenon DEF Streaming, ReceivingInv
  <2>2. /\ q.digest = digest[p] /\ q.total = Len(Bytes(digest[p]))
        /\ \A b \in 1 .. q.offset : Delivered(p, b, L)
    BY <2>0, <2>1, Zenon DEF SenderInv
  <2>3. Bytes(digest[p]) = content /\ Blake3(content) = digest[p]
    <3>1. Bytes(q.digest) = content /\ Blake3(Bytes(q.digest)) = q.digest
      BY <1>1, OfferedBytes, Zenon
    <3> QED
      BY <2>2, <3>1, Zenon
  <2>4. /\ replies' = [replies EXCEPT ![p] = Append(replies[p], r)]
        /\ UNCHANGED <<digest, fd, gotAny, gotLast, data, hosts, artefacts>>
    <3>1. q.to # Nobody
      BY <1>9, TransferAssumption, Zenon
    <3>2. Arrive(p, r)
      BY <1>3, <1>9, <3>1, Zenon
    <3> QED
      BY <1>1, <3>2, Zenon DEF Arrive, pullVars, fileVars
  <2>5. /\ r.offset = q.offset /\ r.payload = bytes /\ (r.last <=> last)
        /\ r.kind = "chunk" /\ r.chunk_hash = Blake3(bytes)
    BY Zenon
  <2> HIDE DEF q, content, bytes, last, next, r
  <2>6. /\ DOMAIN replies[p] = 1 .. L
        /\ Len(replies'[p]) = L + 1 /\ DOMAIN replies'[p] = 1 .. L + 1
        /\ \A i \in 1 .. L : replies'[p][i] = replies[p][i]
        /\ replies'[p][L + 1] = r
    <3>1. replies'[p] = Append(replies[p], r) /\ replies[p] \in Seq(Reply)
      BY <2>4, Zenon DEF TypeOK
    <3>2. replies[p] \in Seq(Reply \cup {r}) /\ r \in Reply \cup {r}
      BY <3>1, SeqMonotonic, Zenon
    <3> QED
      BY <2>0, <3>1, <3>2, AppendIndices, SMTT(30)
  <2>7. /\ \A b : Written(p, b)' <=> Written(p, b)
        /\ \A b : \A i \in 0 .. L : Delivered(p, b, i)' <=> Delivered(p, b, i)
    <3>1. \A b : Written(p, b)' <=> Written(p, b)
      BY <2>4, Zenon DEF Written
    <3>2. \A i \in 0 .. L : \A j \in 1 .. i : replies'[p][j] = replies[p][j]
      BY <2>6
    <3> QED
      BY <3>1, <3>2, Zenon DEF Delivered
  <2>8. \A b : Delivered(p, b, L) => Delivered(p, b, L + 1)'
    BY <2>6, <2>7 DEF Delivered
  <2>9. ASSUME NEW b \in 1 .. q.offset + n PROVE Delivered(p, b, L + 1)'
    <3>1. CASE b <= q.offset
      BY <1>1, <1>6, <2>2, <2>8, <3>1
    <3>2. CASE b > q.offset
      <4>1. Brings(r, b)
        BY <1>6, <2>5, <3>2 DEF Brings
      <4>2. Brings(replies'[p][L + 1], b) /\ L + 1 \in 1 .. L + 1
        BY <2>6, <4>1
      <4> QED
        BY <4>2, Zenon DEF Delivered
    <3> QED
      BY <1>1, <1>6, <3>1, <3>2
  <2>10. PiecesInv(p)'
    <3>1. \A x : Genuine(p, x)' <=> Genuine(p, x)
      BY <2>4, Zenon DEF Genuine
    <3>2. Genuine(p, r)
      <4>1. Verify(r)
        BY <2>5, Zenon DEF Verify
      <4>2. \A j \in 1 .. n : q.offset + j \in 1 .. Len(content)
        BY <1>1, <1>6
      <4> QED
        BY <1>6, <2>3, <2>5, <4>1, <4>2, Zenon DEF Genuine
    <3>3. ASSUME NEW i \in DOMAIN replies'[p]
          PROVE  /\ Genuine(p, replies'[p][i])
                 /\ replies'[p][i].last =>
                      \A b \in DOMAIN content : Delivered(p, b, i)'
      <4>1. CASE i \in 1 .. L
        <5>1. i \in DOMAIN replies[p] /\ i \in 0 .. L /\ replies'[p][i] = replies[p][i]
          BY <2>6, <4>1
        <5> QED
          BY <2>1, <2>3, <2>7, <5>1, Zenon DEF PiecesInv
      <4>2. CASE i = L + 1
        <5>1. last => \A b \in DOMAIN content : b \in 1 .. q.offset + n
          BY <1>1, <1>6, <2>2, <2>3, SMTT(30) DEF last
        <5> QED
          BY <2>5, <2>6, <2>9, <3>2, <4>2, <5>1, Zenon
      <4> QED
        BY <2>6, <4>1, <4>2
    <3> QED
      BY <2>1, <2>3, <2>4, <2>7, <3>1, <3>3, Zenon DEF PiecesInv
  <2>11. ASSUME NEW t \in Server PROVE SenderInv(t, p)'
    <3>1. SenderInv(t, p)
      BY <2>1, Zenon
    <3>2. CASE t = s
      BY <1>1, <1>4, <1>5, <2>2, <2>4, <2>6, <2>9, <3>1, <3>2, Zenon
         DEF SenderInv, Streaming
    <3>3. CASE t # s
      BY <1>1, <1>4, <2>4, <2>6, <2>8, <3>1, <3>3 DEF SenderInv, Streaming
    <3> QED
      BY <3>2, <3>3, Zenon
  <2>12. /\ Ended(p) => Ended(p)'
         /\ last => Ended(p)'
         /\ ~last => Streaming(s, p)'
    <3>1. Ended(p) => Ended(p)'
      BY <2>4, <2>6, SMTT(30) DEF Ended
    <3>2. last => Ended(p)'
      <4>1. L + 1 \in DOMAIN replies'[p] /\ (last => replies'[p][L + 1].last)
        BY <2>5, <2>6
      <4> QED
        BY <4>1, Zenon DEF Ended
    <3>3. ~last => Streaming(s, p)'
      BY <1>4, <1>5, <1>9, Zenon DEF Streaming
    <3> QED
      BY <3>1, <3>2, <3>3, Zenon
  <2>13. BegunInv(p)'
    BY <1>6, <2>3, <2>4, <2>12, Zenon DEF BegunInv
  <2>14. ASSUME NEW t \in hosts'[p] PROVE HostInv(t, p)'
    <3>1. t \in Server /\ HostInv(t, p)
      BY <2>1, <2>4, <2>14, Zenon DEF IndexTypes
    <3>2. t \in Outstanding(p) <=> Holds(t, p)
      BY <3>1, Zenon DEF Outstanding, Holds
    <3>3. (t \in Outstanding(p))' <=> Holds(t, p)'
      BY <3>1, Zenon DEF Outstanding, Holds
    <3>4. t # s /\ Holds(t, p) => Holds(t, p)'
      BY <1>1, <1>4, <3>1, Zenon DEF Holds
    <3>5. Streaming(s, p)' => Holds(s, p)'
      BY Zenon DEF Streaming, Holds
    <3> QED
      BY <2>4, <2>12, <3>1, <3>2, <3>3, <3>4, <3>5, Zenon DEF HostInv
  <2> QED
    BY <2>10, <2>11, <2>13, <2>14, Zenon DEF ReceivingInv
<1> QED
  BY <1>8, <1>9, Zenon

(* A stream that ends without a last chunk was that of the empty file.     *)
LEMMA EofReceiving ==
  ASSUME TypeOK, SenderTypes, IndexTypes, FilesRight, NEW s \in Server,
         InFile(s), StreamEof(s), NEW p \in Puller, ReceivingInv(p)
  PROVE  ReceivingInv(p)'
<1>1. /\ stream[s].busy /\ stream[s].offset >= Len(file[s][stream[s].digest])
      /\ stream[s].digest \in Digest /\ stream[s].offset \in Nat
      /\ stream[s].total \in Nat
      /\ UNCHANGED <<vars, artefacts, inbox, hosts>>
  BY Zenon DEF StreamEof, SenderTypes, serverVars
<1>2. /\ ~stream'[s].busy
      /\ \A t \in Server : t # s => stream'[t] = stream[t]
  BY Zenon DEF StreamEof, SenderTypes, Idle
<1>3. Untouched(p)
  BY <1>1, Zenon DEF Untouched, vars, pullVars, chanVars, fileVars
<1>4. CASE stream[s].to # p
  <2>1. ASSUME NEW t \in Server PROVE SameQuery(t, p)
    <3>1. CASE t = s
      BY <1>1, <1>2, <1>4, <3>1, Zenon DEF SameQuery, Holds, Streaming
    <3>2. CASE t # s
      BY <1>1, <1>2, <3>2, Zenon DEF SameQuery, Holds, Streaming
    <3> QED
      BY <3>1, <3>2, Zenon
  <2> QED
    BY <1>3, <2>1, ReceivingFrame, Zenon
<1>5. CASE stream[s].to = p
  <2>1. /\ PiecesInv(p) /\ BegunInv(p)
        /\ \A t \in Server : SenderInv(t, p)
        /\ \A t \in hosts[p] : HostInv(t, p)
    BY Zenon DEF ReceivingInv
  <2>2. /\ stream[s].digest = digest[p]
        /\ stream[s].total = Len(Bytes(digest[p]))
    BY <1>1, <1>5, <2>1, Zenon DEF SenderInv, Streaming
  <2>3. Bytes(digest[p]) = <<>> /\ digest[p] = EmptyDigest
    <3>1. /\ Bytes(digest[p]) = file[s][digest[p]]
          /\ Blake3(Bytes(digest[p])) = digest[p]
          /\ Bytes(digest[p]) \in Seq(Byte)
      BY <1>1, <2>2, OfferedBytes, Zenon
    <3>2. Len(Bytes(digest[p])) = 0
      BY <1>1, <2>2, <3>1, SMTT(30) DEF InFile
    <3>3. Bytes(digest[p]) = <<>>
      BY <3>1, <3>2, EmptySeq, Zenon
    <3> QED
      BY <3>1, <3>3, Zenon DEF EmptyDigest
  <2>4. PiecesInv(p)'
    BY <1>1, <2>1, Zenon
    DEF PiecesInv, Genuine, Delivered, Written, vars, pullVars,
                      chanVars, fileVars
  <2>5. BegunInv(p)'
    BY <1>3, <2>1, <2>3, Zenon DEF BegunInv, Untouched
  <2>6. ASSUME NEW t \in Server PROVE SenderInv(t, p)'
    <3>1. SenderInv(t, p)
      BY <2>1, Zenon
    <3>2. \A b, n : Delivered(p, b, n)' <=> Delivered(p, b, n)
      BY <1>3, Zenon DEF Untouched, Written, Delivered
    <3>3. Streaming(t, p)' => t # s
      BY <1>2, Zenon DEF Streaming
    <3> QED
      BY <1>1, <1>2, <1>3, <3>1, <3>2, <3>3, Zenon
      DEF SenderInv, Untouched, Streaming
  <2>7. ASSUME NEW t \in hosts'[p] PROVE HostInv(t, p)'
    BY <1>1, <1>3, <2>1, <2>3, <2>7, Zenon DEF HostInv, Untouched
  <2> QED
    BY <2>4, <2>5, <2>6, <2>7, Zenon DEF ReceivingInv
<1> QED
  BY <1>4, <1>5, Zenon

(* Every step of a sender keeps the invariant of a pull that receives.     *)
LEMMA ServerReceiving ==
  ASSUME Volatile = {}, Faults = {}, TypeOK, SenderTypes, IndexTypes, FilesRight,
         NEW s \in Server, InFile(s), ServerStep(s) \/ ServerEvent(s),
         NEW p \in Puller, pc[p] = "recv", ReceivingInv(p)
  PROVE  ReceivingInv(p)'
<1>1. CASE ServerStep(s)
  BY <1>1, IgnoreReceiving, TakeReceiving, ChunkReceiving, EofReceiving, Zenon
     DEF ServerStep
<1>2. CASE ServerEvent(s)
  <2>1. /\ UNCHANGED <<vars, inbox, stream, hosts>>
        /\ \A t \in Server : artefacts[t] \subseteq artefacts'[t]
    <3>1. CASE \E d \in Digest : Register(s, d)
      BY <3>1 DEF Register, queryVars, SenderTypes
    <3>2. CASE Serve(s)
      BY <3>2, Zenon DEF Serve, queryVars
    <3> QED
      BY <1>2, <3>1, <3>2, Zenon
      DEF ServerEvent, StreamFails, ServerCrash, ModifyFile
  <2>2. Untouched(p)
    BY <2>1, Zenon DEF Untouched, vars, pullVars, chanVars, fileVars
  <2>3. \A t \in Server : SameQuery(t, p)
    BY <2>1, Zenon DEF SameQuery, Holds, Streaming
  <2> QED
    BY <2>2, <2>3, ReceivingFrame, Zenon
<1> QED
  BY <1>1, <1>2, Zenon

(* Neither giving up the query of p, nor asking it, touches the query of   *)
(* another pull.                                                           *)
LEMMA AbandonSame ==
  ASSUME SenderTypes, NEW p \in Puller, Abandon(p), UNCHANGED artefacts,
         NEW q \in Puller, q # p, NEW s \in Server
  PROVE  SameQuery(s, q)
<1>1. /\ stream'[s] = IF stream[s].to = p THEN [stream[s] EXCEPT !.to = Nobody]
                                         ELSE stream[s]
      /\ inbox'[s] = [i \in DOMAIN inbox[s] |->
           IF inbox[s][i].to = p THEN [inbox[s][i] EXCEPT !.to = Nobody]
                                 ELSE inbox[s][i]]
  BY Zenon DEF Abandon
<1>2. /\ stream'[s].busy = stream[s].busy /\ stream'[s].total = stream[s].total
      /\ stream'[s].offset = stream[s].offset
      /\ stream'[s].digest = stream[s].digest
      /\ stream'[s].to = IF stream[s].to = p THEN Nobody ELSE stream[s].to
  BY <1>1 DEF SenderTypes
<1>3. /\ DOMAIN inbox'[s] = DOMAIN inbox[s]
      /\ \A i \in DOMAIN inbox[s] :
           /\ inbox'[s][i].to = IF inbox[s][i].to = p THEN Nobody
                                                     ELSE inbox[s][i].to
           /\ inbox'[s][i].digest = inbox[s][i].digest
  <2>1. \A i \in DOMAIN inbox[s] : inbox[s][i] \in Query
    BY LenProperties DEF SenderTypes
  <2>2. \A x \in Query : /\ [x EXCEPT !.to = Nobody].to = Nobody
                         /\ [x EXCEPT !.to = Nobody].digest = x.digest
    BY Zenon DEF Query
  <2> QED
    BY <1>1, <2>1, <2>2
<1>4. Nobody # q
  BY TransferAssumption, Zenon
<1>5. Streaming(s, q)' <=> Streaming(s, q)
  BY <1>2, <1>4, Zenon DEF Streaming
<1>6. Holds(s, q) => Holds(s, q)'
  BY <1>2, <1>3, <1>4, Zenon DEF Holds
<1> QED
  BY <1>2, <1>3, <1>4, <1>5, <1>6, Zenon DEF SameQuery

(* A get() adds its query to what waits at each sender that serves.        *)
LEMMA AskedInbox ==
  ASSUME TypeOK, SenderTypes, NEW p \in Puller, Ask(p), NEW s \in Server
  PROVE  /\ \A i \in DOMAIN inbox[s] :
              i \in DOMAIN inbox'[s] /\ inbox'[s][i] = inbox[s][i]
         /\ \A i \in DOMAIN inbox'[s] :
              \/ i \in DOMAIN inbox[s] /\ inbox'[s][i] = inbox[s][i]
              \/ inbox'[s][i].to = p /\ inbox'[s][i].digest = digest[p]
         /\ serving[s] => \E i \in DOMAIN inbox'[s] : inbox'[s][i].to = p
<1> DEFINE new == [to |-> p, digest |-> digest[p]]
<1>1. /\ new \in Query /\ inbox[s] \in Seq(Query)
      /\ inbox'[s] = IF serving[s] THEN Append(inbox[s], new) ELSE inbox[s]
  BY Zenon DEF Ask, Query, TypeOK, SenderTypes
<1>2. new.to = p /\ new.digest = digest[p]
  BY Zenon
<1> HIDE DEF new
<1>3. CASE serving[s]
  <2>1. /\ Len(inbox[s]) + 1 \in DOMAIN inbox'[s]
        /\ inbox'[s][Len(inbox[s]) + 1] = new
        /\ \A i \in DOMAIN inbox[s] :
             i \in DOMAIN inbox'[s] /\ inbox'[s][i] = inbox[s][i]
        /\ \A i \in DOMAIN inbox'[s] :
             i \in DOMAIN inbox[s] \/ inbox'[s][i] = new
    BY <1>1, <1>3, AppendIndices, SMTT(30)
  <2> QED
    BY <1>2, <2>1, Zenon
<1> QED
  BY <1>1, <1>3, Zenon

(* It leaves the queries of other pulls as they are.                       *)
LEMMA AskSame ==
  ASSUME TypeOK, SenderTypes, NEW p \in Puller, Ask(p),
         NEW q \in Puller, q # p, NEW s \in Server
  PROVE  SameQuery(s, q)
<1>1. UNCHANGED <<stream, artefacts>>
  BY Zenon DEF Ask, serverVars
<1>2. /\ \A i \in DOMAIN inbox[s] :
           i \in DOMAIN inbox'[s] /\ inbox'[s][i] = inbox[s][i]
      /\ \A i \in DOMAIN inbox'[s] : inbox'[s][i].to = q =>
           i \in DOMAIN inbox[s] /\ inbox'[s][i] = inbox[s][i]
  BY AskedInbox, ZenonT(30)
<1> QED
  BY <1>1, <1>2, Zenon DEF SameQuery, Streaming, Holds

(* A pull begins to receive with an empty temp file and an empty channel,  *)
(* and with its query at every host.                                       *)
LEMMA AskReceiving ==
  ASSUME TypeOK, SenderTypes, IndexTypes, NEW p \in Puller, Ask(p), Waiting(p),
         HostedPull(p)
  PROVE  ReceivingInv(p)'
<1>1. /\ pc[p] = "get" /\ replies' = [replies EXCEPT ![p] = <<>>]
      /\ UNCHANGED <<digest, fd, gotAny, gotLast, data, stream, artefacts>>
      /\ hosts' = [hosts EXCEPT ![p] = {s \in Server : Hosting(s, digest[p])}]
  BY Zenon DEF Ask, SendQuery, fileVars, serverVars
<1>2. /\ replies'[p] = <<>> /\ DOMAIN replies'[p] = {}
      /\ hosts'[p] = {s \in Server : Hosting(s, digest[p])}
  BY <1>1 DEF TypeOK, IndexTypes
<1>3. data[fd[p]] = <<>> /\ ~gotAny[p] /\ ~gotLast[p]
  BY <1>1, Zenon DEF HostedPull
<1>4. \A s \in Server : ~Holds(s, p)
  BY <1>1, Zenon DEF Waiting
<1>5. PiecesInv(p)'
  BY <1>1, <1>2, <1>3, Zenon DEF PiecesInv
<1>6. BegunInv(p)'
  BY <1>1, <1>2, <1>3, Zenon DEF BegunInv
<1>7. ASSUME NEW s \in Server PROVE SenderInv(s, p)'
  <2>1. ~Streaming(s, p)'
    BY <1>1, <1>4, Zenon DEF Streaming, Holds
  <2>2. \A i \in DOMAIN inbox'[s] :
          inbox'[s][i].to = p => inbox'[s][i].digest = digest[p]
    <3>1. \A i \in DOMAIN inbox[s] : inbox[s][i].to # p
      BY <1>4, Zenon DEF Holds
    <3> QED
      BY <3>1, AskedInbox, SMTT(30)
  <2> QED
    BY <1>1, <2>1, <2>2, Zenon DEF SenderInv
<1>8. ASSUME NEW s \in hosts'[p] PROVE HostInv(s, p)'
  <2>1. s \in Server /\ serving[s] /\ digest[p] \in artefacts[s]
    BY <1>2, <1>8, Zenon DEF Hosting
  <2>2. \E i \in DOMAIN inbox'[s] : inbox'[s][i].to = p
    BY <2>1, AskedInbox, Zenon
  <2> QED
    BY <1>1, <2>1, <2>2, Zenon DEF HostInv, Outstanding
<1> QED
  BY <1>5, <1>6, <1>7, <1>8, Zenon DEF ReceivingInv

(* Writing a piece of a file t where it belongs brings in its bytes, keeps *)
(* those already there, and adds nothing that is not in the file.          *)
Completes(c, off, b, t, w) ==
  /\ DOMAIN w \subseteq DOMAIN t
  /\ \A i \in DOMAIN c : i \in DOMAIN w /\ (c[i] = t[i] => w[i] = t[i])
  /\ \A i \in DOMAIN t : off < i /\ i <= off + Len(b) =>
       i \in DOMAIN w /\ w[i] = t[i]

(* A genuine piece written to a file of genuine pieces.                    *)
LEMMA WriteGenuine ==
  ASSUME NEW c \in Seq(Byte), NEW off \in Nat, NEW b \in Seq(Byte),
         NEW t \in Seq(Byte), DOMAIN c \subseteq DOMAIN t,
         \A j \in DOMAIN b : off + j \in DOMAIN t /\ b[j] = t[off + j]
  PROVE  Completes(c, off, b, t, WriteAt(c, off, b))
<1> DEFINE end == off + Len(b)
           len == IF b # <<>> /\ end > Len(c) THEN end ELSE Len(c)
           w == WriteAt(c, off, b)
<1>1. /\ Len(c) \in Nat /\ Len(b) \in Nat /\ Len(t) \in Nat
      /\ DOMAIN c = 1 .. Len(c) /\ DOMAIN b = 1 .. Len(b) /\ DOMAIN t = 1 .. Len(t)
      /\ b # <<>> <=> Len(b) > 0
  BY LenProperties, EmptySeq
<1>2. w = [i \in 1 .. len |->
             IF i > off /\ i <= end THEN b[i - off]
             ELSE IF i <= Len(c) THEN c[i] ELSE Zero]
  BY Zenon DEF WriteAt
<1>3. DOMAIN w = 1 .. len
  BY <1>2, Zenon
<1>4. Len(c) <= Len(t) /\ (b # <<>> => end <= Len(t))
  <2>1. Len(c) > 0 => Len(c) \in DOMAIN t
    BY <1>1
  <2>2. b # <<>> => end \in DOMAIN t
    BY <1>1
  <2> QED
    BY <1>1, <2>1, <2>2
<1>5. ASSUME NEW i \in 1 .. len, i > off, i <= end PROVE w[i] = t[i]
  <2>1. i - off \in DOMAIN b /\ off + (i - off) = i
    BY <1>1, <1>5
  <2>2. w[i] = b[i - off]
    BY <1>2, <1>5, Zenon
  <2> QED
    BY <2>1, <2>2, Zenon
<1>6. \A i \in 1 .. len : ~(i > off /\ i <= end) /\ i <= Len(c) => w[i] = c[i]
  BY <1>2, Zenon
<1> HIDE DEF w
<1>7. DOMAIN w \subseteq DOMAIN t
  BY <1>1, <1>3, <1>4
<1>8. \A i \in DOMAIN c : i \in DOMAIN w /\ (c[i] = t[i] => w[i] = t[i])
  BY <1>1, <1>3, <1>5, <1>6
<1>9. \A i \in DOMAIN t : off < i /\ i <= end => i \in DOMAIN w /\ w[i] = t[i]
  BY <1>1, <1>3, <1>5
<1>10. Completes(c, off, b, t, w)
  BY <1>7, <1>8, <1>9, Zenon DEF Completes
<1> QED
  BY <1>10, Zenon DEF w

(* A chunk that is written into the temp file was the next to be           *)
(* delivered: nothing is lost between the channel and the file.            *)
LEMMA ChunkWritten ==
  ASSUME CacheInv, NEW p \in Puller, ReceiveChunk(p), ReceivingInv(p)
  PROVE  /\ (DOMAIN data[fd[p]] \subseteq DOMAIN Bytes(digest[p]))'
         /\ \A b \in DOMAIN Bytes(digest[p]) :
              Written(p, b) \/ Brings(replies[p][1], b) => Written(p, b)'
<1> DEFINE r == Head(replies[p])
           c == data[fd[p]]
           t == Bytes(digest[p])
<1>1. /\ pc[p] = "recv" /\ replies[p] # <<>> /\ r.kind = "chunk"
      /\ data' = [data EXCEPT ![fd[p]] = WriteAt(c, r.offset, r.payload)]
      /\ UNCHANGED <<digest, fd>>
  BY Zenon DEF ReceiveChunk
<1>2. TypeOK /\ fd[p] \in Inode
  BY <1>1, Zenon DEF CacheInv, TypeOK
<1>3. r \in Reply /\ r = replies[p][1] /\ 1 \in DOMAIN replies[p]
  BY <1>1, <1>2, TailIndices, HeadTailProperties DEF TypeOK
<1>4. r.offset \in Nat /\ r.payload \in Seq(Byte)
  <2>1. r \in Chunk
    BY <1>1, <1>3, Zenon DEF Reply
  <2>2. r.offset \in Offset /\ r.payload \in Payload
    BY <2>1, Zenon DEF Chunk
  <2> QED
    BY <2>2, PullAssumption, Zenon
<1>5. PiecesInv(p) /\ BegunInv(p)
  BY Zenon DEF ReceivingInv
<1>6. c \in Seq(Byte) /\ t \in Seq(Byte) /\ DOMAIN c \subseteq DOMAIN t
  BY <1>1, <1>2, <1>5, Zenon DEF BegunInv, PiecesInv, TypeOK
<1>7. \A j \in DOMAIN r.payload :
        r.offset + j \in DOMAIN t /\ r.payload[j] = t[r.offset + j]
  BY <1>3, <1>5, SMTT(30) DEF PiecesInv, Genuine
<1> DEFINE w == WriteAt(c, r.offset, r.payload)
<1>8. data'[fd'[p]] = w /\ Bytes(digest'[p]) = t
  BY <1>1, <1>2, Zenon DEF TypeOK
<1> HIDE DEF r, c, t
<1>9. Completes(c, r.offset, r.payload, t, w)
  BY <1>4, <1>6, <1>7, WriteGenuine, Zenon
<1> HIDE DEF w
<1>10. (DOMAIN data[fd[p]] \subseteq DOMAIN Bytes(digest[p]))'
  BY <1>8, <1>9, Zenon DEF Completes
<1>11. ASSUME NEW b \in DOMAIN t, Written(p, b) \/ Brings(r, b)
       PROVE  Written(p, b)'
  <2>1. b \in DOMAIN w /\ w[b] = t[b]
    BY <1>9, <1>11, Zenon DEF Completes, Written, Brings, c, t
  <2> QED
    BY <1>8, <2>1, Zenon DEF Written
<1> QED
  BY <1>3, <1>10, <1>11, Zenon DEF t

(* A pull that takes a chunk keeps its invariant.                          *)
LEMMA ReceiveReceiving ==
  ASSUME CacheInv, SenderTypes, \A s \in Server : InFile(s),
         NEW p \in Puller, ReceiveChunk(p),
         UNCHANGED <<queryVars, artefacts, hosts>>, ReceivingInv(p)
  PROVE  ReceivingInv(p)'
<1> DEFINE Byt == DOMAIN Bytes(digest[p])
<1>1. /\ replies[p] # <<>> /\ replies' = [replies EXCEPT ![p] = Tail(replies[p])]
      /\ gotAny' = [gotAny EXCEPT ![p] = TRUE]
      /\ gotLast' = [gotLast EXCEPT ![p] = gotLast[p] \/ Head(replies[p]).last]
      /\ UNCHANGED <<digest, fd>>
  BY Zenon DEF ReceiveChunk
<1>2. TypeOK
  BY Zenon DEF CacheInv
<1>3. PICK L \in Nat : L = Len(replies[p])
  BY <1>2, LenProperties, Zenon DEF TypeOK
<1>4. /\ replies'[p] = Tail(replies[p])
      /\ gotAny'[p] /\ (gotLast'[p] <=> gotLast[p] \/ replies[p][1].last)
      /\ L >= 1 /\ DOMAIN replies[p] = 1 .. L /\ DOMAIN replies'[p] = 1 .. L - 1
      /\ Len(replies'[p]) = L - 1
      /\ \A i \in 1 .. L - 1 : replies'[p][i] = replies[p][i + 1]
  <2>1. /\ replies'[p] = Tail(replies[p]) /\ replies[p] \in Seq(Reply)
        /\ gotAny'[p] /\ (gotLast'[p] <=> gotLast[p] \/ Head(replies[p]).last)
    BY <1>1, <1>2, Zenon DEF TypeOK
  <2>2. /\ Head(replies[p]) = replies[p][1] /\ 1 \in 1 .. L
        /\ DOMAIN replies[p] = 1 .. L /\ DOMAIN Tail(replies[p]) = 1 .. L - 1
        /\ Len(Tail(replies[p])) = L - 1
        /\ \A i \in 1 .. L - 1 : Tail(replies[p])[i] = replies[p][i + 1]
    BY <1>1, <1>3, <2>1, TailIndices
  <2> QED
    BY <1>3, <2>1, <2>2, SMTT(30)
<1>5. /\ (DOMAIN data[fd[p]] \subseteq DOMAIN Bytes(digest[p]))'
      /\ \A b \in Byt : Written(p, b) \/ Brings(replies[p][1], b) => Written(p, b)'
  BY ChunkWritten, Zenon
<1>6. PiecesInv(p) /\ BegunInv(p)
  BY Zenon DEF ReceivingInv
<1>7. ASSUME NEW b \in Byt, NEW i \in 1 .. L, Delivered(p, b, i)
      PROVE  Delivered(p, b, i - 1)'
  <2>1. CASE Written(p, b)
    BY <1>5, <2>1, Zenon DEF Delivered
  <2>2. ASSUME NEW j \in 1 .. i, Brings(replies[p][j], b)
        PROVE  Delivered(p, b, i - 1)'
    <3>1. CASE j = 1
      BY <1>5, <2>2, <3>1, Zenon DEF Delivered
    <3>2. CASE j # 1
      <4>1. j - 1 \in 1 .. i - 1 /\ j - 1 \in 1 .. L - 1 /\ (j - 1) + 1 = j
        BY <3>2
      <4>2. Brings(replies'[p][j - 1], b)
        BY <1>4, <2>2, <4>1, Zenon
      <4> QED
        BY <4>1, <4>2, Zenon DEF Delivered
    <3> QED
      BY <3>1, <3>2, Zenon
  <2> QED
    BY <1>7, <2>1, <2>2, Zenon DEF Delivered
<1>8. Ended(p) => Ended(p)'
  <2>1. ASSUME NEW i \in DOMAIN replies[p], replies[p][i].last PROVE Ended(p)'
    <3>1. CASE i = 1
      BY <1>4, <2>1, <3>1, Zenon DEF Ended
    <3>2. CASE i # 1
      <4>1. i - 1 \in DOMAIN replies'[p] /\ replies'[p][i - 1] = replies[p][i]
        BY <1>4, <3>2
      <4> QED
        BY <2>1, <4>1, Zenon DEF Ended
    <3> QED
      BY <3>1, <3>2, Zenon
  <2> QED
    BY <1>4, <2>1, Zenon DEF Ended
<1>9. PiecesInv(p)'
  <2>1. ASSUME NEW i \in 1 .. L - 1
        PROVE  /\ Genuine(p, replies[p][i])'
               /\ replies'[p][i].last => \A b \in Byt : Delivered(p, b, i)'
    <3>1. i + 1 \in 1 .. L /\ (i + 1) - 1 = i /\ replies'[p][i] = replies[p][i + 1]
      BY <1>4
    <3>2. /\ Genuine(p, replies[p][i + 1])
          /\ replies[p][i + 1].last => \A b \in Byt : Delivered(p, b, i + 1)
      BY <1>4, <1>6, <3>1, Zenon DEF PiecesInv
    <3>3. \A b \in Byt : Delivered(p, b, i + 1) => Delivered(p, b, i)'
      BY <1>7, <3>1, Zenon
    <3> QED
      BY <1>1, <3>1, <3>2, <3>3, Zenon DEF Genuine
  <2>2. gotLast'[p] => \A b \in Byt : Written(p, b)'
    <3>1. CASE gotLast[p]
      BY <1>5, <1>6, <3>1, Zenon DEF PiecesInv
    <3>2. CASE replies[p][1].last
      <4>1. \A b \in Byt : Delivered(p, b, 1)
        BY <1>4, <1>6, <3>2, SMTT(30) DEF PiecesInv
      <4> QED
        BY <1>5, <4>1, SMTT(30) DEF Delivered
    <3> QED
      BY <1>4, <3>1, <3>2, Zenon
  <2> QED
    BY <1>1, <1>4, <1>5, <2>1, <2>2, Zenon DEF PiecesInv
<1>10. BegunInv(p)'
  <2>1. \A s \in Server : Streaming(s, p)' <=> Streaming(s, p)
    BY Zenon DEF Streaming, queryVars
  <2> QED
    BY <1>1, <1>6, <1>8, <2>1, Zenon DEF BegunInv
<1>11. ASSUME NEW s \in Server PROVE SenderInv(s, p)'
  <2>1. SenderInv(s, p)
    BY Zenon DEF ReceivingInv
  <2>2. Streaming(s, p)' <=> Streaming(s, p)
    BY Zenon DEF Streaming, queryVars
  <2>3. ASSUME Streaming(s, p), NEW b \in 1 .. stream[s].offset
        PROVE  Delivered(p, b, L - 1)'
    <3>1. Delivered(p, b, L)
      BY <1>3, <2>1, <2>3, Zenon DEF SenderInv
    <3>2. b \in Byt
      <4>1. /\ stream[s].offset \in Nat /\ stream[s].total \in Nat
            /\ stream[s].total = 0 \/ stream[s].offset < stream[s].total
        BY <2>3, Zenon DEF SenderTypes, InFile, Streaming
      <4>2. /\ stream[s].total = Len(Bytes(digest[p]))
            /\ Bytes(digest[p]) \in Seq(Byte) \ {<<>>}
        BY <1>1, <1>6, <2>1, <2>3, Zenon DEF SenderInv, BegunInv
      <4>3. Byt = 1 .. stream[s].total /\ stream[s].total # 0
        BY <4>2, LenProperties, EmptySeq, Zenon
      <4> QED
        BY <4>1, <4>3, SMTT(30)
    <3> QED
      BY <1>4, <1>7, <3>1, <3>2, SMTT(30)
  <2> QED
    BY <1>1, <1>4, <2>1, <2>2, <2>3, Zenon DEF SenderInv, queryVars
<1>12. ASSUME NEW s \in hosts'[p] PROVE HostInv(s, p)'
  <2>1. HostInv(s, p)
    BY <1>12, Zenon DEF ReceivingInv
  <2>2. (s \in Outstanding(p))' <=> s \in Outstanding(p)
    BY Zenon DEF Outstanding, queryVars
  <2> QED
    BY <1>1, <1>8, <2>1, <2>2, Zenon DEF HostInv
<1> QED
  BY <1>9, <1>10, <1>11, <1>12, Zenon DEF ReceivingInv
=============================================================================

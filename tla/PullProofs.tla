----------------------------- MODULE PullProofs -----------------------------
(***************************************************************************)
(* Proofs about Pull, for every set of pullers, digests, inodes, payloads  *)
(* and offsets.                                                            *)
(***************************************************************************)
EXTENDS Pull, SequenceTheorems, TLAPS

-----------------------------------------------------------------------------
(* A chunk reply carries an offset and bytes.                              *)
LEMMA ChunkFields ==
  ASSUME NEW r \in Reply, r.kind = "chunk"
  PROVE  r.offset \in Nat /\ r.payload \in Seq(Byte)
<1>1. r \in Chunk
  BY Zenon DEF Reply
<1>2. r.offset \in Offset /\ r.payload \in Payload
  BY <1>1, Zenon DEF Chunk
<1> QED
  BY <1>2, PullAssumption, Zenon

(* Writing a chunk into a file gives a file.                               *)
LEMMA WriteAtType ==
  ASSUME NEW c \in Seq(Byte), NEW off \in Nat, NEW b \in Seq(Byte)
  PROVE  WriteAt(c, off, b) \in Seq(Byte)
<1> DEFINE end == off + Len(b)
           len == IF b # <<>> /\ end > Len(c) THEN end ELSE Len(c)
           w == [i \in 1 .. len |->
                   IF i > off /\ i <= end THEN b[i - off]
                   ELSE IF i <= Len(c) THEN c[i] ELSE Zero]
<1>1. Len(c) \in Nat /\ Len(b) \in Nat /\ len \in Nat
  BY LenProperties
<1>2. \A i \in 1 .. len : w[i] \in Byte
  BY <1>1, ElementOfSeq, PullAssumption
<1>3. w \in [1 .. len -> Byte]
  BY <1>2, Zenon
<1>4. w \in Seq(Byte)
  BY <1>1, <1>3
<1> QED
  BY <1>4, Zenon DEF WriteAt

(* Reading on gives the bytes read before followed by the file's next n.   *)
LEMMA ReadOnProperties ==
  ASSUME NEW s \in Seq(Byte), NEW c \in Seq(Byte), NEW n \in Nat,
         Len(s) + n <= Len(c)
  PROVE  /\ ReadOn(s, c, n) \in Seq(Byte)
         /\ Len(ReadOn(s, c, n)) = Len(s) + n
         /\ \A i \in 1 .. Len(s) + n :
              ReadOn(s, c, n)[i] = IF i <= Len(s) THEN s[i] ELSE c[i]
<1> DEFINE m == Len(s) + n
           w == [i \in 1 .. m |-> IF i <= Len(s) THEN s[i] ELSE c[i]]
<1>1. Len(s) \in Nat /\ Len(c) \in Nat /\ m \in Nat
  BY LenProperties
<1>2. \A i \in 1 .. m : w[i] \in Byte
  BY <1>1, ElementOfSeq
<1>3. w \in Seq(Byte) /\ Len(w) = m
  BY <1>1, <1>2
<1> QED
  BY <1>3, Zenon DEF ReadOn

(* A read never goes past the end of the file.                             *)
LEMMA ReadSizesBound ==
  ASSUME NEW avail \in Nat, NEW n \in ReadSizes(avail)
  PROVE  n \in Nat /\ n >= 1 /\ n <= avail
  BY PullAssumption DEF ReadSizes

-----------------------------------------------------------------------------
(* Type correctness, for pulls that overlap in any way.                    *)
LEMMA InitType == Init => TypeOK
<1> SUFFICES ASSUME Init PROVE TypeOK
  BY Zenon
<1>1. (CHOOSE d \in Digest : TRUE) \in Digest
  BY PullAssumption, Zenon
<1>2. <<>> \in Seq(Byte) /\ <<>> \in Seq(Reply)
  BY EmptySeq, Zenon
<1> QED
  BY <1>1, <1>2, Zenon DEF Init, TypeOK, Result

(* Every way of returning keeps the types.                                 *)
LEMMA ReturnType ==
  ASSUME TypeOK, NEW p \in Puller, NEW r \in Result, Return(p, r),
         partial' \in [Digest -> Inode \cup {NoFile}],
         final' \in [Digest -> Inode \cup {NoFile}],
         UNCHANGED data
  PROVE  TypeOK'
<1>1. <<>> \in Seq(Byte) /\ <<>> \in Seq(Reply)
  BY EmptySeq, Zenon
<1> QED
  BY <1>1, Zenon DEF TypeOK, Return

(* Every step keeps the types.                                             *)
LEMMA NextType == TypeOK /\ [Next]_vars => TypeOK'
<1> SUFFICES ASSUME TypeOK, [Next]_vars PROVE TypeOK'
  BY Zenon
<1>1. CASE UNCHANGED vars
  BY <1>1, Zenon DEF TypeOK, vars, pullVars, chanVars, fileVars
<1>2. ASSUME NEW p \in Puller, NEW d \in Digest, PullCached(p, d)
      PROVE  TypeOK'
  BY <1>2, Zenon DEF TypeOK, PullCached, Result, chanVars, fileVars
<1>3. ASSUME NEW p \in Puller, NEW d \in Digest, PullStart(p, d)
      PROVE  TypeOK'
  BY <1>3, Zenon DEF TypeOK, PullStart, Result, Goto, chanVars, fileVars
<1>4. ASSUME NEW p \in Puller, OpenPartial(p) PROVE TypeOK'
  <2>1. PICK i \in Inode :
          /\ partial' = [partial EXCEPT ![digest[p]] = i]
          /\ data' = [data EXCEPT ![i] = <<>>]
          /\ fd' = [fd EXCEPT ![p] = i]
    BY <1>4, Zenon DEF OpenPartial
  <2>2. <<>> \in Seq(Byte)
    BY EmptySeq, Zenon
  <2>3. i # NoFile
    BY PullAssumption, Zenon
  <2> QED
    BY <1>4, <2>1, <2>2, <2>3, Zenon DEF TypeOK, OpenPartial, Goto, chanVars
<1>5. ASSUME NEW p \in Puller, SendQuery(p) PROVE TypeOK'
  <2>1. <<>> \in Seq(Reply)
    BY EmptySeq, Zenon
  <2> QED
    BY <1>5, <2>1, Zenon DEF TypeOK, SendQuery, Goto, fileVars
<1>6. ASSUME NEW p \in Puller, ReceiveChunk(p) PROVE TypeOK'
  <2> DEFINE r == Head(replies[p])
  <2>1. r \in Reply /\ Tail(replies[p]) \in Seq(Reply)
    BY <1>6, HeadTailProperties, Zenon DEF TypeOK, ReceiveChunk
  <2>2. r.offset \in Nat /\ r.payload \in Seq(Byte)
    BY <1>6, <2>1, ChunkFields, Zenon DEF ReceiveChunk
  <2>3. r.last \in BOOLEAN
    BY <1>6, <2>1, Zenon DEF ReceiveChunk, Reply, Chunk
  <2>4. fd[p] \in Inode
    BY <1>6, Zenon DEF TypeOK, ReceiveChunk
  <2>5. WriteAt(data[fd[p]], r.offset, r.payload) \in Seq(Byte)
    BY <2>2, <2>4, WriteAtType, Zenon DEF TypeOK
  <2>6. data' = [data EXCEPT ![fd[p]] = WriteAt(data[fd[p]], r.offset, r.payload)]
    BY <1>6, <2>4, Zenon DEF TypeOK, ReceiveChunk
  <2>7. data' \in [Inode -> Seq(Byte)]
    BY <2>4, <2>5, <2>6, Zenon DEF TypeOK
  <2>8. replies' \in [Puller -> Seq(Reply)]
    BY <1>6, <2>1, Zenon DEF TypeOK, ReceiveChunk
  <2>9. gotAny' \in [Puller -> BOOLEAN] /\ gotLast' \in [Puller -> BOOLEAN]
    BY <1>6, <2>3, Zenon DEF TypeOK, ReceiveChunk
  <2> QED
    BY <1>6, <2>7, <2>8, <2>9, Zenon DEF TypeOK, ReceiveChunk
<1>7. ASSUME NEW p \in Puller, RejectReply(p) PROVE TypeOK'
  <2>1. ReplyError(Head(replies[p])) \in Result
    BY Zenon DEF ReplyError, Result
  <2> QED
    BY <1>7, <2>1, ReturnType, Zenon DEF TypeOK, RejectReply, fileVars
<1>8. ASSUME NEW p \in Puller, EndOfReplies(p) PROVE TypeOK'
  BY <1>8, Zenon DEF TypeOK, EndOfReplies, Result, Goto, chanVars, fileVars
<1>9. ASSUME NEW p \in Puller, RemovePartial(p) PROVE TypeOK'
  <2>1. result[p] \in Result
    BY Zenon DEF TypeOK
  <2>2. partial' \in [Digest -> Inode \cup {NoFile}]
    BY <1>9, Zenon DEF TypeOK, RemovePartial
  <2> QED
    BY <1>9, <2>1, <2>2, ReturnType, Zenon DEF TypeOK, RemovePartial
<1>10. ASSUME NEW p \in Puller, HashOpen(p) PROVE TypeOK'
  BY <1>10, Zenon DEF TypeOK, HashOpen, Goto, chanVars, fileVars
<1>11. ASSUME NEW p \in Puller, HashRead(p) PROVE TypeOK'
  <2> DEFINE c == data[fd[p]]
  <2>1. fd[p] \in Inode /\ c \in Seq(Byte) /\ hashed[p] \in Seq(Byte)
    BY <1>11, Zenon DEF TypeOK, HashRead
  <2>2. Len(c) \in Nat /\ Len(hashed[p]) \in Nat
    BY <2>1, LenProperties, Zenon
  <2>3. PICK n \in ReadSizes(Len(c) - Len(hashed[p])) :
          hashed' = [hashed EXCEPT ![p] = ReadOn(hashed[p], c, n)]
    BY <1>11, Zenon DEF TypeOK, HashRead
  <2>4. Len(c) - Len(hashed[p]) \in Nat
    BY <1>11, <2>2 DEF HashRead
  <2>5. n \in Nat /\ Len(hashed[p]) + n <= Len(c)
    <3>1. n \in Nat /\ n <= Len(c) - Len(hashed[p])
      BY <2>4, ReadSizesBound, Zenon
    <3> QED
      BY <2>2, <3>1
  <2>6. ReadOn(hashed[p], c, n) \in Seq(Byte)
    BY <2>1, <2>5, ReadOnProperties, Zenon
  <2> QED
    BY <1>11, <2>3, <2>6, Zenon DEF TypeOK, HashRead, chanVars, fileVars
<1>12. ASSUME NEW p \in Puller, HashCompare(p) PROVE TypeOK'
  BY <1>12, Zenon DEF TypeOK, HashCompare, Result, Goto, chanVars, fileVars
<1>13. ASSUME NEW p \in Puller, Rename(p) PROVE TypeOK'
  <2>1. /\ partial' \in [Digest -> Inode \cup {NoFile}]
        /\ final' \in [Digest -> Inode \cup {NoFile}]
    BY <1>13, Zenon DEF TypeOK, Rename
  <2>2. "ok" \in Result
    BY Zenon DEF Result
  <2> QED
    BY <1>13, <2>1, <2>2, ReturnType, Zenon DEF TypeOK, Rename
<1>14. ASSUME NEW p \in Puller, PartialGone(p) PROVE TypeOK'
  <2>1. "Io" \in Result
    BY Zenon DEF Result
  <2> QED
    BY <1>14, <2>1, ReturnType, Zenon DEF TypeOK, PartialGone, fileVars
<1>15. ASSUME NEW p \in Puller, Fault(p) PROVE TypeOK'
  <2>1. {"Transport", "Io", "none"} \subseteq Result
    BY Zenon DEF Result
  <2>2. PICK r \in Result : Return(p, r) /\ UNCHANGED fileVars
    BY <1>15, <2>1, Zenon DEF Fault, GetFails, IoError, Crash
  <2> QED
    BY <2>2, ReturnType, Zenon DEF TypeOK, fileVars
<1>16. ASSUME NEW p \in Puller, NEW r \in Reply, Arrive(p, r) PROVE TypeOK'
  BY <1>16 DEF TypeOK, Arrive, pullVars, fileVars
<1>17. ASSUME NEW p \in Puller, Close(p) PROVE TypeOK'
  BY <1>17, Zenon DEF TypeOK, Close, pullVars, fileVars
<1> QED
  BY <1>1, <1>2, <1>3, <1>4, <1>5, <1>6, <1>7, <1>8, <1>9, <1>10, <1>11,
     <1>12, <1>13, <1>14, <1>15, <1>16, <1>17, Zenon
     DEF Next, PullStep, LocalStep

(* Spec keeps its types.                                                   *)
THEOREM TypeCorrect == Spec => []TypeOK
  BY InitType, NextType, PTL DEF Spec

-----------------------------------------------------------------------------
(* A step of the pull p of digest[p] that leaves the locals of q, the      *)
(* names of the other digests and their temp files alone keeps what is     *)
(* known of q.                                                             *)
LEMMA OthersKept ==
  ASSUME CacheInv, NEW p \in Puller, NEW q \in Puller, q # p, Active(p),
         pc'[q] = pc[q], digest'[q] = digest[q], fd'[q] = fd[q],
         hashed'[q] = hashed[q], result'[q] = result[q],
         \A d \in Digest : d # digest[p] =>
            /\ partial'[d] = partial[d]
            /\ final'[d] = final[d]
            /\ partial[d] # NoFile => data'[partial[d]] = data[partial[d]]
  PROVE  PullInv(q)'
<1>1. digest[q] \in Digest /\ PullInv(q) /\ PullInv(p)
  BY Zenon DEF CacheInv, TypeOK
<1>2. CASE digest[q] = digest[p]
  <2>1. pc[q] = "idle"
    BY <1>2, Zenon DEF CacheInv, OnePullPerDigest, Active
  <2>2. result[q] # "ok"
    BY <1>1, <1>2, Zenon DEF PullInv
  <2> QED
    BY <1>1, <2>1, <2>2, Zenon DEF PullInv, Active
<1>3. CASE digest[q] # digest[p]
  <2>1. /\ partial'[digest[q]] = partial[digest[q]]
        /\ final'[digest[q]] = final[digest[q]]
        /\ partial[digest[q]] # NoFile =>
             data'[partial[digest[q]]] = data[partial[digest[q]]]
    BY <1>1, <1>3, Zenon
  <2>2. pc[q] = "hashing" => fd[q] # NoFile
    BY Zenon DEF CacheInv, TypeOK
  <2> QED
    BY <1>1, <2>1, <2>2 DEF PullInv, Active
<1> QED
  BY <1>2, <1>3, Zenon

(* What CacheInv says of one puller.                                       *)
LEMMA OfPuller ==
  ASSUME CacheInv, NEW p \in Puller
  PROVE  /\ PullInv(p)
         /\ digest[p] \in Digest
         /\ pc[p] \in {"get", "recv", "hashing"} => fd[p] \in Inode
  BY Zenon DEF CacheInv, TypeOK

(* A step of p that touches no file and no local of another puller keeps   *)
(* CacheInv if it keeps what is known of p.                                *)
LEMMA NoFileStep ==
  ASSUME CacheInv, NEW p \in Puller, UNCHANGED fileVars, TypeOK',
         OnePullPerDigest', PullInv(p)',
         \A q \in Puller : q # p =>
            /\ pc'[q] = pc[q] /\ digest'[q] = digest[q] /\ fd'[q] = fd[q]
            /\ hashed'[q] = hashed[q] /\ result'[q] = result[q]
  PROVE  CacheInv'
<1>1. UNCHANGED <<partial, final, data>>
  BY Zenon DEF fileVars
<1>2. CacheIntegrity' /\ NamesDistinct'
  <2>1. CacheIntegrity /\ NamesDistinct
    BY Zenon DEF CacheInv
  <2> QED
    BY <1>1, <2>1, Zenon DEF CacheIntegrity, NamesDistinct
<1>3. ASSUME NEW q \in Puller, q # p PROVE PullInv(q)'
  BY <1>1, <1>3, OfPuller DEF PullInv, Active
<1> QED
  BY <1>2, <1>3, Zenon DEF CacheInv

(* The steps of p that change no file and no digest: Fault and the like.   *)
LEMMA ReturnKeeps ==
  ASSUME CacheInv, NEW p \in Puller, NEW r, Return(p, r), r # "ok",
         Active(p), UNCHANGED fileVars, TypeOK', OnePullPerDigest'
  PROVE  CacheInv'
<1>0. TypeOK
  BY Zenon DEF CacheInv
<1>1. /\ pc'[p] = "idle" /\ hashed'[p] = <<>> /\ result'[p] = r
      /\ \A q \in Puller : q # p =>
            /\ pc'[q] = pc[q] /\ digest'[q] = digest[q] /\ fd'[q] = fd[q]
            /\ hashed'[q] = hashed[q] /\ result'[q] = result[q]
  BY <1>0, Zenon DEF TypeOK, Return
<1>2. PullInv(p)'
  BY <1>1, Zenon DEF PullInv, Active
<1> QED
  BY <1>1, <1>2, NoFileStep, Zenon

(* Opening the temp file empties it and touches no other file.             *)
LEMMA OpenKeeps ==
  ASSUME CacheInv, TypeOK', OnePullPerDigest', NEW p \in Puller,
         OpenPartial(p)
  PROVE  CacheInv'
<1>1. PICK i \in Inode :
        /\ IF partial[digest[p]] = NoFile THEN Unused(i)
                                          ELSE i = partial[digest[p]]
        /\ partial' = [partial EXCEPT ![digest[p]] = i]
        /\ data' = [data EXCEPT ![i] = <<>>]
        /\ fd' = [fd EXCEPT ![p] = i]
  BY Zenon DEF OpenPartial
<1>2. /\ pc[p] = "open" /\ pc' = [pc EXCEPT ![p] = "get"] /\ Active(p)
      /\ UNCHANGED <<digest, hashed, result, final>>
  BY Zenon DEF OpenPartial, Goto, Active
<1>3. TypeOK /\ NamesDistinct /\ CacheIntegrity
  BY Zenon DEF CacheInv
<1>4. /\ i # NoFile
      /\ \A e \in Digest : final[e] # i /\ (e # digest[p] => partial[e] # i)
  BY <1>1, <1>3, OfPuller, PullAssumption, Zenon DEF NamesDistinct, Unused
<1>5. /\ partial'[digest[p]] = i
      /\ \A e \in Digest : e # digest[p] => partial'[e] = partial[e]
      /\ \A j \in Inode : j # i => data'[j] = data[j]
  BY <1>1, <1>3, OfPuller, Zenon DEF TypeOK
<1>6. \A e \in Digest : final[e] # NoFile => data'[final[e]] = data[final[e]]
  BY <1>3, <1>4, <1>5 DEF TypeOK
<1>7. CacheIntegrity'
  BY <1>2, <1>3, <1>6, Zenon DEF CacheIntegrity
<1>8. NamesDistinct'
  <2>1. ASSUME NEW e \in Digest, NEW f \in Digest, partial'[e] # NoFile
        PROVE  partial'[e] # final[f] /\ (e # f => partial'[e] # partial'[f])
    <3>1. CASE e = digest[p]
      BY <1>4, <1>5, <3>1, Zenon
    <3>2. CASE e # digest[p]
      BY <1>3, <1>4, <1>5, <2>1, <3>2 DEF NamesDistinct
    <3> QED
      BY <3>1, <3>2, Zenon
  <2> QED
    BY <1>2, <2>1, Zenon DEF NamesDistinct
<1>9. fd'[p] = i /\ pc'[p] = "get"
  BY <1>1, <1>2, <1>3, Zenon DEF TypeOK
<1>10. PullInv(p)'
  BY <1>2, <1>5, <1>9, OfPuller, Zenon DEF PullInv, Active
<1>11. ASSUME NEW q \in Puller, q # p PROVE PullInv(q)'
  <2>1. /\ pc'[q] = pc[q] /\ digest'[q] = digest[q] /\ fd'[q] = fd[q]
        /\ hashed'[q] = hashed[q] /\ result'[q] = result[q]
    BY <1>1, <1>2, <1>3, <1>11, Zenon DEF TypeOK
  <2>2. \A e \in Digest : e # digest[p] =>
          /\ partial'[e] = partial[e]
          /\ final'[e] = final[e]
          /\ partial[e] # NoFile => data'[partial[e]] = data[partial[e]]
    BY <1>2, <1>3, <1>4, <1>5 DEF TypeOK
  <2> QED
    BY <1>2, <1>11, <2>1, <2>2, OthersKept, Zenon
<1> QED
  BY <1>7, <1>8, <1>10, <1>11, Zenon DEF CacheInv

(* Writing a chunk changes the temp file only.                             *)
LEMMA ReceiveKeeps ==
  ASSUME CacheInv, TypeOK', OnePullPerDigest', NEW p \in Puller,
         ReceiveChunk(p)
  PROVE  CacheInv'
<1>1. /\ pc[p] = "recv" /\ Active(p)
      /\ UNCHANGED <<pc, digest, fd, hashed, result, partial, final>>
  BY Zenon DEF ReceiveChunk, Active
<1>2. fd[p] = partial[digest[p]] /\ fd[p] \in Inode /\ fd[p] # NoFile
  BY <1>1, OfPuller, PullAssumption, Zenon DEF PullInv
<1>3. TypeOK /\ NamesDistinct /\ CacheIntegrity
  BY Zenon DEF CacheInv
<1>4. \A j \in Inode : j # fd[p] => data'[j] = data[j]
  BY <1>3, Zenon DEF TypeOK, ReceiveChunk
<1>5. \A e \in Digest :
        /\ final[e] # fd[p]
        /\ e # digest[p] => partial[e] # fd[p]
  BY <1>2, <1>3, OfPuller, Zenon DEF NamesDistinct
<1>6. \A e \in Digest :
        /\ final[e] # NoFile => data'[final[e]] = data[final[e]]
        /\ e # digest[p] /\ partial[e] # NoFile =>
             data'[partial[e]] = data[partial[e]]
  BY <1>3, <1>4, <1>5 DEF TypeOK
<1>7. CacheIntegrity' /\ NamesDistinct'
  BY <1>1, <1>3, <1>6, Zenon DEF CacheIntegrity, NamesDistinct
<1>8. PullInv(p)'
  BY <1>1, OfPuller, Zenon DEF PullInv, Active
<1>9. ASSUME NEW q \in Puller, q # p PROVE PullInv(q)'
  BY <1>1, <1>6, <1>9, OthersKept, Zenon
<1> QED
  BY <1>7, <1>8, <1>9, Zenon DEF CacheInv

(* Removing the temp file of p takes away no other name.                   *)
LEMMA RemoveKeeps ==
  ASSUME CacheInv, TypeOK', OnePullPerDigest', NEW p \in Puller,
         RemovePartial(p)
  PROVE  CacheInv'
<1>1. /\ pc[p] = "remove" /\ Active(p)
      /\ partial' = [partial EXCEPT ![digest[p]] = NoFile]
      /\ UNCHANGED <<digest, final, data>>
  BY Zenon DEF RemovePartial, Return, Active
<1>2. TypeOK /\ NamesDistinct /\ CacheIntegrity
  BY Zenon DEF CacheInv
<1>3. /\ pc'[p] = "idle" /\ hashed'[p] = <<>> /\ result'[p] = result[p]
      /\ \A q \in Puller : q # p =>
            /\ pc'[q] = pc[q] /\ fd'[q] = fd[q]
            /\ hashed'[q] = hashed[q] /\ result'[q] = result[q]
  BY <1>2 DEF RemovePartial, Return, TypeOK
<1>4. /\ partial'[digest[p]] = NoFile
      /\ \A e \in Digest : e # digest[p] => partial'[e] = partial[e]
  BY <1>1, <1>2, OfPuller, Zenon DEF TypeOK
<1>5. CacheIntegrity' /\ NamesDistinct'
  <2>1. \A e \in Digest : partial'[e] \in {partial[e], NoFile}
    BY <1>4, Zenon
  <2>2. CacheIntegrity'
    BY <1>1, <1>2, Zenon DEF CacheIntegrity
  <2>3. NamesDistinct'
    BY <1>1, <1>2, <2>1, Zenon DEF NamesDistinct
  <2> QED
    BY <2>2, <2>3, Zenon
<1>6. PullInv(p)'
  BY <1>1, <1>3, OfPuller, Zenon DEF PullInv, Active
<1>7. ASSUME NEW q \in Puller, q # p PROVE PullInv(q)'
  BY <1>1, <1>3, <1>4, <1>7, OthersKept, Zenon
<1> QED
  BY <1>5, <1>6, <1>7, Zenon DEF CacheInv

(* A read extends the prefix of the temp file that root_hash has seen.     *)
LEMMA PrefixGrows ==
  ASSUME NEW h \in Seq(Byte), NEW c \in Seq(Byte), Len(h) < Len(c),
         \A i \in 1 .. Len(h) : h[i] = c[i],
         NEW n \in ReadSizes(Len(c) - Len(h))
  PROVE  /\ Len(ReadOn(h, c, n)) <= Len(c)
         /\ \A i \in 1 .. Len(ReadOn(h, c, n)) : ReadOn(h, c, n)[i] = c[i]
<1>1. Len(h) \in Nat /\ Len(c) \in Nat
  BY LenProperties, Zenon
<1>2. Len(c) - Len(h) \in Nat
  BY <1>1
<1>3. n \in Nat /\ n <= Len(c) - Len(h)
  BY <1>2, ReadSizesBound, Zenon
<1>4. Len(h) + n <= Len(c)
  BY <1>1, <1>3
<1>5. /\ Len(ReadOn(h, c, n)) = Len(h) + n
      /\ \A i \in 1 .. Len(h) + n :
           ReadOn(h, c, n)[i] = IF i <= Len(h) THEN h[i] ELSE c[i]
  BY <1>3, <1>4, ReadOnProperties, Zenon
<1>6. ASSUME NEW i \in 1 .. Len(h) + n PROVE ReadOn(h, c, n)[i] = c[i]
  <2>1. CASE i <= Len(h)
    BY <1>1, <1>3, <1>5, <2>1
  <2>2. CASE ~(i <= Len(h))
    BY <1>5, <2>2, Zenon
  <2> QED
    BY <2>1, <2>2, Zenon
<1> QED
  BY <1>4, <1>5, <1>6, Zenon

(* A read of root_hash keeps the invariant.                                *)
LEMMA HashReadKeeps ==
  ASSUME CacheInv, TypeOK', OnePullPerDigest', NEW p \in Puller, HashRead(p)
  PROVE  CacheInv'
<1> DEFINE c == data[fd[p]]
           h == hashed[p]
<1>1. /\ pc[p] = "hashing" /\ Len(h) < Len(c)
      /\ UNCHANGED <<pc, digest, fd, result>> /\ UNCHANGED fileVars
  BY Zenon DEF HashRead
<1>2. TypeOK
  BY Zenon DEF CacheInv
<1>3. c \in Seq(Byte) /\ h \in Seq(Byte)
  BY <1>1, <1>2, OfPuller, Zenon DEF TypeOK
<1>4. PICK n \in ReadSizes(Len(c) - Len(h)) :
        hashed' = [hashed EXCEPT ![p] = ReadOn(h, c, n)]
  BY <1>2, Zenon DEF TypeOK, HashRead
<1>5. /\ hashed'[p] = ReadOn(h, c, n)
      /\ \A q \in Puller : q # p => hashed'[q] = hashed[q]
  BY <1>2, <1>4, Zenon DEF TypeOK
<1>6. \A i \in 1 .. Len(h) : h[i] = c[i]
  BY <1>1, OfPuller, Zenon DEF PullInv
<1>7. /\ Len(hashed'[p]) <= Len(c)
      /\ \A i \in 1 .. Len(hashed'[p]) : hashed'[p][i] = c[i]
  <2> HIDE DEF c, h
  <2>1. /\ Len(ReadOn(h, c, n)) <= Len(c)
        /\ \A i \in 1 .. Len(ReadOn(h, c, n)) : ReadOn(h, c, n)[i] = c[i]
    BY <1>1, <1>3, <1>6, PrefixGrows, Zenon
  <2> QED
    BY <1>5, <2>1, Zenon
<1>8. PullInv(p)'
  <2>1. PullInv(p) /\ UNCHANGED <<partial, final, data>>
    BY <1>1, OfPuller, Zenon DEF fileVars
  <2> HIDE DEF h
  <2> QED
    BY <1>1, <1>7, <2>1, Zenon DEF PullInv, Active
<1> QED
  BY <1>1, <1>5, <1>8, NoFileStep, Zenon

(* At the end of the file root_hash has seen all of it, and nothing else.  *)
LEMMA HashedAll ==
  ASSUME CacheInv, NEW p \in Puller, HashCompare(p)
  PROVE  hashed[p] = data[partial[digest[p]]]
<1> DEFINE c == data[fd[p]]
           h == hashed[p]
<1>1. pc[p] = "hashing" /\ Len(h) >= Len(c)
  BY Zenon DEF HashCompare
<1>2. fd[p] = partial[digest[p]] /\ fd[p] \in Inode
  BY <1>1, OfPuller, Zenon DEF PullInv
<1>3. c \in Seq(Byte) /\ h \in Seq(Byte)
  BY <1>2, Zenon DEF CacheInv, TypeOK
<1>4. Len(h) <= Len(c) /\ \A i \in 1 .. Len(h) : h[i] = c[i]
  BY <1>1, OfPuller, Zenon DEF PullInv
<1>5. h = c
  <2> HIDE DEF h, c
  <2>1. Len(h) \in Nat /\ Len(c) \in Nat
    BY <1>3, LenProperties, Zenon
  <2>2. Len(h) = Len(c)
    BY <1>1, <1>4, <2>1
  <2> QED
    BY <1>3, <1>4, <2>2, SeqEqual, Zenon
<1> QED
  BY <1>2, <1>5, Zenon

(* The comparison of the root hash keeps the invariant.                    *)
LEMMA HashCompareKeeps ==
  ASSUME CacheInv, TypeOK', OnePullPerDigest', NEW p \in Puller,
         HashCompare(p)
  PROVE  CacheInv'
<1>1. /\ pc[p] = "hashing"
      /\ UNCHANGED <<digest, hashed, partial, final, data>>
      /\ UNCHANGED fileVars
  BY Zenon DEF HashCompare, fileVars
<1>2. /\ fd[p] = partial[digest[p]] /\ fd[p] \in Inode
      /\ final[digest[p]] = NoFile /\ result[p] # "ok"
  BY <1>1, OfPuller, Zenon DEF PullInv, Active
<1>3. TypeOK
  BY Zenon DEF CacheInv
<1>4. /\ \/ pc'[p] = "rename" /\ Blake3(hashed[p]) = digest[p] /\ result' = result
         \/ pc'[p] = "remove" /\ result'[p] = "RootVerify"
      /\ \A q \in Puller : q # p =>
           pc'[q] = pc[q] /\ fd'[q] = fd[q] /\ result'[q] = result[q]
  BY <1>3 DEF TypeOK, HashCompare, Goto
<1>5. pc'[p] = "rename" => Blake3(data[partial[digest[p]]]) = digest[p]
  BY <1>4, HashedAll, Zenon
<1>6. partial[digest[p]] # NoFile
  BY <1>2, PullAssumption, Zenon
<1>7. PullInv(p)'
  BY <1>1, <1>2, <1>4, <1>5, <1>6, Zenon DEF PullInv, Active
<1> QED
  BY <1>1, <1>4, <1>7, NoFileStep, Zenon

(* Renaming publishes the file that root_hash accepted.                    *)
LEMMA RenameKeeps ==
  ASSUME CacheInv, TypeOK', OnePullPerDigest', NEW p \in Puller, Rename(p)
  PROVE  CacheInv'
<1> DEFINE d == digest[p]
<1>1. /\ pc[p] = "rename" /\ Active(p) /\ partial[d] # NoFile
      /\ final' = [final EXCEPT ![d] = partial[d]]
      /\ partial' = [partial EXCEPT ![d] = NoFile]
      /\ UNCHANGED <<digest, data>>
  BY Zenon DEF Rename, Return, Active
<1>2. Blake3(data[partial[d]]) = d /\ d \in Digest
  BY <1>1, OfPuller, Zenon DEF PullInv
<1>3. TypeOK /\ NamesDistinct /\ CacheIntegrity
  BY Zenon DEF CacheInv
<1>4. /\ final'[d] = partial[d] /\ partial'[d] = NoFile
      /\ \A e \in Digest : e # d =>
           partial'[e] = partial[e] /\ final'[e] = final[e]
  BY <1>1, <1>2, <1>3, Zenon DEF TypeOK
<1>5. CacheIntegrity'
  <2> HIDE DEF d
  <2>1. ASSUME NEW e \in Digest, final'[e] # NoFile
        PROVE  Blake3(data[final'[e]]) = e
    <3>1. CASE e = d
      BY <1>2, <1>4, <3>1, Zenon
    <3>2. CASE e # d
      BY <1>3, <1>4, <2>1, <3>2, Zenon DEF CacheIntegrity
    <3> QED
      BY <3>1, <3>2, Zenon
  <2> QED
    BY <1>1, <2>1, Zenon DEF CacheIntegrity
<1>6. NamesDistinct'
  <2> HIDE DEF d
  <2>1. ASSUME NEW e \in Digest, NEW f \in Digest, partial'[e] # NoFile
        PROVE  partial'[e] # final'[f] /\ (e # f => partial'[e] # partial'[f])
    <3>1. e # d /\ partial'[e] = partial[e]
      BY <1>4, <2>1, Zenon
    <3>2. CASE f = d
      BY <1>3, <1>4, <2>1, <3>1, <3>2, Zenon DEF NamesDistinct
    <3>3. CASE f # d
      BY <1>3, <1>4, <2>1, <3>1, <3>3, Zenon DEF NamesDistinct
    <3> QED
      BY <3>2, <3>3, Zenon
  <2> QED
    BY <2>1, Zenon DEF NamesDistinct
<1>7. /\ pc'[p] = "idle" /\ hashed'[p] = <<>> /\ result'[p] = "ok"
      /\ \A q \in Puller : q # p =>
            /\ pc'[q] = pc[q] /\ fd'[q] = fd[q]
            /\ hashed'[q] = hashed[q] /\ result'[q] = result[q]
  <2>1. /\ pc' = [pc EXCEPT ![p] = "idle"] /\ fd' = [fd EXCEPT ![p] = NoFile]
        /\ hashed' = [hashed EXCEPT ![p] = <<>>]
        /\ result' = [result EXCEPT ![p] = "ok"]
    BY Zenon DEF Rename, Return
  <2>2. /\ DOMAIN pc = Puller /\ DOMAIN fd = Puller
        /\ DOMAIN hashed = Puller /\ DOMAIN result = Puller
    BY <1>3, Zenon DEF TypeOK
  <2> QED
    BY <2>1, <2>2, Zenon
<1>8. PullInv(p)'
  BY <1>1, <1>4, <1>7, Zenon DEF PullInv, Active
<1>9. ASSUME NEW q \in Puller, q # p PROVE PullInv(q)'
  BY <1>1, <1>4, <1>7, <1>9, OthersKept, Zenon
<1> QED
  BY <1>5, <1>6, <1>8, <1>9, Zenon DEF CacheInv

(* Every step keeps CacheInv, as long as pulls of one digest do not        *)
(* overlap.                                                                *)
LEMMA CacheInvStep == CacheInv /\ [SerialNext]_vars => CacheInv'
<1> SUFFICES ASSUME CacheInv, [SerialNext]_vars PROVE CacheInv'
  BY Zenon
<1>0. TypeOK
  BY Zenon DEF CacheInv
<1>1. CASE UNCHANGED vars
  <2>1. /\ UNCHANGED <<pc, digest, fd, hashed, result>>
        /\ UNCHANGED <<partial, final, data>>
    BY <1>1, Zenon DEF vars, pullVars, fileVars
  <2>2. TypeOK'
    BY <1>0, <1>1, NextType, Zenon
  <2>3. OnePullPerDigest' /\ CacheIntegrity' /\ NamesDistinct'
    BY <2>1, Zenon
    DEF CacheInv, OnePullPerDigest, CacheIntegrity, NamesDistinct,
      Active
  <2>4. \A p \in Puller : PullInv(p)'
    BY <2>1, OfPuller, ZenonT(20) DEF PullInv, Active
  <2> QED
    BY <2>2, <2>3, <2>4, Zenon DEF CacheInv
<1>2. CASE SerialNext
  <2>0. TypeOK' /\ OnePullPerDigest'
    BY <1>0, <1>2, NextType, Zenon DEF SerialNext
  <2>1. ASSUME NEW p \in Puller, NEW d \in Digest, PullCached(p, d)
        PROVE  CacheInv'
    <3>1. /\ pc[p] = "idle" /\ final[d] # NoFile /\ digest'[p] = d
          /\ UNCHANGED <<pc, fd, hashed>> /\ UNCHANGED fileVars
          /\ \A q \in Puller : q # p =>
               digest'[q] = digest[q] /\ result'[q] = result[q]
      BY <1>0, <2>1, Zenon DEF TypeOK, PullCached, Active
    <3>2. PullInv(p)'
      BY <3>1, OfPuller, Zenon DEF PullInv, Active, fileVars
    <3> QED
      BY <2>0, <3>1, <3>2, NoFileStep, Zenon
  <2>2. ASSUME NEW p \in Puller, NEW d \in Digest, PullStart(p, d)
        PROVE  CacheInv'
    <3>1. /\ pc[p] = "idle" /\ pc'[p] = "open" /\ final[d] = NoFile
          /\ digest'[p] = d /\ result'[p] = "none"
          /\ UNCHANGED <<fd, hashed>> /\ UNCHANGED fileVars
          /\ \A q \in Puller : q # p =>
               /\ pc'[q] = pc[q] /\ digest'[q] = digest[q]
               /\ result'[q] = result[q]
      BY <1>0, <2>2, Zenon DEF TypeOK, PullStart, Goto, Active
    <3>2. PullInv(p)'
      BY <3>1, OfPuller, Zenon DEF PullInv, Active, fileVars
    <3> QED
      BY <2>0, <3>1, <3>2, NoFileStep, Zenon
  <2>3. ASSUME NEW p \in Puller, OpenPartial(p) PROVE CacheInv'
    BY <2>0, <2>3, OpenKeeps, Zenon
  <2>4. ASSUME NEW p \in Puller, SendQuery(p) PROVE CacheInv'
    <3>1. /\ pc[p] = "get" /\ pc'[p] = "recv"
          /\ UNCHANGED <<digest, fd, hashed, result>> /\ UNCHANGED fileVars
          /\ \A q \in Puller : q # p => pc'[q] = pc[q]
      BY <1>0, <2>4, Zenon DEF TypeOK, SendQuery, Goto
    <3>2. PullInv(p)'
      BY <3>1, OfPuller, Zenon DEF PullInv, Active, fileVars
    <3> QED
      BY <2>0, <3>1, <3>2, NoFileStep, Zenon
  <2>5. ASSUME NEW p \in Puller, ReceiveChunk(p) PROVE CacheInv'
    BY <2>0, <2>5, ReceiveKeeps, Zenon
  <2>6. ASSUME NEW p \in Puller, RejectReply(p) PROVE CacheInv'
    <3>1. ReplyError(Head(replies[p])) # "ok"
      BY Zenon DEF ReplyError
    <3> QED
      BY <2>0, <2>6, <3>1, ReturnKeeps, Zenon DEF RejectReply, Active
  <2>7. ASSUME NEW p \in Puller, EndOfReplies(p) PROVE CacheInv'
    <3>1. /\ pc[p] = "recv" /\ pc'[p] \in {"remove", "hash"}
          /\ result'[p] \in {"PeerMissing", "MalformedReply", result[p]}
          /\ UNCHANGED <<digest, hashed>> /\ UNCHANGED fileVars
          /\ \A q \in Puller : q # p =>
               pc'[q] = pc[q] /\ fd'[q] = fd[q] /\ result'[q] = result[q]
      BY <1>0, <2>7, Zenon DEF TypeOK, EndOfReplies, Goto
    <3>2. PullInv(p)'
      BY <3>1, OfPuller, Zenon DEF PullInv, Active, fileVars
    <3> QED
      BY <2>0, <3>1, <3>2, NoFileStep, Zenon
  <2>8. ASSUME NEW p \in Puller, RemovePartial(p) PROVE CacheInv'
    BY <2>0, <2>8, RemoveKeeps, Zenon
  <2>9. ASSUME NEW p \in Puller, HashOpen(p) PROVE CacheInv'
    <3>1. /\ pc[p] = "hash" /\ pc'[p] = "hashing"
          /\ fd'[p] = partial[digest[p]] /\ partial[digest[p]] \in Inode
          /\ UNCHANGED <<digest, hashed, result>> /\ UNCHANGED fileVars
          /\ UNCHANGED <<partial, final, data>>
          /\ \A q \in Puller : q # p => pc'[q] = pc[q] /\ fd'[q] = fd[q]
      BY <1>0, <2>9, Zenon DEF TypeOK, HashOpen, Goto, fileVars
    <3>2. hashed[p] = <<>>
      BY <3>1, OfPuller, Zenon DEF PullInv
    <3>3. Len(hashed[p]) = 0 /\ Len(data[fd'[p]]) \in Nat
      BY <1>0, <3>1, <3>2, EmptySeq, LenProperties, Zenon DEF TypeOK
    <3>4. /\ Len(hashed[p]) <= Len(data[fd'[p]])
          /\ \A i \in 1 .. Len(hashed[p]) : hashed[p][i] = data[fd'[p]][i]
      BY <3>3
    <3>5. PullInv(p)'
      BY <3>1, <3>4, OfPuller, Zenon DEF PullInv, Active
    <3> QED
      BY <2>0, <3>1, <3>5, NoFileStep, Zenon
  <2>10. ASSUME NEW p \in Puller, HashRead(p) PROVE CacheInv'
    BY <2>0, <2>10, HashReadKeeps, Zenon
  <2>11. ASSUME NEW p \in Puller, HashCompare(p) PROVE CacheInv'
    BY <2>0, <2>11, HashCompareKeeps, Zenon
  <2>12. ASSUME NEW p \in Puller, Rename(p) PROVE CacheInv'
    BY <2>0, <2>12, RenameKeeps, Zenon
  <2>13. ASSUME NEW p \in Puller, PartialGone(p) PROVE CacheInv'
    BY <2>0, <2>13, ReturnKeeps, Zenon DEF PartialGone, Active
  <2>14. ASSUME NEW p \in Puller, Fault(p) PROVE CacheInv'
    <3>1. GetFails(p) => CacheInv'
      BY <2>0, ReturnKeeps, Zenon DEF GetFails, Active
    <3>2. IoError(p) => CacheInv'
      BY <2>0, ReturnKeeps, Zenon DEF IoError, Active
    <3>3. Crash(p) => CacheInv'
      BY <2>0, ReturnKeeps, Zenon DEF Crash
    <3> QED
      BY <2>14, <3>1, <3>2, <3>3, Zenon DEF Fault
  <2>15. ASSUME NEW p \in Puller,
                (\E r \in Reply : Arrive(p, r)) \/ Close(p)
         PROVE  CacheInv'
    <3>1. UNCHANGED <<pc, digest, fd, hashed, result>> /\ UNCHANGED fileVars
      BY <2>15, Zenon DEF Arrive, Close, pullVars
    <3>2. PullInv(p)'
      BY <3>1, OfPuller, Zenon DEF PullInv, Active, fileVars
    <3> QED
      BY <2>0, <3>1, <3>2, NoFileStep, Zenon
  <2> QED
    BY <1>2, <2>1, <2>2, <2>3, <2>4, <2>5, <2>6, <2>7, <2>8, <2>9, <2>10,
       <2>11, <2>12, <2>13, <2>14, <2>15, Zenon
    DEF SerialNext, Next, PullStep, LocalStep
<1> QED
  BY <1>1, <1>2, Zenon

(* The invariant holds of an empty cache.                                  *)
LEMMA CacheInvInit == Init => CacheInv
<1> SUFFICES ASSUME Init PROVE CacheInv
  BY Zenon
<1>1. TypeOK
  BY InitType, Zenon
<1>2. OnePullPerDigest
  BY Zenon DEF Init, OnePullPerDigest, Active
<1>3. CacheIntegrity /\ NamesDistinct
  BY Zenon DEF Init, CacheIntegrity, NamesDistinct
<1>4. \A p \in Puller : PullInv(p)
  BY Zenon DEF Init, PullInv, Active
<1> QED
  BY <1>1, <1>2, <1>3, <1>4, Zenon DEF CacheInv

(* The inductive invariant: as long as pulls of one digest do not overlap, *)
(* the temp name, the open file and the hasher of every pull of            *)
(* pull_with_options agree.                                                *)
THEOREM CacheInvariant == SerialSpec => []CacheInv
  BY CacheInvInit, CacheInvStep, PTL DEF SerialSpec

(* As long as pulls of one digest do not overlap on a cache directory,     *)
(* every file it holds under a digest's name has exactly the bytes of that *)
(* digest, whatever the peers send and wherever pulls fail or crash.       *)
THEOREM CacheIsSound == SerialSpec => []CacheIntegrity
<1>1. CacheInv => CacheIntegrity
  BY Zenon DEF CacheInv
<1> QED
  BY <1>1, CacheInvariant, PTL

(* Under the same condition a path returned with Ok is, and stays, a file  *)
(* with the right bytes, the unchecked return of a cached path included.   *)
THEOREM OkIsSound == SerialSpec => []OkMeansVerified
<1>1. CacheInv => OkMeansVerified
  BY Zenon DEF CacheInv, CacheIntegrity, PullInv, OkMeansVerified, TypeOK
<1> QED
  BY <1>1, CacheInvariant, PTL

-----------------------------------------------------------------------------
(* Only Rename changes the entries, and no step changes the bytes of one.  *)
LEMMA EntryStep ==
  ASSUME CacheInv, SerialNext
  PROVE  /\ final' = final \/ \E p \in Puller : Rename(p)
         /\ \A d \in Digest : final[d] # NoFile => data'[final[d]] = data[final[d]]
<1>1. ASSUME NEW p \in Puller, Rename(p)
      PROVE  data' = data
  BY <1>1, Zenon DEF Rename
<1>2. ASSUME NEW p \in Puller, OpenPartial(p)
      PROVE  /\ final' = final
             /\ \A d \in Digest :
                  final[d] # NoFile => data'[final[d]] = data[final[d]]
  <2>1. PICK i \in Inode :
          /\ IF partial[digest[p]] = NoFile THEN Unused(i)
                                            ELSE i = partial[digest[p]]
          /\ data' = [data EXCEPT ![i] = <<>>]
    BY <1>2, Zenon DEF OpenPartial
  <2>2. \A d \in Digest : final[d] # i
    BY <2>1, PullAssumption, Zenon DEF CacheInv, TypeOK, NamesDistinct, Unused
  <2> QED
    BY <1>2, <2>1, <2>2, Zenon DEF OpenPartial, CacheInv, TypeOK
<1>3. ASSUME NEW p \in Puller, ReceiveChunk(p)
      PROVE  /\ final' = final
             /\ \A d \in Digest :
                  final[d] # NoFile => data'[final[d]] = data[final[d]]
  <2>1. \A d \in Digest : final[d] # fd[p]
    <3>1. fd[p] = partial[digest[p]] /\ fd[p] # NoFile
      BY <1>3, OfPuller, PullAssumption, Zenon DEF PullInv, ReceiveChunk
    <3> QED
      BY <3>1, OfPuller, Zenon DEF CacheInv, NamesDistinct
  <2>2. TypeOK
    BY Zenon DEF CacheInv
  <2> QED
    BY <1>3, <2>1, <2>2, Zenon DEF ReceiveChunk, TypeOK
<1>4. ASSUME NEW p \in Puller,
             \/ \E d \in Digest : PullCached(p, d) \/ PullStart(p, d)
             \/ SendQuery(p) \/ RejectReply(p) \/ EndOfReplies(p)
             \/ RemovePartial(p) \/ HashOpen(p) \/ HashRead(p)
             \/ HashCompare(p) \/ PartialGone(p) \/ Fault(p)
             \/ (\E r \in Reply : Arrive(p, r)) \/ Close(p)
      PROVE  final' = final /\ data' = data
  BY <1>4, Zenon
  DEF PullCached, PullStart, SendQuery, RejectReply, EndOfReplies,
    RemovePartial, HashOpen, HashRead, HashCompare, PartialGone, Fault,
    GetFails, IoError, Crash, Arrive, Close, fileVars
<1> QED
  BY <1>1, <1>2, <1>3, <1>4, Zenon DEF SerialNext, Next, PullStep, LocalStep

(* Rename publishes the verified temp file under a name not taken.         *)
LEMMA RenamePublishes ==
  ASSUME CacheInv, NEW p \in Puller, Rename(p)
  PROVE  /\ digest[p] \in Digest
         /\ final[digest[p]] = NoFile
         /\ final' = [final EXCEPT ![digest[p]] = partial[digest[p]]]
         /\ partial[digest[p]] \in Inode
         /\ Blake3(data[partial[digest[p]]]) = digest[p]
         /\ data' = data
<1>1. /\ pc[p] = "rename" /\ partial[digest[p]] # NoFile
      /\ final' = [final EXCEPT ![digest[p]] = partial[digest[p]]]
      /\ data' = data
  BY Zenon DEF Rename
<1>2. partial[digest[p]] \in Inode
  BY <1>1, OfPuller, Zenon DEF CacheInv, TypeOK
<1> QED
  BY <1>1, <1>2, OfPuller, Zenon DEF PullInv, Active

(* No step touches a published entry.                                      *)
LEMMA FrozenStep == CacheInv /\ [SerialNext]_vars => [Frozen]_vars
<1> SUFFICES ASSUME CacheInv, SerialNext PROVE Frozen
  BY Zenon
<1>1. CASE final' = final
  BY <1>1, EntryStep, Zenon DEF Frozen
<1>2. ASSUME NEW p \in Puller, Rename(p) PROVE Frozen
  BY <1>2, RenamePublishes, Zenon DEF Frozen, CacheInv, TypeOK
<1> QED
  BY <1>1, <1>2, EntryStep, Zenon

(* As long as pulls of one digest do not overlap, a published entry never  *)
(* changes: no later open, write, rename or removal reaches its file.      *)
THEOREM EntriesNeverChange == SerialSpec => EntriesAreFrozen
  BY CacheInvariant, FrozenStep, PTL DEF SerialSpec, EntriesAreFrozen

(* The entries as ContentCache sees them.                                  *)
Store == [d \in Digest |-> IF final[d] = NoFile THEN {} ELSE {data[final[d]]}]

(* Every step is a step of ContentCache or leaves the store as it is.      *)
LEMMA StoreStep == CacheInv /\ [SerialNext]_vars => [Cache!Next]_Store
<1> SUFFICES ASSUME CacheInv, [SerialNext]_vars PROVE [Cache!Next]_Store
  BY Zenon
<1>1. CASE UNCHANGED vars
  BY <1>1, Zenon DEF Store, vars, fileVars
<1>2. CASE SerialNext /\ final' = final
  BY <1>2, EntryStep, Zenon DEF Store
<1>3. ASSUME NEW p \in Puller, Rename(p) PROVE Cache!Next
  <2>1. PICK d \in Digest : d = digest[p]
    BY Zenon DEF CacheInv, TypeOK
  <2>2. PICK b : b = data[partial[d]]
    BY Zenon
  <2>3. /\ final[d] = NoFile /\ partial[d] \in Inode
        /\ final' = [final EXCEPT ![d] = partial[d]]
        /\ Blake3(b) = d /\ data' = data
    BY <1>3, <2>1, <2>2, RenamePublishes, Zenon
  <2>4. Store[d] = {}
    BY <2>3, Zenon DEF Store
  <2>5. partial[d] # NoFile /\ final \in [Digest -> Inode \cup {NoFile}]
    BY <2>3, PullAssumption, Zenon DEF CacheInv, TypeOK
  <2>6. Store' = [Store EXCEPT ![d] = {b}] /\ Store'[d] = {b}
    BY <2>2, <2>3, <2>5, Zenon DEF Store
  <2>7. Cache!Publish(d)
    BY <2>3, <2>4, <2>6, Zenon DEF Cache!Publish, Store
  <2> QED
    BY <2>7, Zenon DEF Cache!Next
<1> QED
  BY <1>1, <1>2, <1>3, EntryStep, Zenon

(* As long as pulls of one digest do not overlap, the cache directory      *)
(* implements ContentCache: entries appear complete, in one step, and stay.*)
THEOREM ImplementsCache == SerialSpec => CacheSpec
<1>1. Init => Cache!Init
  BY Zenon DEF Init, Cache!Init
<1> QED
  BY <1>1, CacheInvariant, StoreStep, PTL DEF SerialSpec, CacheSpec,
     Cache!Spec, Store

-----------------------------------------------------------------------------
(* Only Rename changes the entries, overlapping pulls or not.              *)
LEMMA OnlyRenameChanges ==
  ASSUME Next
  PROVE  final' = final \/ \E p \in Puller : Rename(p)
<1>1. ASSUME NEW p \in Puller,
             \/ \E d \in Digest : PullCached(p, d) \/ PullStart(p, d)
             \/ OpenPartial(p) \/ SendQuery(p) \/ ReceiveChunk(p)
             \/ RejectReply(p) \/ EndOfReplies(p)
             \/ RemovePartial(p) \/ HashOpen(p) \/ HashRead(p)
             \/ HashCompare(p) \/ PartialGone(p) \/ Fault(p)
             \/ (\E r \in Reply : Arrive(p, r)) \/ Close(p)
      PROVE  final' = final
  BY <1>1, Zenon
  DEF PullCached, PullStart, OpenPartial, SendQuery, ReceiveChunk,
    RejectReply, EndOfReplies, RemovePartial, HashOpen, HashRead,
    HashCompare, PartialGone, Fault, GetFails, IoError, Crash, Arrive, Close,
    fileVars
<1> QED
  BY <1>1, Zenon DEF Next, PullStep, LocalStep

(* However the pulls of one digest overlap, fail or crash, an entry of the *)
(* cache directory is never taken away: pull_with_options removes nothing  *)
(* but its temp name.                                                      *)
THEOREM EntriesNeverVanish == Spec => EntriesStay
<1> DEFINE Stay == \A d \in Digest : final[d] # NoFile => final'[d] # NoFile
<1>1. TypeOK /\ [Next]_vars => [Stay]_vars
  <2> SUFFICES ASSUME TypeOK, Next PROVE Stay
    BY Zenon
  <2>1. CASE final' = final
    BY <2>1, Zenon
  <2>2. ASSUME NEW p \in Puller, Rename(p) PROVE Stay
    <3>1. /\ partial[digest[p]] # NoFile /\ digest[p] \in Digest
          /\ final' = [final EXCEPT ![digest[p]] = partial[digest[p]]]
          /\ DOMAIN final = Digest
      BY <2>2, Zenon DEF Rename, TypeOK
    <3> QED
      BY <3>1, Zenon
  <2> QED
    BY <2>1, <2>2, OnlyRenameChanges, Zenon
<1> QED
  BY <1>1, TypeCorrect, PTL DEF Spec, EntriesStay
=============================================================================

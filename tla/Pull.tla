-------------------------------- MODULE Pull --------------------------------
(***************************************************************************)
(* The receiver side of furcate-mesh-transfer:                             *)
(* TransferService::pull_with_options, root_hash and ChunkVerifier::verify *)
(* working on one cache directory.                                         *)
(*                                                                         *)
(* A Puller is one task (or one process) that calls pull again and again   *)
(* on the same cache_dir.  The cache directory is modelled as a file       *)
(* system: names (<digest> and <digest>.partial) point to inodes, inodes   *)
(* hold bytes, and an open file keeps its inode when its name is renamed   *)
(* or removed.  Every await of pull_with_options between two file-system   *)
(* calls is a place where other pullers run.                               *)
(*                                                                         *)
(* What the mesh sends is arbitrary here (Arrive, Close): whatever is      *)
(* shown of Pull holds for every sender.  Module Transfer composes it with *)
(* the sender side.                                                        *)
(***************************************************************************)
EXTENDS Naturals, Sequences

CONSTANTS
  Puller,       \* tasks calling pull on this cache directory
  Digest,       \* the digests they ask for
  Inode,        \* file identities of the cache file system
  NoFile,       \* "no such file": the value of a missing name or a closed fd
  Byte,         \* byte values
  Zero,         \* the byte a sparse hole reads as
  Payload,      \* payloads a reply can carry
  Offset,       \* offsets a chunk header can carry
  CHUNK_SIZE,   \* read size of root_hash and of the sender
  MaxInFlight   \* bound: replies buffered for one pull

ASSUME PullAssumption ==
  /\ Zero \in Byte
  /\ NoFile \notin Inode
  /\ Digest # {}
  /\ Payload \subseteq Seq(Byte)
  /\ Offset \subseteq Nat
  /\ CHUNK_SIZE \in Nat \ {0}
  /\ MaxInFlight \in Nat

VARIABLES
  pc,       \* next step of each puller
  digest,   \* the digest_hex of its current, or last, pull
  fd,       \* inode it holds open: tmp_file, later root_hash's file
  gotAny,   \* got_any
  gotLast,  \* got_last
  hashed,   \* bytes root_hash has fed to its hasher
  result,   \* how its last pull returned
  replies,  \* reply channel of its get(): replies not yet received
  closed,   \* Zenoh has finished its get(): no reply will be added
  partial,  \* directory entry <digest>.partial
  final,    \* directory entry <digest>
  data      \* contents of the inodes

pullVars == <<pc, digest, fd, gotAny, gotLast, hashed, result>>
chanVars == <<replies, closed>>
fileVars == <<partial, final, data>>
vars == <<pullVars, chanVars, fileVars>>

-----------------------------------------------------------------------------
(* BLAKE3, as an ideal hash: equal hashes are hashes of equal bytes.       *)
Blake3(bytes) == [blake3 |-> bytes]

Chunk == [kind : {"chunk"}, offset : Offset, payload : Payload,
          chunk_hash : {Blake3(b) : b \in Payload}, last : BOOLEAN]

(* What can come out of the reply channel: a chunk with its header, a      *)
(* Zenoh error reply, a reply whose attachment is missing or undecodable.  *)
Reply == Chunk \cup [kind : {"error", "malformed"}]

(* ChunkVerifier::verify.                                                  *)
Verify(r) == Blake3(r.payload) = r.chunk_hash

(* seek(Start(off)) then write_all(bytes) on a file holding content: the   *)
(* gap left by a seek past the end reads as zeros.                         *)
WriteAt(content, off, bytes) ==
  LET end == off + Len(bytes)
      len == IF bytes # <<>> /\ end > Len(content) THEN end ELSE Len(content)
  IN  [i \in 1 .. len |->
         IF i > off /\ i <= end THEN bytes[i - off]
         ELSE IF i <= Len(content) THEN content[i] ELSE Zero]

(* The lengths one read() can return when avail bytes are left: a full     *)
(* buffer or the rest, or fewer.                                           *)
ReadSizes(avail) == 1 .. (IF avail < CHUNK_SIZE THEN avail ELSE CHUNK_SIZE)

(* The bytes a sequential reader has seen after reading n more of content. *)
ReadOn(seen, content, n) ==
  [i \in 1 .. Len(seen) + n |->
     IF i <= Len(seen) THEN seen[i] ELSE content[i]]

Active(p) == pc[p] # "idle"

(* How a pull can have ended: with the path, or with a TransferError; none *)
(* while it runs or after a crash.                                         *)
Result == {"none", "ok", "PeerMissing", "MalformedReply", "ChunkVerify",
           "RootVerify", "Transport", "Io"}

(* An inode that no name and no open file refers to can be allocated.      *)
Unused(i) ==
  /\ \A d \in Digest : partial[d] # i /\ final[d] # i
  /\ \A p \in Puller : fd[p] # i

-----------------------------------------------------------------------------
Init ==
  /\ pc = [p \in Puller |-> "idle"]
  /\ digest = [p \in Puller |-> CHOOSE d \in Digest : TRUE]
  /\ fd = [p \in Puller |-> NoFile]
  /\ gotAny = [p \in Puller |-> FALSE]
  /\ gotLast = [p \in Puller |-> FALSE]
  /\ hashed = [p \in Puller |-> <<>>]
  /\ result = [p \in Puller |-> "none"]
  /\ replies = [p \in Puller |-> <<>>]
  /\ closed = [p \in Puller |-> TRUE]
  /\ partial = [d \in Digest |-> NoFile]
  /\ final = [d \in Digest |-> NoFile]
  /\ data = [i \in Inode |-> <<>>]

(* pull_with_options returns r: its locals, the open file and the reply    *)
(* channel are dropped.                                                    *)
Return(p, r) ==
  /\ pc' = [pc EXCEPT ![p] = "idle"]
  /\ result' = [result EXCEPT ![p] = r]
  /\ fd' = [fd EXCEPT ![p] = NoFile]
  /\ gotAny' = [gotAny EXCEPT ![p] = FALSE]
  /\ gotLast' = [gotLast EXCEPT ![p] = FALSE]
  /\ hashed' = [hashed EXCEPT ![p] = <<>>]
  /\ replies' = [replies EXCEPT ![p] = <<>>]
  /\ closed' = [closed EXCEPT ![p] = TRUE]
  /\ UNCHANGED digest

Goto(p, l) == pc' = [pc EXCEPT ![p] = l]

(* The call: a digest whose final_path exists is returned as it is, any    *)
(* other pull goes on to open its temp file.                               *)
PullCached(p, d) ==
  /\ ~Active(p)
  /\ final[d] # NoFile
  /\ digest' = [digest EXCEPT ![p] = d]
  /\ result' = [result EXCEPT ![p] = "ok"]
  /\ UNCHANGED <<pc, fd, gotAny, gotLast, hashed, chanVars, fileVars>>

(* Mutant: final_path is not looked at.                                    *)
PullStartAnyway(p, d) ==
  /\ ~Active(p)
  /\ digest' = [digest EXCEPT ![p] = d]
  /\ result' = [result EXCEPT ![p] = "none"]
  /\ Goto(p, "open")
  /\ UNCHANGED <<fd, gotAny, gotLast, hashed, chanVars, fileVars>>

PullStart(p, d) ==
  /\ ~Active(p)
  /\ final[d] = NoFile
  /\ digest' = [digest EXCEPT ![p] = d]
  /\ result' = [result EXCEPT ![p] = "none"]
  /\ Goto(p, "open")
  /\ UNCHANGED <<fd, gotAny, gotLast, hashed, chanVars, fileVars>>

(* Open <digest>.partial with create and truncate: an existing file, left  *)
(* by a crash or in use by another pull, is emptied in place.              *)
OpenPartial(p) ==
  LET d == digest[p] IN
  /\ pc[p] = "open"
  /\ \E i \in Inode :
       /\ IF partial[d] = NoFile THEN Unused(i) ELSE i = partial[d]
       /\ partial' = [partial EXCEPT ![d] = i]
       /\ data' = [data EXCEPT ![i] = <<>>]
       /\ fd' = [fd EXCEPT ![p] = i]
  /\ Goto(p, "get")
  /\ UNCHANGED <<digest, gotAny, gotLast, hashed, result, chanVars, final>>

(* session.get(..) is issued; its reply channel is open and empty.         *)
SendQuery(p) ==
  /\ pc[p] = "get"
  /\ replies' = [replies EXCEPT ![p] = <<>>]
  /\ closed' = [closed EXCEPT ![p] = FALSE]
  /\ Goto(p, "recv")
  /\ UNCHANGED <<digest, fd, gotAny, gotLast, hashed, result, fileVars>>

(* session.get(..) fails; the temp file stays where it is.                 *)
GetFails(p) ==
  /\ pc[p] = "get"
  /\ Return(p, "Transport")
  /\ UNCHANGED fileVars

(* Mutant: the chunk is appended, its offset ignored.                      *)
AppendChunk(p) ==
  LET r == Head(replies[p]) IN
  /\ pc[p] = "recv"
  /\ replies[p] # <<>>
  /\ r.kind = "chunk"
  /\ Verify(r)
  /\ data' = [data EXCEPT ![fd[p]] = @ \o r.payload]
  /\ gotAny' = [gotAny EXCEPT ![p] = TRUE]
  /\ gotLast' = [gotLast EXCEPT ![p] = @ \/ r.last]
  /\ replies' = [replies EXCEPT ![p] = Tail(@)]
  /\ UNCHANGED <<pc, digest, fd, hashed, result, closed, partial, final>>

(* One turn of the reply loop, for a chunk that verifies: it is written at *)
(* its offset, whatever came before it and whoever sent it.                *)
ReceiveChunk(p) ==
  LET r == Head(replies[p]) IN
  /\ pc[p] = "recv"
  /\ replies[p] # <<>>
  /\ r.kind = "chunk"
  /\ Verify(r)
  /\ data' = [data EXCEPT ![fd[p]] = WriteAt(@, r.offset, r.payload)]
  /\ gotAny' = [gotAny EXCEPT ![p] = TRUE]
  /\ gotLast' = [gotLast EXCEPT ![p] = @ \/ r.last]
  /\ replies' = [replies EXCEPT ![p] = Tail(@)]
  /\ UNCHANGED <<pc, digest, fd, hashed, result, closed, partial, final>>

(* The error a reply that cannot be used makes the pull return.            *)
ReplyError(r) ==
  CASE r.kind = "error" -> "Transport"
    [] r.kind = "malformed" -> "MalformedReply"
    [] OTHER -> "ChunkVerify"

(* The same turn for any other reply: the pull returns at once and leaves  *)
(* its temp file behind.                                                   *)
RejectReply(p) ==
  LET r == Head(replies[p]) IN
  /\ pc[p] = "recv"
  /\ replies[p] # <<>>
  /\ r.kind = "chunk" => ~Verify(r)
  /\ Return(p, ReplyError(r))
  /\ UNCHANGED fileVars

(* Mutant: chunk hashes are trusted, the root hash is never taken.         *)
EndOfRepliesUnhashed(p) ==
  /\ pc[p] = "recv"
  /\ replies[p] = <<>>
  /\ closed[p]
  /\ fd' = [fd EXCEPT ![p] = NoFile]
  /\ IF gotAny[p] /\ gotLast[p]
     THEN Goto(p, "rename") /\ UNCHANGED result
     ELSE /\ result' = [result EXCEPT ![p] = "PeerMissing"]
          /\ Goto(p, "remove")
  /\ UNCHANGED <<digest, gotAny, gotLast, hashed, chanVars, fileVars>>

(* Mutant: only a last chunk ends the loop.                                *)
EndOfRepliesWaits(p) ==
  /\ pc[p] = "recv"
  /\ replies[p] = <<>>
  /\ closed[p] /\ gotLast[p]
  /\ fd' = [fd EXCEPT ![p] = NoFile]
  /\ Goto(p, "hash")
  /\ UNCHANGED <<digest, gotAny, gotLast, hashed, result, chanVars, fileVars>>

(* The channel is closed and drained: the loop ends.  Without any reply,   *)
(* or without a last chunk, the temp file is to be removed; otherwise it   *)
(* is flushed, closed and re-hashed.                                       *)
EndOfReplies(p) ==
  /\ pc[p] = "recv"
  /\ replies[p] = <<>>
  /\ closed[p]
  /\ fd' = [fd EXCEPT ![p] = NoFile]
  /\ \/ /\ ~gotAny[p]
        /\ result' = [result EXCEPT ![p] = "PeerMissing"]
        /\ Goto(p, "remove")
     \/ /\ gotAny[p] /\ ~gotLast[p]
        /\ result' = [result EXCEPT ![p] = "MalformedReply"]
        /\ Goto(p, "remove")
     \/ /\ gotAny[p] /\ gotLast[p]
        /\ Goto(p, "hash")
        /\ UNCHANGED result
  /\ UNCHANGED <<digest, gotAny, gotLast, hashed, chanVars, fileVars>>

(* Mutant: the clean-up removes final_path.                                *)
RemoveFinal(p) ==
  /\ pc[p] = "remove"
  /\ final' = [final EXCEPT ![digest[p]] = NoFile]
  /\ Return(p, result[p])
  /\ UNCHANGED <<partial, data>>

(* remove_file(tmp_path), its own errors ignored, and the error return.    *)
RemovePartial(p) ==
  /\ pc[p] = "remove"
  /\ partial' = [partial EXCEPT ![digest[p]] = NoFile]
  /\ Return(p, result[p])
  /\ UNCHANGED <<final, data>>

(* root_hash opens the temp file again, by name.                           *)
HashOpen(p) ==
  /\ pc[p] = "hash"
  /\ partial[digest[p]] # NoFile
  /\ fd' = [fd EXCEPT ![p] = partial[digest[p]]]
  /\ Goto(p, "hashing")
  /\ UNCHANGED <<digest, gotAny, gotLast, hashed, result, chanVars, fileVars>>

(* One read of root_hash's loop.                                           *)
HashRead(p) ==
  LET content == data[fd[p]] IN
  /\ pc[p] = "hashing"
  /\ Len(hashed[p]) < Len(content)
  /\ \E n \in ReadSizes(Len(content) - Len(hashed[p])) :
       hashed' = [hashed EXCEPT ![p] = ReadOn(@, content, n)]
  /\ UNCHANGED <<pc, digest, fd, gotAny, gotLast, result, chanVars, fileVars>>

(* Mutant: one read is taken for the whole file.                           *)
HashCompareEarly(p) ==
  /\ pc[p] = "hashing"
  /\ fd' = [fd EXCEPT ![p] = NoFile]
  /\ IF Blake3(hashed[p]) = digest[p]
     THEN Goto(p, "rename") /\ UNCHANGED result
     ELSE Goto(p, "remove") /\ result' = [result EXCEPT ![p] = "RootVerify"]
  /\ UNCHANGED <<digest, gotAny, gotLast, hashed, chanVars, fileVars>>

(* End of file: the root hash is compared with the requested digest.       *)
HashCompare(p) ==
  /\ pc[p] = "hashing"
  /\ Len(hashed[p]) >= Len(data[fd[p]])
  /\ \/ /\ Blake3(hashed[p]) = digest[p]
        /\ Goto(p, "rename")
        /\ UNCHANGED result
     \/ /\ Blake3(hashed[p]) # digest[p]
        /\ Goto(p, "remove")
        /\ result' = [result EXCEPT ![p] = "RootVerify"]
  /\ fd' = [fd EXCEPT ![p] = NoFile]
  /\ UNCHANGED <<digest, gotAny, gotLast, hashed, chanVars, fileVars>>

(* rename(tmp_path, final_path): whatever the temp name points to becomes  *)
(* the cache entry.                                                        *)
Rename(p) ==
  LET d == digest[p] IN
  /\ pc[p] = "rename"
  /\ partial[d] # NoFile
  /\ final' = [final EXCEPT ![d] = partial[d]]
  /\ partial' = [partial EXCEPT ![d] = NoFile]
  /\ Return(p, "ok")
  /\ UNCHANGED data

(* The temp name is gone when root_hash or rename wants it.                *)
PartialGone(p) ==
  /\ pc[p] \in {"hash", "rename"}
  /\ partial[digest[p]] = NoFile
  /\ Return(p, "Io")
  /\ UNCHANGED fileVars

(* Mutant: an error of rename is ignored.                                  *)
IoErrorIgnored(p) ==
  /\ \/ pc[p] \in {"open", "hash", "hashing", "rename"}
     \/ pc[p] = "recv" /\ replies[p] # <<>>
  /\ Return(p, IF pc[p] = "rename" THEN "ok" ELSE "Io")
  /\ UNCHANGED fileVars

(* Any other `?` on a file operation: the error is returned as it is.      *)
IoError(p) ==
  /\ \/ pc[p] \in {"open", "hash", "hashing", "rename"}
     \/ pc[p] = "recv" /\ replies[p] # <<>>
  /\ Return(p, "Io")
  /\ UNCHANGED fileVars

(* The process dies, or the future is dropped, between two steps.          *)
Crash(p) ==
  /\ Active(p)
  /\ Return(p, "none")
  /\ UNCHANGED fileVars

-----------------------------------------------------------------------------
(* The environment: Zenoh adds a reply to an open channel, or closes it    *)
(* because every queried peer has finished or the timeout has expired.     *)
Arrive(p, r) ==
  /\ pc[p] = "recv"
  /\ ~closed[p]
  /\ Len(replies[p]) < MaxInFlight
  /\ replies' = [replies EXCEPT ![p] = Append(@, r)]
  /\ UNCHANGED <<pullVars, closed, fileVars>>

Close(p) ==
  /\ pc[p] = "recv"
  /\ ~closed[p]
  /\ closed' = [closed EXCEPT ![p] = TRUE]
  /\ UNCHANGED <<pullVars, replies, fileVars>>

(* The steps of one call of pull_with_options after the first; all but     *)
(* SendQuery are local to the puller and its cache directory.              *)
LocalStep(p) ==
  \/ OpenPartial(p) \/ ReceiveChunk(p) \/ RejectReply(p)
  \/ EndOfReplies(p) \/ RemovePartial(p)
  \/ HashOpen(p) \/ HashRead(p) \/ HashCompare(p)
  \/ Rename(p) \/ PartialGone(p)

PullStep(p) == LocalStep(p) \/ SendQuery(p)

Fault(p) == GetFails(p) \/ IoError(p) \/ Crash(p)

Next ==
  \E p \in Puller :
    \/ \E d \in Digest : PullCached(p, d) \/ PullStart(p, d)
    \/ PullStep(p)
    \/ Fault(p)
    \/ \E r \in Reply : Arrive(p, r)
    \/ Close(p)

Spec == Init /\ [][Next]_vars

(* Callers that never run two pulls of the same digest at the same time on *)
(* the same cache directory; pulls of different digests may overlap.       *)
OnePullPerDigest ==
  \A p, q \in Puller :
    p # q /\ Active(p) /\ Active(q) => digest[p] # digest[q]

SerialNext == Next /\ OnePullPerDigest'

SerialSpec == Init /\ [][SerialNext]_vars

-----------------------------------------------------------------------------
TypeOK ==
  /\ pc \in [Puller -> {"idle", "open", "get", "recv", "remove",
                        "hash", "hashing", "rename"}]
  /\ digest \in [Puller -> Digest]
  /\ fd \in [Puller -> Inode \cup {NoFile}]
  /\ gotAny \in [Puller -> BOOLEAN]
  /\ gotLast \in [Puller -> BOOLEAN]
  /\ hashed \in [Puller -> Seq(Byte)]
  /\ result \in [Puller -> Result]
  /\ replies \in [Puller -> Seq(Reply)]
  /\ closed \in [Puller -> BOOLEAN]
  /\ partial \in [Digest -> Inode \cup {NoFile}]
  /\ final \in [Digest -> Inode \cup {NoFile}]
  /\ data \in [Inode -> Seq(Byte)]
  /\ \A p \in Puller : pc[p] \in {"get", "recv", "hashing"} => fd[p] # NoFile

(* Every file in the cache directory under a digest's own name holds       *)
(* exactly the bytes of that digest, at every moment: pull_with_options    *)
(* publishes only what root_hash accepted, whatever the senders sent,      *)
(* whichever step failed and wherever the process died.                    *)
CacheIntegrity ==
  \A d \in Digest : final[d] # NoFile => Blake3(data[final[d]]) = d

(* A path that pull has returned with Ok is a file with the right bytes,   *)
(* then and ever after: the early return for a cached digest, which does   *)
(* not hash the file again, is as good as a verified download.             *)
OkMeansVerified ==
  \A p \in Puller : result[p] = "ok" =>
    /\ final[digest[p]] # NoFile
    /\ Blake3(data[final[digest[p]]]) = digest[p]

(* Once published, a cache entry is never removed, replaced or written to  *)
(* again, by this pull, a later one, or one of another digest.             *)
Frozen ==
  \A d \in Digest : final[d] # NoFile =>
    /\ final'[d] = final[d]
    /\ data'[final[d]] = data[final[d]]

EntriesAreFrozen == [][Frozen]_vars

(* The inductive invariant behind the three properties above.  Under       *)
(* OnePullPerDigest a temp name belongs to the one pull of its digest: the *)
(* pull's open file is that file, no other name shares its inode, what     *)
(* root_hash has read is still what the file holds, and what is about to   *)
(* be renamed is what root_hash accepted.                                  *)
NamesDistinct ==
  \A d, e \in Digest : partial[d] # NoFile =>
    /\ partial[d] # final[e]
    /\ d # e => partial[d] # partial[e]

PullInv(p) ==
  /\ Active(p) => final[digest[p]] = NoFile
  /\ result[p] = "ok" => final[digest[p]] # NoFile
  /\ pc[p] \in {"get", "recv", "hashing"} => fd[p] = partial[digest[p]]
  /\ pc[p] \notin {"hashing", "rename", "remove"} => hashed[p] = <<>>
  /\ pc[p] = "hashing" =>
       /\ Len(hashed[p]) <= Len(data[fd[p]])
       /\ \A i \in 1 .. Len(hashed[p]) : hashed[p][i] = data[fd[p]][i]
  /\ pc[p] = "rename" =>
       /\ partial[digest[p]] # NoFile
       /\ Blake3(data[partial[digest[p]]]) = digest[p]

CacheInv ==
  /\ TypeOK
  /\ OnePullPerDigest
  /\ CacheIntegrity
  /\ NamesDistinct
  /\ \A p \in Puller : PullInv(p)

(* Even when pulls of one digest overlap, no failing pull takes away an    *)
(* entry that is already in the cache: the removals of pull_with_options   *)
(* only ever hit the temp name.                                            *)
EntriesStay ==
  [][\A d \in Digest : final[d] # NoFile => final'[d] # NoFile]_vars

(* The cache directory implements the promise of ContentCache: Rename is   *)
(* its Publish, every other step leaves the entries alone.                 *)
Cache == INSTANCE ContentCache WITH
  Hash <- Blake3,
  store <- [d \in Digest |->
              IF final[d] = NoFile THEN {} ELSE {data[final[d]]}]

CacheSpec == Cache!Spec
=============================================================================

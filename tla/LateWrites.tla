----------------------------- MODULE LateWrites -----------------------------
(***************************************************************************)
(* Pull on an asynchronous file.  tokio's File hands each write to a       *)
(* blocking thread and returns before it is done; the next operation on    *)
(* the file waits for it, dropping the file does not.  pull_with_options   *)
(* flushes only on its way to root_hash, so a pull that returns from its   *)
(* reply loop with an error, or whose future is dropped there, can leave   *)
(* its last write to land later.  The death of its process takes the       *)
(* write with it.                                                          *)
(***************************************************************************)
EXTENDS Pull

VARIABLES
  unflushed,  \* the last write of each pull, not waited for yet
  late        \* writes whose file has been dropped

lateVars == <<vars, unflushed, late>>

LateInit ==
  /\ Init
  /\ unflushed = [p \in Puller |-> {}]
  /\ late = {}

(* One turn of the reply loop for a chunk that verifies: seek waits for    *)
(* the write before it, write_all only starts the next one.                *)
WriteChunk(p) ==
  LET r == Head(replies[p]) IN
  /\ pc[p] = "recv"
  /\ replies[p] # <<>>
  /\ r.kind = "chunk"
  /\ Verify(r)
  /\ unflushed[p] = {}
  /\ unflushed' = [unflushed EXCEPT ![p] =
       {[by |-> p, inode |-> fd[p], offset |-> r.offset, bytes |-> r.payload]}]
  /\ gotAny' = [gotAny EXCEPT ![p] = TRUE]
  /\ gotLast' = [gotLast EXCEPT ![p] = @ \/ r.last]
  /\ replies' = [replies EXCEPT ![p] = Tail(@)]
  /\ UNCHANGED <<pc, digest, fd, hashed, result, closed, fileVars, late>>

(* The replies have ended: on the way to root_hash flush waits for the     *)
(* last write, on the way to an error nothing does.                        *)
FlushAtEnd(p) ==
  /\ EndOfReplies(p)
  /\ pc'[p] = "hash" => unflushed[p] = {}
  /\ UNCHANGED <<unflushed, late>>

(* The pull returns, or its future is dropped, and so is its file.         *)
DropFile(p) ==
  /\ RejectReply(p) \/ RemovePartial(p) \/ IoError(p) \/ Crash(p)
  /\ late' = late \cup unflushed[p]
  /\ unflushed' = [unflushed EXCEPT ![p] = {}]

(* The process dies, and with it the threads that were to do its writes.   *)
Die(p) ==
  /\ Crash(p)
  /\ late' = {w \in late : w.by # p}
  /\ unflushed' = [unflushed EXCEPT ![p] = {}]

(* The inode of a write under way is not given to a new file.              *)
OpenUnshared(p) ==
  /\ OpenPartial(p)
  /\ fd'[p] = partial[digest[p]] \/ \A w \in late : w.inode # fd'[p]
  /\ UNCHANGED <<unflushed, late>>

OtherStep(p) ==
  /\ \/ \E d \in Digest : PullCached(p, d) \/ PullStart(p, d)
     \/ SendQuery(p) \/ GetFails(p) \/ HashOpen(p) \/ HashRead(p)
     \/ HashCompare(p) \/ Rename(p) \/ PartialGone(p)
     \/ \E r \in Reply : Arrive(p, r)
     \/ Close(p)
  /\ UNCHANGED <<unflushed, late>>

(* A blocking thread does a write, while its file is open or later.        *)
Land(w) ==
  /\ data' = [data EXCEPT ![w.inode] = WriteAt(@, w.offset, w.bytes)]
  /\ UNCHANGED <<pullVars, chanVars, partial, final>>

LandInTime(p) ==
  /\ \E w \in unflushed[p] : Land(w)
  /\ unflushed' = [unflushed EXCEPT ![p] = {}]
  /\ UNCHANGED late

LandLate ==
  /\ \E w \in late : Land(w) /\ late' = late \ {w}
  /\ UNCHANGED unflushed

LateNext ==
  \/ \E p \in Puller :
       \/ WriteChunk(p) \/ FlushAtEnd(p) \/ DropFile(p) \/ Die(p)
       \/ OpenUnshared(p) \/ OtherStep(p) \/ LandInTime(p)
  \/ LandLate

(* Even with at most one pull of a digest at a time.                       *)
LateSpec == LateInit /\ [][LateNext /\ OnePullPerDigest']_lateVars

(* The crate documentation: "even with all chunk hashes valid, the root    *)
(* hash must match before the file is renamed into place", and "we only    *)
(* guarantee bytes".  An entry of the cache has the bytes of its digest.   *)
LateCacheIntegrity == CacheIntegrity
=============================================================================

------------------------------ MODULE Transfer ------------------------------
(***************************************************************************)
(* Both sides of furcate-mesh-transfer: the pullers of module Pull and the *)
(* senders, each a process that runs TransferService::serve and registers  *)
(* artefacts, joined by Zenoh queries.                                     *)
(*                                                                         *)
(* A get() with QueryTarget::All reaches every queryable that exists at    *)
(* that moment.  A sender takes its queries one at a time and streams the  *)
(* whole file before it looks at the next.  With ConsolidationMode::None   *)
(* the replies of all senders go into one channel, in whatever order they  *)
(* come; the channel closes when every sender has dropped the query, or    *)
(* when the timeout expires.                                               *)
(***************************************************************************)
EXTENDS Pull, FiniteSets

CONSTANTS
  Server,    \* processes that serve artefacts
  Nobody,    \* the asker of a query whose pull has returned
  Content,   \* what an artefact file can hold
  MaxInbox,  \* bound: queries waiting at one sender
  Patient,   \* pulls that keep being polled; the others may hang
  Volatile,  \* senders whose files may be edited after they were hashed
  Faults     \* the faults the environment may inject

ASSUME TransferAssumption ==
  /\ Content \subseteq Seq(Byte)
  /\ Nobody \notin Puller
  /\ \A n \in 1 .. CHUNK_SIZE : [1 .. n -> Byte] \subseteq Payload
  /\ \A c \in Content : 0 .. Len(c) - 1 \subseteq Offset
  /\ MaxInbox \in Nat \ {0}
  /\ Patient \subseteq Puller
  /\ Volatile \subseteq Server
  /\ Faults \subseteq {"stream", "crash", "corrupt", "error", "timeout", "pull"}

VARIABLES
  artefacts,  \* digests in each sender's artefact index
  file,       \* bytes now in the file registered for a digest
  serving,    \* the serve task runs
  inbox,      \* queries the queryable has not handed out yet
  stream,     \* the query being answered by stream_file_chunks
  hosts       \* history: senders that hosted the digest when it was asked for

serverVars == <<artefacts, file, serving>>
queryVars == <<inbox, stream>>
allVars == <<vars, serverVars, queryVars, hosts>>

Query == [to : Puller \cup {Nobody}, digest : Digest]

(* stream_file_chunks' locals; no query is being answered in Idle.         *)
Idle == [to |-> Nobody, digest |-> CHOOSE d \in Digest : TRUE, busy |-> FALSE,
         offset |-> 0, total |-> 0]

Hosting(s, d) == serving[s] /\ d \in artefacts[s]

(* Senders that have not dropped the query of p.                           *)
Outstanding(p) ==
  {s \in Server : \/ stream[s].busy /\ stream[s].to = p
                  \/ \E i \in DOMAIN inbox[s] : inbox[s][i].to = p}

TransferInit ==
  /\ Init
  /\ artefacts = [s \in Server |-> {}]
  /\ file \in {f \in [Server -> [Digest -> Content]] :
                 \A s \in Server, d \in Digest : Blake3(f[s][d]) = d}
  /\ serving = [s \in Server |-> FALSE]
  /\ inbox = [s \in Server |-> <<>>]
  /\ stream = [s \in Server |-> Idle]
  /\ hosts = [p \in Puller |-> {}]

-----------------------------------------------------------------------------
(* register: the caller has hashed the file (model_push calls root_hash on *)
(* it) and enters it under that digest, before or while serve runs.        *)
Register(s, d) ==
  /\ Blake3(file[s][d]) = d
  /\ d \notin artefacts[s]
  /\ artefacts' = [artefacts EXCEPT ![s] = @ \cup {d}]
  /\ UNCHANGED <<vars, file, serving, queryVars, hosts>>

(* serve declares the queryable and spawns its task; the JoinHandle that   *)
(* it returns does not matter, as dropping it only detaches the task.      *)
Serve(s) ==
  /\ ~serving[s]
  /\ serving' = [serving EXCEPT ![s] = TRUE]
  /\ UNCHANGED <<vars, artefacts, file, queryVars, hosts>>

(* Mutant: a query for an unknown digest ends the serve loop.              *)
IgnoreQueryAndStop(s) ==
  /\ serving[s] /\ ~stream[s].busy
  /\ inbox[s] # <<>>
  /\ Head(inbox[s]).digest \notin artefacts[s]
  /\ inbox' = [inbox EXCEPT ![s] = Tail(@)]
  /\ serving' = [serving EXCEPT ![s] = FALSE]
  /\ UNCHANGED <<vars, artefacts, file, stream, hosts>>

(* The serve task receives a query.  A digest that is not in the index     *)
(* gets no reply; otherwise the file is opened and its length is read.     *)
IgnoreQuery(s) ==
  /\ serving[s] /\ ~stream[s].busy
  /\ inbox[s] # <<>>
  /\ Head(inbox[s]).digest \notin artefacts[s]
  /\ inbox' = [inbox EXCEPT ![s] = Tail(@)]
  /\ UNCHANGED <<vars, serverVars, stream, hosts>>

TakeQuery(s) ==
  LET q == Head(inbox[s]) IN
  /\ serving[s] /\ ~stream[s].busy
  /\ inbox[s] # <<>>
  /\ q.digest \in artefacts[s]
  /\ inbox' = [inbox EXCEPT ![s] = Tail(@)]
  /\ stream' = [stream EXCEPT ![s] =
       [to |-> q.to, digest |-> q.digest, busy |-> TRUE,
        offset |-> 0, total |-> Len(file[s][q.digest])]]
  /\ UNCHANGED <<vars, serverVars, hosts>>

(* What can arrive when bytes are sent.                                    *)
Transit(bytes) ==
  IF "corrupt" \in Faults THEN [DOMAIN bytes -> Byte] ELSE {bytes}

(* Mutant: off by one in the test for the last chunk.                      *)
StreamChunkTooFar(s) ==
  LET q == stream[s]
      content == file[s][q.digest]
  IN
  /\ q.busy
  /\ q.offset < Len(content)
  /\ \E n \in ReadSizes(Len(content) - q.offset) :
       LET bytes == SubSeq(content, q.offset + 1, q.offset + n)
           last == q.offset + n > q.total
       IN
       /\ stream' = [stream EXCEPT ![s] =
            IF last THEN Idle ELSE [q EXCEPT !.offset = @ + n]]
       /\ IF q.to = Nobody
          THEN UNCHANGED vars
          ELSE Arrive(q.to, [kind |-> "chunk", offset |-> q.offset,
                             payload |-> bytes, last |-> last,
                             chunk_hash |-> Blake3(bytes)])
  /\ UNCHANGED <<serverVars, inbox, hosts>>

(* One turn of stream_file_chunks' loop: read up to CHUNK_SIZE bytes, send *)
(* them with their hash and offset, stop after the chunk that reaches the  *)
(* length read at the start.  A reply to a pull that has returned is lost. *)
StreamChunk(s) ==
  LET q == stream[s]
      content == file[s][q.digest]
  IN
  /\ q.busy
  /\ q.offset < Len(content)
  /\ \E n \in ReadSizes(Len(content) - q.offset) :
       LET bytes == SubSeq(content, q.offset + 1, q.offset + n)
           last == q.offset + n >= q.total
       IN
       /\ stream' = [stream EXCEPT ![s] =
            IF last THEN Idle ELSE [q EXCEPT !.offset = @ + n]]
       /\ IF q.to = Nobody
          THEN UNCHANGED vars
          ELSE \E arrived \in Transit(bytes) :
                 Arrive(q.to, [kind |-> "chunk", offset |-> q.offset,
                               payload |-> arrived, last |-> last,
                               chunk_hash |-> Blake3(bytes)])
  /\ UNCHANGED <<serverVars, inbox, hosts>>

(* read returns 0: the file is empty, or shorter than it was.              *)
StreamEof(s) ==
  /\ stream[s].busy
  /\ stream[s].offset >= Len(file[s][stream[s].digest])
  /\ stream' = [stream EXCEPT ![s] = Idle]
  /\ UNCHANGED <<vars, serverVars, inbox, hosts>>

(* open, read or reply fails (the file may be gone): the error is logged   *)
(* and the query dropped.                                                  *)
StreamFails(s) ==
  /\ "stream" \in Faults
  /\ stream[s].busy
  /\ stream' = [stream EXCEPT ![s] = Idle]
  /\ UNCHANGED <<vars, serverVars, inbox, hosts>>

(* The operator's file changes under its path.                             *)
ModifyFile(s, d, content) ==
  /\ s \in Volatile
  /\ content # file[s][d]
  /\ file' = [file EXCEPT ![s][d] = content]
  /\ UNCHANGED <<vars, artefacts, serving, queryVars, hosts>>

(* The sender process dies: its index is in memory, its queries are        *)
(* dropped with its session.                                               *)
ServerCrash(s) ==
  /\ "crash" \in Faults
  /\ serving[s] \/ artefacts[s] # {}
  /\ serving' = [serving EXCEPT ![s] = FALSE]
  /\ artefacts' = [artefacts EXCEPT ![s] = {}]
  /\ inbox' = [inbox EXCEPT ![s] = <<>>]
  /\ stream' = [stream EXCEPT ![s] = Idle]
  /\ UNCHANGED <<vars, file, hosts>>

-----------------------------------------------------------------------------
(* A pull that has returned, or whose query timed out, is no longer        *)
(* listening: senders still work on its query, for nobody.                 *)
Abandon(p) ==
  /\ inbox' = [s \in Server |->
       [i \in DOMAIN inbox[s] |->
          IF inbox[s][i].to = p THEN [inbox[s][i] EXCEPT !.to = Nobody]
                                ELSE inbox[s][i]]]
  /\ stream' = [s \in Server |->
       IF stream[s].to = p THEN [stream[s] EXCEPT !.to = Nobody]
                           ELSE stream[s]]

(* The get() of p reaches every queryable there is.                        *)
Ask(p) ==
  /\ SendQuery(p)
  /\ inbox' = [s \in Server |->
       IF serving[s] THEN Append(inbox[s], [to |-> p, digest |-> digest[p]])
       ELSE inbox[s]]
  /\ hosts' = [hosts EXCEPT ![p] = {s \in Server : Hosting(s, digest[p])}]
  /\ UNCHANGED <<serverVars, stream>>

(* The other steps of the pull; when it no longer receives, or returns,    *)
(* its query is abandoned.                                                 *)
Listening(p) ==
  /\ IF pc'[p] = "recv" THEN UNCHANGED queryVars ELSE Abandon(p)
  /\ UNCHANGED <<serverVars, hosts>>

(* The bound: a call is made when its query will fit at every sender.      *)
Room ==
  \A s \in Server :
    Len(inbox[s]) + Cardinality({p \in Puller : pc[p] \in {"open", "get"}}) < MaxInbox

Call(p) ==
  /\ Room
  /\ \E d \in Digest : PullCached(p, d) \/ PullStart(p, d)
  /\ Listening(p)

Advance(p) == LocalStep(p) /\ Listening(p)

PullFails(p) == "pull" \in Faults /\ Fault(p) /\ Listening(p)

(* Zenoh closes the channel when no sender holds the query any more.       *)
Finish(p) ==
  /\ Outstanding(p) = {}
  /\ Close(p)
  /\ UNCHANGED <<serverVars, queryVars, hosts>>

(* The deadline expires first: what was received stays in the channel.     *)
Timeout(p) ==
  /\ "timeout" \in Faults
  /\ Outstanding(p) # {}
  /\ Close(p)
  /\ Abandon(p)
  /\ UNCHANGED <<serverVars, hosts>>

(* Zenoh reports an error on the query as a reply.                         *)
ErrorReply(p) ==
  /\ "error" \in Faults
  /\ Arrive(p, [kind |-> "error"])
  /\ UNCHANGED <<serverVars, queryVars, hosts>>

-----------------------------------------------------------------------------
PullerStep(p) == Advance(p) \/ Ask(p) \/ Finish(p)

ServerStep(s) == IgnoreQuery(s) \/ TakeQuery(s) \/ StreamChunk(s) \/ StreamEof(s)

ServerEvent(s) ==
  \/ \E d \in Digest : Register(s, d)
  \/ Serve(s) \/ StreamFails(s) \/ ServerCrash(s)
  \/ \E d \in Digest, c \in Content : ModifyFile(s, d, c)

TransferNext ==
  \/ \E s \in Server : ServerStep(s) \/ ServerEvent(s)
  \/ \E p \in Puller :
       \/ PullerStep(p) \/ Call(p) \/ PullFails(p) \/ Timeout(p)
       \/ ErrorReply(p)

(* Any pulls at all.                                                       *)
TransferSpec == TransferInit /\ [][TransferNext]_allVars

(* Pulls of one digest do not overlap.                                     *)
SerialTransfer ==
  TransferInit /\ [][TransferNext /\ OnePullPerDigest']_allVars

(* The runtimes keep polling pulls and serve tasks, and Zenoh delivers     *)
(* what it has accepted and finishes a query nobody holds.                 *)
TransferFairness ==
  /\ \A p \in Puller : WF_allVars(PullerStep(p))
  /\ \A s \in Server : WF_allVars(ServerStep(s))

FairTransfer == SerialTransfer /\ TransferFairness

(* Pulls may overlap, and senders and other pulls may hang: only the       *)
(* pulls in Patient, and the clock behind the deadline of their get(), can *)
(* be relied on.                                                           *)
PatientTransfer ==
  /\ TransferSpec
  /\ \A p \in Patient : WF_allVars(PullerStep(p) \/ Timeout(p))

-----------------------------------------------------------------------------
(* The types, and when a query is in a sender's hands: its pull is still   *)
(* receiving, and stream_file_chunks has not passed the length it read     *)
(* when it began, however the file has changed since.                      *)
TransferTypeOK ==
  /\ TypeOK
  /\ artefacts \in [Server -> SUBSET Digest]
  /\ file \in [Server -> [Digest -> Content]]
  /\ serving \in [Server -> BOOLEAN]
  /\ inbox \in [Server -> Seq(Query)]
  /\ stream \in [Server -> [to : Puller \cup {Nobody}, digest : Digest,
                            busy : BOOLEAN, offset : Nat, total : Nat]]
  /\ hosts \in [Puller -> SUBSET Server]
  /\ \A p \in Puller : Outstanding(p) # {} => pc[p] = "recv" /\ ~closed[p]
  /\ \A s \in Server :
       stream[s].busy => stream[s].total = 0 \/ stream[s].offset < stream[s].total

(* The digest of the empty file.                                           *)
EmptyDigest == Blake3(<<>>)

(* While no file changes, no reply is damaged and nothing fails, a pull    *)
(* can only end well, or find that nobody hosted the digest: however the   *)
(* streams of several senders interleave in the one channel, however read  *)
(* splits them into chunks and whichever sender's last chunk comes first,  *)
(* pull_with_options rebuilds the file.  The exception is the empty file,  *)
(* of which stream_file_chunks sends no chunk: nobody seems to have it.    *)
HostedPullSucceeds ==
  \A p \in Puller :
    \/ result[p] \in {"none", "ok"}
    \/ result[p] = "PeerMissing" /\ (hosts[p] = {} \/ digest[p] = EmptyDigest)

(* The inductive invariant behind HostedPullSucceeds.  Bytes(d) is the     *)
(* file d names; a byte of it is delivered to p within n replies when the  *)
(* temp file has it, or one of the next n replies in the channel brings it.*)
Bytes(d) == d.blake3

Written(p, b) ==
  b \in DOMAIN data[fd[p]] /\ data[fd[p]][b] = Bytes(digest[p])[b]

Brings(r, b) == r.offset < b /\ b <= r.offset + Len(r.payload)

Delivered(p, b, n) ==
  Written(p, b) \/ \E j \in 1 .. n : Brings(replies[p][j], b)

(* An intact piece of the file p asked for.                                *)
Genuine(p, r) ==
  /\ r.kind = "chunk" /\ Verify(r)
  /\ \A j \in DOMAIN r.payload :
       /\ r.offset + j \in DOMAIN Bytes(digest[p])
       /\ r.payload[j] = Bytes(digest[p])[r.offset + j]

(* A last chunk has been received, or is in the channel.                   *)
Ended(p) == gotLast[p] \/ \E i \in DOMAIN replies[p] : replies[p][i].last

Streaming(s, p) == stream[s].busy /\ stream[s].to = p

(* While p receives, the temp file and the channel hold nothing but pieces *)
(* of the file, and what comes before a last chunk is all of it.           *)
PiecesInv(p) ==
  /\ DOMAIN data[fd[p]] \subseteq DOMAIN Bytes(digest[p])
  /\ \A i \in DOMAIN replies[p] :
       /\ Genuine(p, replies[p][i])
       /\ replies[p][i].last =>
            \A b \in DOMAIN Bytes(digest[p]) : Delivered(p, b, i)
  /\ gotLast[p] =>
       gotAny[p] /\ \A b \in DOMAIN Bytes(digest[p]) : Written(p, b)

(* What a sender has read for p is delivered.                              *)
SenderInv(s, p) ==
  /\ \A i \in DOMAIN inbox[s] :
       inbox[s][i].to = p => inbox[s][i].digest = digest[p]
  /\ Streaming(s, p) =>
       /\ stream[s].digest = digest[p]
       /\ stream[s].total = Len(Bytes(digest[p]))
       /\ \A b \in 1 .. stream[s].offset : Delivered(p, b, Len(replies[p]))

(* Whoever began to answer p is still at it, or a last chunk is there.     *)
BegunInv(p) ==
  gotAny[p] \/ replies[p] # <<>> =>
    /\ Blake3(Bytes(digest[p])) = digest[p]
    /\ Bytes(digest[p]) \in Seq(Byte) \ {<<>>}
    /\ Ended(p) \/ \E s \in Server : Streaming(s, p)

(* A host has the query of p until then.                                   *)
HostInv(s, p) ==
  /\ digest[p] \in artefacts[s]
  /\ digest[p] = EmptyDigest \/ Ended(p) \/ s \in Outstanding(p)

ReceivingInv(p) ==
  /\ PiecesInv(p) /\ BegunInv(p)
  /\ \A s \in Server : SenderInv(s, p)
  /\ \A s \in hosts[p] : HostInv(s, p)

(* Before a pull receives it has nothing; what it hashes afterwards is the *)
(* file; it has no result before it gives up or returns.                   *)
HostedPull(p) ==
  /\ pc[p] \in {"idle", "open", "get"} => ~gotAny[p] /\ ~gotLast[p]
  /\ pc[p] = "get" => data[fd[p]] = <<>>
  /\ pc[p] = "recv" => ReceivingInv(p)
  /\ pc[p] \in {"hash", "hashing"} =>
       /\ partial[digest[p]] # NoFile
       /\ Blake3(data[partial[digest[p]]]) = digest[p]
  /\ pc[p] \notin {"idle", "remove"} => result[p] = "none"

HostedInv ==
  /\ \A s \in Server, d \in Digest : Blake3(file[s][d]) = d
  /\ \A p \in Puller : HostedPull(p)
  /\ HostedPullSucceeds

(* A digest that a sender hosts when it is asked for, other than the empty *)
(* file's, is fetched in the end, although a sender answers its queries    *)
(* one at a time and the pull waits for every sender to finish.            *)
HostedIsFetched ==
  \A p \in Puller :
    pc[p] = "recv" /\ hosts[p] # {} /\ digest[p] # EmptyDigest
      ~> result[p] = "ok"

(* A pull that keeps running returns, even if senders hang or die in the   *)
(* middle of their replies and whatever other pulls, that hang themselves, *)
(* do to the temp file it shares with them: the deadline given to get()    *)
(* closes the channel, and the steps of pull_with_options after it are     *)
(* finitely many.                                                          *)
PullReturns == \A p \in Patient : Active(p) ~> ~Active(p)
=============================================================================

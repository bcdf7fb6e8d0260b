# A verification of furcate-mesh in TLA+

furcate-mesh is a LAN peer fabric: peers find each other over mDNS, gossip
heartbeats and model announcements over Zenoh, fetch model files by digest, and
route requests to peers that have a model. This directory holds TLA+ modules
translated from its source, TLC configurations that check them on small
instances, and proofs, checked by TLAPS, that hold for every instance.
`PROJECT.json` lists the runs, the source lines behind each definition, the
hazards considered, the disagreements found between code and documentation, and
the theorems.

To check a run: `tlc -config <cfg> <module>`; to check proofs:
`tlapm <module>` for each module whose name ends in `Proofs`.

## The system and what is modelled

| part | source (under `src/crates`) | modules |
|---|---|---|
| transfer, receiver: `pull_with_options`, `root_hash`, `ChunkVerifier` | `furcate-mesh-transfer` | `Pull`, `ContentCache`, `LateWrites`, `PullProofs` |
| transfer, sender: `register`, `serve`, `stream_file_chunks` | `furcate-mesh-transfer` | `Transfer` (extends `Pull`), `ReceivingProofs`, `TransferProofs` |
| routing: `Router` | `furcate-mesh-routing` | `RoutingTable`, `Router`, `PeerProofs` |
| identity: the key file | `furcate-mesh-identity`, `peer_up` of the CLI | `Identity`, `PeerUp`, `PeerProofs` |
| identity: raw-public-key TLS, builders and verifiers | `furcate-mesh-identity` | `Handshake`, `PeerProofs` |
| `PeerId`, `MeshEvent`, the codecs of `wire.rs` | `furcate-mesh-core` | `Codec`, `Envelope`, `TextProofs`, `EnvelopeProofs` |
| key expressions: `key_for`, the wildcards | `furcate-mesh-transport` | `KeyExpr`, `Envelope`, `TextProofs`, `EnvelopeProofs` |
| hybrid logical clock | `furcate-mesh-core`, heartbeat loop of the CLI | `Hlc`, `PeerUp`, `PeerProofs` |
| discovery: `Discovery::run` | `furcate-mesh-discovery`, its callers in the CLI | `Discovery`, `DiscoveryProofs` |
| transport: `publish`, `subscribe`; the CLI's listings | `furcate-mesh-transport`, `furcate-mesh-cli` | `Gossip`, `GossipProofs` |

How the parts interact in the code: every command of the CLI loads an identity,
opens a `Transport` (a Zenoh session) and, but for the listings, starts a
`Discovery`. `peer_up` heartbeats through the transport; `model_push` registers
a file with a `TransferService`, serves it on the transport's session and
announces it once; `model_pull` pulls through a `TransferService`; `peers_list`
and `model_list` subscribe for a while. The `Router` is a library: no command
feeds it yet, although its crate documentation says that the hook "is wired in
the CLI/binary".

Each component is a module of its own. Four are compositions: `Transfer` joins
receivers and senders, `Gossip` joins publishers, the transport's forwarder and
the listing commands, `PeerUp` joins the key file and the clock in the heartbeats
of `peer_up`, and `Envelope` follows one event through codecs, key
expressions and subscriptions. `Gossip` is about many events whose content does
not matter, `Envelope` about the content of one.

### Pull

State: per puller a program counter and the locals of `pull_with_options`
(`got_any` is `gotAny`, `got_last` is `gotLast`, the open file is `fd`, what the
hasher of `root_hash` has been fed is `hashed`), its reply channel, and the cache
directory: the names `<digest>` (`final`) and `<digest>.partial` (`partial`)
point to inodes, inodes hold bytes (`data`). That two names or an open file and
a name can share an inode is what the interleavings turn on.

Each stretch of code between two awaits is an action: `PullCached`/`PullStart`
(the `exists` test), `OpenPartial` (create and truncate), `SendQuery`/`GetFails`,
`ReceiveChunk`/`RejectReply` (one turn of the reply loop), `EndOfReplies`,
`RemovePartial`, `HashOpen`/`HashRead`/`HashCompare` (`root_hash`), `Rename`, and
for failures `PartialGone`, `IoError`, `Crash`. `Arrive` and `Close` are Zenoh:
any reply, at any time. Hashes are ideal (`Blake3` is injective). A digest is the
hash of some bytes.

`Spec` allows any pulls; `SerialSpec` has no two pulls of one digest at a time.
`CacheIntegrity` fails without that restriction (run `pull_overlap`), because two
pulls share a temp file, so the theorems assume it. Nothing in the code enforces it:
`TransferService` is `Clone` and several processes share `<config_dir>/cache`.

`ContentCache` is what the cache promises: an entry appears once, with the right
bytes, and never changes. `Pull` implements it with `store` read off the
directory; `Rename` is `Publish`, all other steps are stutters.

`LateWrites` refines one abstraction of `Pull`: there a write is done when
`write_all` returns. A tokio `File` only starts it; the next operation on the file
waits for it, dropping the file does not. The write is on a thread of the blocking
pool, so it outlives an early return and a dropped future (`DropFile`), but not the
process (`Die`). The run `late_writes` shows that a pull
that fails after a write can spoil the file that the next pull publishes, even
without overlap. The theorems about `Pull` hold for writes that are done when a
pull returns; `flush` before the error returns would make that true.

### Transfer

Adds the senders: the artefact index, the file now under each registered path,
the queue of queries of the queryable, and the query that `stream_file_chunks` is
answering, with its `offset` and `total_len`. A get() reaches every queryable
there is (`QueryTarget::All`); all replies go into one channel
(`ConsolidationMode::None`). One FIFO per pull is enough: the replies of several
senders enter it in any interleaving, those of one sender in order. `Faults`
selects what the environment may do: failing streams and senders that die, damaged payloads,
error replies, timeouts, failing pulls; `Volatile` senders' files change under
their path. Both are empty where the question is whether senders and receivers
agree on how a file is sent (`HostedPullSucceeds`).

### Router

`RoutingTable` is the decision logic as operators on the value behind the
`RwLock`; each call holds the lock, so it is one step. `route` is the set of its
possible outcomes, because the `HashMap` it sorts has no order. `Router` runs the
three calls in any order while time passes, and keeps a `log` of the events as a
history: the properties compare decisions with the log, not with the table.
Peers are numbers (the order of `PeerId`). A load is any `f64`: a number, those
above `UnknownLoad` (`f64::MAX`) included, or `NaN`. JSON cannot carry a NaN, but
`record_heartbeat` takes any `f64` and CBOR carries all of them.

`Precedes` is the comparison of `sort_by`, with its `unwrap_or(Equal)`: a NaN ties
with everything and the `PeerId` decides. That is no order when three candidates
p < q < r have a NaN at q and a smaller load at r than at p: p comes before q, q
before r, r before p. `Tangled` says so of the log. For at most 20 elements
`sort_by` inserts one after the other, and inserting leaves neighbours in order;
conversely an arrangement whose neighbours are in order is left as it is. So
`Sorted`, all arrangements with neighbours in order, is what can come out of the
`HashMap`'s arbitrary one. There is a single such arrangement if `Precedes` is an
order.

### Identity

Several processes on one `config_dir` run `load_or_generate`. `std::fs::write` is
two steps, create and write. `SerialSpec` lets one process start at a time; the
properties need that.

### PeerUp

Composes `Identity` (one start at a time) with `Hlc`: each process is a run of
`mesh peer up`, which stops where it gets no identity and otherwise heartbeats
under it (`Beat`). The history `heard` is what the mesh has seen as senders.

### Handshake

One TCP connection between two ends. An end that is `ours` runs
`ServerTlsConfig::build` or `ClientTlsConfig::build` (`BuildServer`,
`BuildClient`: a `PeerId` that is no curve point fails the build) and its
verifier (`VerifyServerCert`, `VerifyClientCert`, `Signature`). Any other end may
show a key it cannot sign with, or none, or lack TLS 1.3, and verifies nothing.
The record exchange between them is rustls and external: hello, the server's key
and signature, the client's, alerts, data. In TLS 1.3 the client counts as
connected when it has sent its flight, before the server has judged it; what is
on the wire is a FIFO in each direction, and the connection may break at any
moment (`Break`). That a refusal goes out as an alert is rustls's doing, the
verifier only returns an error; so nothing is claimed of who learns of a refusal.
Signatures are ideal: only the holder of a key signs with it.
`Transport` does not use these configurations yet; the integration test
`tls_handshake.rs` does.

### Codec, KeyExpr, Envelope

`Codec` has the text forms of bytes: `hex_array`, `PeerId::from_hex` and `to_hex`,
and `base64url_bytes_bytes` with its fall-back from the unpadded to the padded
decoder. Base64 takes the bits of the bytes in other portions (`Repack`); each
symbol lies within two neighbouring bytes, each byte within two neighbouring
symbols. The width of a byte is the constant `ByteBits`, with half of it for a hex
digit and three quarters for a base64 symbol, so 4 bits stand for 8 in the same
proportions: three bytes are again four symbols, and one or two bytes again leave
bits over. TLC takes 4; the theorems hold for 4 and for 8. The reference
definitions at the end of the module say which texts are canonical without
decoding them.

`KeyExpr` has `key_for` and the wildcards as sequences of chunks, with Zenoh's
syntax and intersection, external, as its documentation and use imply: `*` is one
chunk, `**` any number, `$*` part of a chunk, a chunk that begins with `@` is met
by none of them, and empty chunks and stray wildcards are refused by `put`. A model
name with `$*` in it is a legal key; it meets the `**` of a subscription as any
other chunk does.

`Envelope` sends one event: `Publish` (key and JSON) or `SendCbor`
(`wire::cbor`), or a frame of another implementation with any short text in place
of a `PeerId` or of bytes (`SendForeign`). `Receive` is the decoding in the
forwarder of `subscribe`, `PassOn` a receiver that encodes the event again,
`ParsePeer` the argument of `model pull`. A variant is modelled by the types of
its fields; text that only travels, clocks and counters are left out. A number is
finite, infinite or not a number: `serde_json` writes the last two as null.

### Hlc

`Now` clamps and `BumpPast` saturates as the code does; `MaxWall` and
`MaxCounter` stand for `u64::MAX` and `u32::MAX`. `bump_past` is library code: no
command calls it. `SendHeartbeat` is `peer_up`, which stamps with `now()`.

### Discovery

`Discovery::run` step by step (seeds, daemon, registration, browse loop), its
bounded channel, and the callers: `peer_up` reads, `model_push` and `model_pull`
hold the receiver and never read, `library` reads and may drop the receiver. A
seed entry parses or is `Bad`; an mDNS event is a peer, an unusable service or
something else. The history `arrived` keeps all mDNS events: `NothingLost` says
at which place of what the caller gets each wanted one stands, by counting the
wanted ones before it.

### Gossip

Publishers come up, are linked by Zenoh, heartbeat (`Beat`) or declare their
queryable and then announce once (`Serve`, `AnnounceOnce`), and go down. A `put` that finds no subscriber, no link or no
room is lost, since `publish` waits for nobody; `last` keeps a key's last event if
it was not. The
forwarder task of `subscribe` is `TakeSample`, `SendItem`, `SubscriberClosed`;
the listing is `Subscribe`, `CheckDeadline`, `NextItem`, `StopWaiting`. The
timeout in `StopWaiting` may win against an item that is ready, as tokio's does
when the task's budget is used up. A listing of peers is keyed by peer, one of models by peer and name;
both are `Key`. After the listing ends the forwarder is followed further, as for
any library user of `subscribe`; in the CLI the process ends then.

## Runs

| run | shows |
|---|---|
| `pull_serial` | two pullers, two digests (one and two chunks), wrong and damaged chunks, failures and crashes everywhere: `CacheInv` (inductive, includes types), `CacheIntegrity`, `OkMeansVerified`, refinement of `ContentCache`, which has entries appear once and stay as they are |
| `transfer_honest` | two senders, two pulls at once, an artefact of several chunks and an empty one, short reads, each sender answering one query at a time: a hosted file is rebuilt (`HostedPullSucceeds`, with its inductive invariant `HostedInv`) and fetched (`HostedIsFetched`) |
| `transfer_faults` | overlapping pulls and every fault: types, stream bounds and whom senders work for (`TransferTypeOK`), `EntriesStay`, and `PullReturns` for a pull whose senders and fellow pulls may hang |
| `router` | two other peers, loads that may be NaN: `RouterInv` (inductive), `ForwardIsBest`, `RefusalIsRight` |
| `peer_up` | three processes over three possible keys, starts that fail and die, a clock that is set back and one at its limits: `OneSender`, `SenderInv` (inductive), `OneIdentity`, `KeyIsKept`, types of the clock, `PastAllSeen`, `NeverBack` |
| `discovery` | types and the bound of the channel, `NothingLost`; for readers `SeedsArrive`, `FoundArrive`, `ReaderIsAdvertised`; and `StopsWhenDropped`, when a dropped receiver is noticed |
| `gossip` | types and the bounds of both buffers, `NothingStale`, `SeenIsServed` (for pushers that stay up), `ListingEnds`, `ForwarderStops` |
| `handshake` | all pairs of ends over two keys, all allow-lists: `MutualAuth`, `DataNeedsBoth`, `PairConnects` |
| `envelope` | every kind of event in JSON and CBOR and all short foreign texts: `ReachesItsKind`, `ArrivesIntact`, `AcceptsExactly` and `RelayIsStable` (against a reference definition of the allowed texts), `SameAddress` |

Three runs state what the documentation says of the program, and TLC finds a
counterexample in what the code does:

| run | claim | what happens |
|---|---|---|
| `pull_overlap` | the root hash must match before the rename | another pull of the digest writes to the shared temp file after it was hashed |
| `late_writes` | the same | a write of a failed pull lands in the next pull's file |
| `router_nan` | candidates are sorted "so two peers making the same decision pick the same target" | with a NaN between two loads the result depends on the order the `HashMap` iterates in |

### Other disagreements between code and documentation

These were met while translating and need no model checker to see. The models
follow the code, and the properties are stated so as to hold of it.

- `CHUNK_SIZE` is meant for resuming "after a network blip"; the temp file is
  truncated at every pull, so nothing is resumed.
- "Whichever peer's queryable replies first wins" is said of `pull`; the query goes
  to `QueryTarget::All` and the chunks of every replier are written into the one
  temp file, so a later replier with a changed file makes a pull fail that an
  intact peer answered first. Nothing wrong is published (`CacheSpec`).
- `PeerMissing` also comes for an empty artefact that is hosted: it has no chunks,
  so no reply (`HostedPullSucceeds` names the exception).
- `serve` says it runs until its handle is dropped; a tokio task is detached then.
- `PeerState::last_seen` is documented as the last heartbeat; announcements
  refresh it as well (`ForwardIsBest` and `RefusalIsRight` count both).
- The public key is "this peer's stable address", but two processes that start
  together on an empty `config_dir` each generate a key and return different ones.
  `OneIdentity` and `OneSender` are about starts that do not overlap.
- `bump_past` leaves a clock level with the one observed when the counter is
  saturated (`PastAllSeen` names the exception).
- "The calling code is responsible for not regressing" is said of `now`; `peer_up`
  keeps no clock, so its stamps go back with the system time.
- `Discovery::run` is to run "until the receiver is dropped"; on a quiet LAN it
  does not notice (`StopsWhenDropped` says when it does). A caller that never
  reads, as `model_push`, is not registered if it has more seeds than the channel
  has room. A failing registration ends `run`, although `register_local` says
  failures do not abort it.
- The table of topics has `<request-id>` at the end of the work keys; `key_for`
  leaves it out, as its comment says, and nobody calls `key_work_offer` or
  `key_work_result`.
- `SUB_ALL_MODELS` is the wildcard for "all model announcements"; one whose name
  has a chunk that begins with `@` is not among them (`ReachesItsKind` names the
  exception).
- `load` is an `f64` "because JSON numbers are IEEE 754 doubles"; one that is not
  finite becomes null, which no subscriber decodes (`ArrivesIntact` names the
  exception).
- `model_list` is to list the models currently advertised; it misses all that were
  announced before it subscribed, since `model_push` announces once.

### Bounds

A bug in the pull protocol needs at most two pulls, a file of two chunks (one
that can be half there) and a second digest; the runs have these. Reads of one
unit and of a full buffer both occur (`CHUNK_SIZE` 1 and 2). `MaxInFlight` and
`MaxInbox` bound channels that Zenoh bounds too; a full one only delays.
`Inode` has as many elements as names and open files can use, so that opening
never blocks. The router's `MaxLog` of 4 events
allows an announcement and a heartbeat for each of two other peers in all orders,
`MaxTime` crosses `DeadAfter`. Loads of two other peers cannot be tangled;
`router_nan` has three, and the theorems cover any number. In `peer_up` a
process may be restarted after any failure while others run, and two of the three
keys can be lost in failed starts before the one that stays; `MaxWall` 1 and `MaxCounter` 2 reach both limits of the clock. The discovery channel and the gossip buffers
have one entry, so that being full is common. Symmetry is used only in runs
without liveness properties.

The overlapping pulls of `transfer_faults` have one sender with room for one
query, since what matters there is the shared temp file and a sender that stops
answering. `handshake` has two keys and a malformed `PeerId`: enough for a right
key, a wrong one and one that fails the build; its theorems cover the rest.
`envelope` enumerates all texts of up to one byte more than a `PeerId` has, all
base64 texts of up to one group of four symbols and all endings of up to three
characters after a full group; a codec works group by group.

`discovery`, `handshake` and `envelope` run without deadlock checking, because
`run`, a handshake and the way of one event really end.

### Fairness

Weak fairness of the steps of a task stands for a runtime that keeps polling it
(tokio, and the blocking pool under it). In `FairTransfer` a pull's steps include
`Finish`, because Zenoh ends a query nobody holds, and senders are fair because
the serve loop is a tokio task. `PatientTransfer` assumes much less: only the
pulls in `Patient` keep being polled, and the clock behind their get() runs
(`Timeout`); senders and other pulls may hang for ever. In `Handshake` an end of
ours drives its handshake and reads; nothing is assumed of other ends. In
`Gossip` time passes, and the publishers in `Steady` keep their heartbeat
interval; no fairness is assumed of other publishers, of mDNS events, of links
to other peers, or of callers that do not read.

## Proofs

Proved for all values of the constants, under the named assumptions of each
module (`PullAssumption`, `TransferAssumption`, `RoutingAssumption`,
`RouterAssumption`, `IdentityAssumption`, `HlcAssumption`,
`HandshakeAssumption`, `GossipAssumption`, `DiscoveryAssumption`,
`CodecAssumption`, `EnvelopeAssumption`), which say little more than that special
values are distinct and limits are numbers. `CodecAssumption` also says that a byte
has 4 or 8 bits. The bounds of the runs (`MaxLog`, `MaxEvents`, `MaxInbox` and the like) are
constants, so the theorems hold for all of them.

- **PullProofs.** `TypeCorrect` for `Spec`. For `SerialSpec`, the invariant
  `CacheInv` is inductive: the temp name of a digest belongs to its only pull, no
  other name shares its inode (`NamesDistinct`), what `root_hash` has read is a
  prefix of what the file holds, and what is about to be renamed has the right
  hash. None of `CacheIntegrity`, `OkMeansVerified`, `EntriesAreFrozen` is
  inductive by itself, because each depends on the bytes staying as hashed until
  the rename. They follow, as `CacheIsSound`, `OkIsSound`, `EntriesNeverChange`,
  and so does the refinement `ImplementsCache`. The step proof has a lemma for
  each action that touches a file (`OpenKeeps`, `ReceiveKeeps`, `RemoveKeeps`,
  `HashReadKeeps`, `HashCompareKeeps`, `RenameKeeps`); `OthersKept` and
  `NoFileStep` carry the part of the invariant a step does not touch.
  `EntriesNeverVanish` needs types only and holds of overlapping pulls as well.
- **TransferProofs.** `TransferTypeCorrect`, with every fault allowed: a sender
  has a query in hand only while its pull receives. This needs more than types,
  since a puller's steps, Zenoh and the senders all touch it; each step is shown
  to keep `Waiting` (for a puller) and `InFile` (for a stream).
  `ImplementsPull`: every step of the composition is a step of `Pull` or leaves
  it alone, because what one read yields, damaged in transit or not, is a payload
  of `Pull` (`ReadIsPayload`). So the theorems about `Pull` hold of the
  composition: `TransferKeepsCache` and `TransferKeepsEntries` state two.
- **TransferProofs, ReceivingProofs: a hosted file arrives.**
  `HostedPullsSucceed` assumes `Volatile = {}` and `Faults = {}`, and pulls of one
  digest that do not overlap. `HostedPullSucceeds` speaks of results only; what
  makes it true is spread over the temp file, the reply channel and the senders'
  offsets, and `HostedInv` says how: the temp file and the channel hold only
  pieces of the file (`PiecesInv`); the bytes before a sender's offset are written
  or in the channel (`SenderInv`); a last chunk has all bytes before it or with
  it, written or in the channel (`PiecesInv`); a pull that has got something has a
  sender still at work or a last chunk (`BegunInv`); a host has the query until
  then (`HostInv`). So when the channel closes with nobody at work, `got_last` is
  set and all bytes are written, and the root hash is right. `HostedInvariant`
  proves it inductive together with `CacheInv` and `TransferTypeOK`.
  `ReceivingProofs` has the steps that matter to a pull that receives: a sender
  that ignores, takes, streams a chunk or reaches the end (`IgnoreReceiving`,
  `TakeReceiving`, `ChunkReceiving`, `EofReceiving`), the pull that takes a chunk
  (`ReceiveReceiving`), another pull that asks or gives up (`AskReceiving`,
  `AbandonSame`). `TransferProofs` puts them together with the other steps.
- **GossipProofs.** `ChannelIsBounded`. `ListingIsFresh`: `NothingStale` is
  inductive with the types; the argument is about the sequence channel, held
  item, buffer, through which all steps of the forwarder only move the split
  (`ForwarderKeeps`), a put adds at the end (`FreshAppend`) and the listing takes
  at the front (`FreshNext`). `HeardIsServed`: an item in that sequence, or in the
  map, comes from a pusher that has declared its queryable.
- **DiscoveryProofs.** `DiscoveryIsBounded`: besides types and the bound it says
  that what waits in mDNS's channel is the end of `arrived`, and that the service
  `run` waits to send is a wanted one; `NothingLost` needs both.
  `FoundIsDelivered`: a seed takes the next place (`SeedSent`), a wanted service
  too, and the places of those before it stay (`FoundSent`, from lemmas on how
  the number of wanted events grows), an unwanted event takes none
  (`UselessTaken`), and no other step changes the sequence (`NothingSent`).
- **PeerProofs, handshake.** `HandshakeInv`: a key and signature on the wire are
  its sender's (`WireInv`), a verifier trusts what its builder converted
  (`TrustInv`), and who is connected, or has read data, is authenticated
  (`AuthInv`). The last alone is not inductive, as it depends on what is still in
  transit. From it `EndsAreAuthenticated` and `DataIsAuthenticated`.
- **PeerProofs, router.** `RouterInv`: the table says of each other peer what the
  log says (`Summarises`). From it `RouteIsBest`, `RefusalIsSound` and
  `RouteIsDeterministic`, which says that `SameTarget` fails for tangled loads only
  (`SameTargetUnlessTangled`). The argument: where the comparison of three
  candidates is not transitive they form a `Knot` (`KnotOrOrder`), and a knot in
  the table is `Tangled` in the log (`KnotIsTangled`). Without one, neighbours in
  order means that the first comes before all others (`FirstIsLeast`, by the least
  place where that fails), and two candidates cannot each come before the other.
  `RoutingAssumption` has finitely many peers for this.
- **PeerProofs, identity.** `IdentityInv`: an identity in use is the one in the
  file, and who generates found no file. From it `IdentityIsStable` and
  `KeyIsNeverLost`, for one start at a time.
- **PeerProofs, peer_up.** `PeerUpImplements`: the composition behaves as
  `Identity` and as `Hlc` do, so their theorems hold of it. `SenderInv` adds to
  `IdentityInv` that whoever was heard is who the file says; `OneSender` alone is
  not inductive, since it does not say whom the next process will load. From it
  `MeshHearsOnePeer`.
- **PeerProofs, clock.** `ClockFitsItsFields` (no step leaves u64 and u32),
  `ClockIsPastAllSeen`, `ClockNeverGoesBack`.
- **TextProofs, texts of bytes.** For byte sequences and texts of any length, with
  no induction: a place of a text depends on two neighbours only, so the lemmas
  speak of one group. Three bytes make four symbols and are got back from them
  (`SymbolsOfBytes`, `BytesOfSymbols`), every place of `Repack` is one of the
  seven formulas for its place in the group (`SymbolWindows4` and so on), and the
  zeros past the end account for the last group. So decoding undoes encoding, and
  encoding what was decoded gives the text again, because the decoder insists that
  left-over bits are zero. `CanonicalIsDecodable` shows that test, which looks at
  the last symbol only, to be the same as every group being one that the encoder
  writes. `Base64Accepts`, `HexAccepts` and `FromHexIffLower` sum up what the
  three parsers accept and yield.
- **TextProofs, keys.** `Intersects` is recursive, over what is left of the key
  and of the subscription. `Least` (a set of numbers has a least element) is got
  from the library's well-foundedness of `<`, and `AllNumbers`, induction for a set
  of numbers, from it; both take a set where the library's induction theorems take
  an operator. With them: the recursion has a solution (`MeetsExists`), and a
  final `**` meets every rest without a chunk that begins with `@` (`MeetsTail`).
  `KeyMeets` says which of the three wildcards a key of `key_for` meets.
- **EnvelopeProofs.** `EnvelopeInv`: the frame is the encoding of the event, or
  comes from another implementation; what a receiver has got is the decoding of
  that frame, and the relayed frame the encoding of that. With it
  `EnvelopeArrivesIntact`, `EnvelopeAcceptsExactly`, `EnvelopeRelayIsStable` and
  `EnvelopeSameAddress` are statements about texts. `EnvelopeReachesItsKind` needs
  a second invariant, `DeliveryInv`, since `Receive` moves a subscription from
  `inbox` to `got`: the two together stay what the key met when it was put.

Many leaves name Zenon: they need no arithmetic, and the SMT backend of tlapm
gets slower with every obligation of a module that it translates.

Every invariant and every action property of a passing run is proved, and so is the
refinement of `ContentCache`. Only model-checked:

- liveness, which the prover does not do: `PullReturns`, `HostedIsFetched`,
  `SeedsArrive`, `FoundArrive`, `StopsWhenDropped`, `ReaderIsAdvertised`,
  `ListingEnds`, `ForwarderStops`, `PairConnects`;
- that the restrictions are needed: `CacheIntegrity` for overlapping pulls and for
  late writes, and `SameTarget` for tangled loads, are refuted by TLC.

## Not modelled

- `extensions.rs`: traits without implementation in the repository.
- `Transport::new` fills in a Zenoh configuration and opens the session; the
  models have a session that is open or closed.
- Seed parsing beyond good and bad, and the contents of mDNS records.
- The last digits of a number in JSON: whether `serde_json` reads back the very
  `f64` it wrote.
- `key_for` for the five edge-node variants: it has no arm for them and no
  default, which the compiler does not accept. They are modelled in CBOR, which is
  how edge nodes send them.
- Power loss: `Crash` is the end of a process; that the rename is not preceded by
  fsync is out of the model.
- The CLI's argument parsing and printing, `pick_free_port`, and a digest typed in
  upper case, which `model pull` takes as it is and nobody hosts.
- What `sort_by` does with more than 20 candidates whose loads are tangled: the
  standard library promises no particular order then and may panic.
- Requests that hop: no code forwards a `WorkOffer` or feeds a `Router`, so
  there is nothing to compose `Router` with.

## Plan

1. When a command feeds a `Router`, compose it with `Gossip`; when `Transport`
   uses the TLS configurations, put `Handshake` under its links.
2. A file system that loses unsynced writes, under `Pull`.

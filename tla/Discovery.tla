----------------------------- MODULE Discovery ------------------------------
(***************************************************************************)
(* furcate-mesh-discovery: Discovery::run, the bounded channel it fills,   *)
(* and the callers that are supposed to read it.                           *)
(*                                                                         *)
(* A caller is one of the CLI's commands, or any other user of the crate:  *)
(* peer_up advertises itself and reads the channel to the end, model_push  *)
(* advertises itself and never reads, model_pull only browses and never    *)
(* reads, "library" advertises itself, reads, and may drop the receiver.   *)
(***************************************************************************)
EXTENDS Naturals, Sequences, FiniteSets

CONSTANTS
  Peer,        \* peers that mDNS can resolve
  Local,       \* the local peer
  Bad,         \* a seed entry that does not parse
  Unusable,    \* a resolved service without peer, zenoh or address
  Other,       \* an mDNS event that is not ServiceResolved
  Config,      \* [caller, seeds, seeds_only]: the configurations to start in
  Capacity,    \* of the mpsc channel (32)
  MaxEvents,   \* bound: mDNS events
  Faults       \* mDNS calls that may fail

ASSUME DiscoveryAssumption ==
  /\ Local \in Peer
  /\ Capacity \in Nat \ {0} /\ MaxEvents \in Nat
  /\ Faults \subseteq {"daemon", "register", "browse", "channel"}
  /\ Config \subseteq [caller : {"peer_up", "model_push", "model_pull", "library"},
                       seeds : Seq(Peer \cup {Bad}), seeds_only : BOOLEAN]

VARIABLES
  cfg,         \* DiscoveryConfig, and who holds the receiver
  pc,          \* next step of run
  sent,        \* seeds sent so far
  queue,       \* the mpsc channel
  open,        \* the receiver has not been dropped
  received,    \* history: what the caller has read
  events,      \* mDNS events that run has not taken yet
  arrived,     \* history: all mDNS events
  advertised,  \* the local service is registered with the daemon
  outcome      \* what run returned

runVars == <<pc, sent, advertised, outcome>>
vars == <<cfg, pc, sent, queue, open, received, events, arrived, advertised,
          outcome>>

Advertises == cfg.caller # "model_pull"
Reads == cfg.caller \in {"peer_up", "library"}

(* A DiscoveredPeer: from a seed, or from mDNS.                            *)
Seed(p) == [peer |-> p, via_mdns |-> FALSE]
Found(p) == [peer |-> p, via_mdns |-> TRUE]

(* The events that lead to a DiscoveredPeer: resolve_to_peer accepts the   *)
(* service, and it is not our own, if we know who we are.                  *)
Wanted(e) == e \in Peer /\ (Advertises => e # Local)

Init ==
  /\ cfg \in Config
  /\ pc = "seeds"
  /\ sent = 0
  /\ queue = <<>> /\ received = <<>>
  /\ open = TRUE
  /\ events = <<>> /\ arrived = <<>>
  /\ advertised = FALSE
  /\ outcome = "none"

Goto(l) == pc' = l

Return(result) == Goto("done") /\ outcome' = result

(* Mutant: the channel has no bound.                                       *)
SendUnbounded(found) ==
  /\ open
  /\ queue' = Append(queue, found)

(* sink.send: it waits while the channel is full, and fails once the       *)
(* receiver is dropped.                                                    *)
Send(found) ==
  /\ open /\ Len(queue) < Capacity
  /\ queue' = Append(queue, found)

(* Mutant: the seeds are sent with try_send, and a full channel is taken   *)
(* for a closed one.                                                       *)
SendSeedOrStop ==
  /\ pc = "seeds" /\ sent < Len(cfg.seeds)
  /\ \/ /\ cfg.seeds[sent + 1] = Bad
        /\ Return("BadSeed")
        /\ UNCHANGED <<sent, queue>>
     \/ /\ cfg.seeds[sent + 1] # Bad
        /\ Send(Seed(cfg.seeds[sent + 1]))
        /\ sent' = sent + 1
        /\ UNCHANGED <<pc, outcome>>
     \/ /\ cfg.seeds[sent + 1] # Bad /\ (~open \/ Len(queue) = Capacity)
        /\ Return("ok")
        /\ UNCHANGED <<sent, queue>>
  /\ UNCHANGED <<cfg, open, received, events, arrived, advertised>>

(* One turn of the loop over the seeds: the first entry that does not      *)
(* parse ends run, before the entries after it and before any mDNS.        *)
SendSeed ==
  /\ pc = "seeds" /\ sent < Len(cfg.seeds)
  /\ \/ /\ cfg.seeds[sent + 1] = Bad
        /\ Return("BadSeed")
        /\ UNCHANGED <<sent, queue>>
     \/ /\ cfg.seeds[sent + 1] # Bad
        /\ Send(Seed(cfg.seeds[sent + 1]))
        /\ sent' = sent + 1
        /\ UNCHANGED <<pc, outcome>>
     \/ /\ cfg.seeds[sent + 1] # Bad /\ ~open
        /\ Return("ok")
        /\ UNCHANGED <<sent, queue>>
  /\ UNCHANGED <<cfg, open, received, events, arrived, advertised>>

(* All seeds are sent: with seeds_only run waits for the receiver to be    *)
(* dropped, otherwise it turns to mDNS.                                    *)
SeedsDone ==
  /\ pc = "seeds" /\ sent = Len(cfg.seeds)
  /\ Goto(IF cfg.seeds_only THEN "closed" ELSE "daemon")
  /\ UNCHANGED <<cfg, sent, queue, open, received, events, arrived, advertised,
                 outcome>>

(* Mutant: it waits for a send to fail, and sends nothing.                 *)
WaitForFailedSend ==
  /\ pc = "closed" /\ ~open /\ sent < Len(cfg.seeds)
  /\ Return("ok")
  /\ UNCHANGED <<cfg, sent, queue, open, received, events, arrived, advertised>>

WaitClosed ==
  /\ pc = "closed" /\ ~open
  /\ Return("ok")
  /\ UNCHANGED <<cfg, sent, queue, open, received, events, arrived, advertised>>

(* Mutant: nobody is registered.                                           *)
StartBrowsing ==
  /\ pc = "daemon"
  /\ \/ Goto("browse") /\ UNCHANGED outcome
     \/ "daemon" \in Faults /\ Return("Mdns")
  /\ UNCHANGED <<cfg, sent, queue, open, received, events, arrived, advertised>>

StartDaemon ==
  /\ pc = "daemon"
  /\ \/ Goto(IF Advertises THEN "register" ELSE "browse") /\ UNCHANGED outcome
     \/ "daemon" \in Faults /\ Return("Mdns")
  /\ UNCHANGED <<cfg, sent, queue, open, received, events, arrived, advertised>>

(* register_local, and the `?` on its result.                              *)
RegisterLocal ==
  /\ pc = "register"
  /\ \/ Goto("browse") /\ advertised' = TRUE /\ UNCHANGED outcome
     \/ "register" \in Faults /\ Return("Mdns") /\ UNCHANGED advertised
  /\ UNCHANGED <<cfg, sent, queue, open, received, events, arrived>>

Browse ==
  /\ pc = "browse"
  /\ \/ Goto("loop") /\ UNCHANGED outcome
     \/ "browse" \in Faults /\ Return("Mdns")
  /\ UNCHANGED <<cfg, sent, queue, open, received, events, arrived, advertised>>

(* daemon.shutdown() after the loop.                                       *)
Shutdown ==
  /\ Return("ok")
  /\ advertised' = FALSE

(* Mutant: a service that is of no use ends the loop.                      *)
TakeEventOrStop ==
  /\ pc = "loop" /\ events # <<>>
  /\ IF Wanted(Head(events))
     THEN Goto("send") /\ UNCHANGED <<events, advertised, outcome>>
     ELSE Shutdown /\ events' = Tail(events)
  /\ UNCHANGED <<cfg, sent, queue, open, received, arrived>>

(* One turn of the browse loop: take an event; one that is wanted is to be *)
(* sent next.  It stays the head of events until then.                     *)
TakeEvent ==
  /\ pc = "loop" /\ events # <<>>
  /\ IF Wanted(Head(events))
     THEN Goto("send") /\ UNCHANGED events
     ELSE events' = Tail(events) /\ UNCHANGED pc
  /\ UNCHANGED <<cfg, sent, queue, open, received, arrived, advertised, outcome>>

(* Mutant: with try_send a service that finds the channel full is dropped. *)
SendFoundOrDrop ==
  /\ pc = "send"
  /\ \/ Send(Found(Head(events))) /\ Goto("loop") /\ UNCHANGED <<advertised, outcome>>
     \/ open /\ Len(queue) = Capacity /\ Goto("loop")
        /\ UNCHANGED <<queue, advertised, outcome>>
     \/ ~open /\ Shutdown /\ UNCHANGED queue
  /\ events' = Tail(events)
  /\ UNCHANGED <<cfg, sent, open, received, arrived>>

(* The second half of the turn.                                            *)
SendFound ==
  /\ pc = "send"
  /\ \/ Send(Found(Head(events))) /\ Goto("loop") /\ UNCHANGED <<advertised, outcome>>
     \/ ~open /\ Shutdown /\ UNCHANGED queue
  /\ events' = Tail(events)
  /\ UNCHANGED <<cfg, sent, open, received, arrived>>

(* The browse channel is closed by the daemon.                             *)
BrowseClosed ==
  /\ "channel" \in Faults
  /\ pc = "loop" /\ events = <<>>
  /\ Shutdown
  /\ UNCHANGED <<cfg, sent, queue, open, received, events, arrived>>

-----------------------------------------------------------------------------
Event == Peer \cup {Unusable, Other}

(* The LAN: something is resolved, or another event comes.                 *)
MdnsEvent(e) ==
  /\ pc \in {"loop", "send"}
  /\ Len(arrived) < MaxEvents
  /\ events' = Append(events, e)
  /\ arrived' = Append(arrived, e)
  /\ UNCHANGED <<cfg, queue, open, received, runVars>>

(* The caller reads one entry.                                             *)
Read ==
  /\ Reads /\ open /\ queue # <<>>
  /\ received' = Append(received, Head(queue))
  /\ queue' = Tail(queue)
  /\ UNCHANGED <<cfg, open, events, arrived, runVars>>

(* The caller drops the receiver, with what is in it.                      *)
DropReceiver ==
  /\ cfg.caller = "library" /\ open
  /\ open' = FALSE
  /\ queue' = <<>>
  /\ UNCHANGED <<cfg, received, events, arrived, runVars>>

Run ==
  \/ SendSeed \/ SeedsDone \/ WaitClosed \/ StartDaemon \/ RegisterLocal
  \/ Browse \/ TakeEvent \/ SendFound

Next ==
  \/ Run \/ BrowseClosed
  \/ \E e \in Event : MdnsEvent(e)
  \/ Read \/ DropReceiver

Spec == Init /\ [][Next]_vars

(* The runtime keeps polling run and, where there is one, the reader.      *)
FairSpec == Spec /\ WF_vars(Run) /\ WF_vars(Read)

-----------------------------------------------------------------------------
(* How many mDNS events run is done with, and which of the first n of them *)
(* were wanted.                                                            *)
Handled == Len(arrived) - Len(events)

WantedOf(n) == {j \in 1 .. n : Wanted(arrived[j])}

Discovered == [peer : Peer, via_mdns : BOOLEAN]

(* The channel holds no more than its capacity, and of each seed no more   *)
(* than one entry was sent; run takes mDNS events in the order they came,  *)
(* listens to none before all seeds are sent, and of the event it has in   *)
(* hand it knows that it is wanted until the entry is sent, whatever comes *)
(* in while it waits for room.                                             *)
TypeOK ==
  /\ cfg \in Config
  /\ pc \in {"seeds", "closed", "daemon", "register", "browse", "loop", "send", "done"}
  /\ sent \in 0 .. Len(cfg.seeds)
  /\ queue \in Seq(Discovered) /\ Len(queue) <= Capacity
  /\ received \in Seq(Discovered)
  /\ open \in BOOLEAN /\ advertised \in BOOLEAN
  /\ outcome \in {"none", "ok", "BadSeed", "Mdns"}
  /\ arrived \in Seq(Event) /\ Len(arrived) <= MaxEvents
  /\ events \in Seq(Event) /\ Len(events) <= Len(arrived)
  /\ \A i \in 1 .. Len(events) : events[i] = arrived[Handled + i]
  /\ sent < Len(cfg.seeds) => pc \in {"seeds", "done"}
  /\ pc = "seeds" => arrived = <<>>
  /\ pc = "send" => events # <<>> /\ Wanted(Head(events))

(* What the caller has read, and what waits for it, is what was found: the *)
(* seeds in the order of the list, then the wanted services in the order   *)
(* they were resolved, each once, whatever waiting the bound on the        *)
(* channel has caused; our own service is not among them.  The place of a  *)
(* service is the number of wanted events up to it.                        *)
NothingLost ==
  open =>
    /\ Len(received \o queue) = sent + Cardinality(WantedOf(Handled))
    /\ \A i \in 1 .. sent : (received \o queue)[i] = Seed(cfg.seeds[i])
    /\ \A j \in WantedOf(Handled) :
         (received \o queue)[sent + Cardinality(WantedOf(j))] = Found(arrived[j])

Elements(s) == {s[i] : i \in DOMAIN s}

(* All seeds reach a caller that reads, unless one of them does not parse, *)
(* however slowly it reads and whatever becomes of mDNS.                   *)
SeedsArrive ==
  Reads /\ Bad \notin Elements(cfg.seeds)
    ~> ~open \/ \A p \in Elements(cfg.seeds) : Seed(p) \in Elements(received)

(* Every wanted service that is resolved reaches a caller that reads:      *)
(* neither a full channel nor useless events before it stop the loop.      *)
FoundArrive ==
  \A p \in Peer :
    Reads /\ Wanted(p) /\ p \in Elements(arrived)
      ~> ~open \/ Found(p) \in Elements(received)

(* run's documentation has it end when the receiver is dropped.  What the  *)
(* code guarantees: with seeds_only it ends; otherwise it is sure to end   *)
(* only if something is still to be sent, a seed or a wanted service.      *)
StopsWhenDropped ==
  /\ ~open
  /\ \/ cfg.seeds_only \/ (pc = "seeds" /\ sent < Len(cfg.seeds))
     \/ pc \in {"loop", "send"} /\ \E i \in DOMAIN events : Wanted(events[i])
  ~> pc = "done"

(* A caller that wants to be found and reads the channel is registered     *)
(* with mDNS, or run has returned: unlike model_push, which never reads,   *)
(* it cannot be kept in the loop over the seeds by a full channel.         *)
ReaderIsAdvertised ==
  Reads /\ Advertises /\ ~cfg.seeds_only ~> advertised \/ pc = "done" \/ ~open
=============================================================================

------------------------------- MODULE Gossip -------------------------------
(***************************************************************************)
(* Events on the mesh: Transport::publish and subscribe, with the CLI's    *)
(* commands at both ends.  peer_up heartbeats again and again, model_push  *)
(* announces once; peers_list and model_list subscribe, read for a window  *)
(* of time and print what they have seen.                                  *)
(*                                                                         *)
(* subscribe forwards samples from Zenoh's buffer through a bounded        *)
(* channel, in a task of its own.  Zenoh delivers the puts of a peer in    *)
(* order, but a put that finds no subscriber, no link to it yet or no room *)
(* is lost: publish does not wait for anybody to hear it.                  *)
(***************************************************************************)
EXTENDS Naturals, Sequences

CONSTANTS
  Key,          \* what a listing is keyed by: a peer, or a peer's model
  Value,        \* what an event says of its key: a load, or a digest
  None,         \* no value
  Malformed,    \* a payload that is no MeshEvent, from another publisher
  Command,      \* "peers" and "models": the listings to consider
  Steady,       \* keys whose publisher comes up and never goes down
  Capacity,     \* of the mpsc channel (256)
  ZenohBuffer,  \* samples Zenoh keeps for a subscriber
  Window,       \* for_secs, in clock ticks
  MayClose      \* the session may be closed

ASSUME GossipAssumption ==
  /\ None \notin Value
  /\ Malformed \notin Key
  /\ Command \subseteq {"peers", "models"}
  /\ Steady \subseteq Key
  /\ Capacity \in Nat \ {0} /\ ZenohBuffer \in Nat \ {0} /\ Window \in Nat
  /\ MayClose \in BOOLEAN

VARIABLES
  cmd,      \* peers_list or model_list
  proc,     \* the publisher of each key
  last,     \* history: its last event, None if that did not reach the buffer
  linked,   \* publishers whose session is connected to the subscriber's
  buffer,   \* samples in Zenoh's subscriber channel
  session,  \* the subscriber's session is open
  fwd,      \* next step of the forwarder task
  held,     \* the item it is sending
  queue,    \* the mpsc channel
  pc,       \* next step of the listing
  left,     \* time left until its deadline
  seen      \* the listing's map

pubVars == <<proc, last, linked>>
fwdVars == <<fwd, held>>
listVars == <<pc, left, seen>>
vars == <<cmd, pubVars, buffer, session, fwdVars, queue, listVars>>

Item(k, v) == [key |-> k, value |-> v]
Error == [key |-> Malformed, value |-> None]

Subscribed == fwd \in {"recv", "send"} /\ session
Reading == pc \in {"check", "wait"}

Init ==
  /\ cmd \in Command
  /\ proc = [k \in Key |-> "down"]
  /\ last = [k \in Key |-> None]
  /\ linked = {}
  /\ buffer = <<>> /\ queue = <<>>
  /\ session = TRUE
  /\ fwd = "off" /\ held = Error
  /\ pc = "start" /\ left = 0
  /\ seen = [k \in Key |-> None]

-----------------------------------------------------------------------------
(* peer_up or model_push starts: its session is open.                      *)
Up(k) ==
  /\ proc[k] = "down"
  /\ proc' = [proc EXCEPT ![k] = "up"]
  /\ UNCHANGED <<cmd, last, linked, buffer, session, fwdVars, queue,
                 listVars>>

(* model_push registers the file and declares the queryable for pulls.     *)
Serve(k) ==
  /\ cmd = "models"
  /\ proc[k] = "up"
  /\ proc' = [proc EXCEPT ![k] = "serving"]
  /\ UNCHANGED <<cmd, last, linked, buffer, session, fwdVars, queue,
                 listVars>>

(* Ctrl-C, or a crash.                                                     *)
Down(k) ==
  /\ k \notin Steady
  /\ proc[k] # "down"
  /\ proc' = [proc EXCEPT ![k] = "down"]
  /\ linked' = linked \ {k}
  /\ UNCHANGED <<cmd, last, buffer, session, fwdVars, queue, listVars>>

(* Zenoh connects the two sessions, in its own time.                       *)
Link(k) ==
  /\ proc[k] # "down" /\ k \notin linked
  /\ linked' = linked \cup {k}
  /\ UNCHANGED <<cmd, proc, last, buffer, session, fwdVars, queue,
                 listVars>>

(* session.put: the sample gets as far as the subscriber's buffer, or no   *)
(* further than the network.                                               *)
Put(k, v) ==
  /\ \/ /\ Subscribed /\ k \in linked /\ Len(buffer) < ZenohBuffer
        /\ buffer' = Append(buffer, Item(k, v))
        /\ last' = [last EXCEPT ![k] = v]
     \/ /\ ~(Subscribed /\ k \in linked /\ Len(buffer) < ZenohBuffer)
        /\ last' = [last EXCEPT ![k] = None]
        /\ UNCHANGED buffer
  /\ UNCHANGED <<cmd, linked, session, fwdVars, queue, listVars>>

(* One tick of peer_up's heartbeat loop.                                   *)
Beat(k, v) ==
  /\ cmd = "peers"
  /\ proc[k] = "up"
  /\ Put(k, v)
  /\ UNCHANGED proc

(* Mutant: the announcement does not wait for serve.                       *)
AnnounceEarly(k, v) ==
  /\ cmd = "models"
  /\ proc[k] \in {"up", "serving"}
  /\ Put(k, v)
  /\ proc' = [proc EXCEPT ![k] = IF @ = "serving" THEN "announced" ELSE @]

(* model_push's one announcement.                                          *)
AnnounceOnce(k, v) ==
  /\ cmd = "models"
  /\ proc[k] = "serving"
  /\ Put(k, v)
  /\ proc' = [proc EXCEPT ![k] = "announced"]

(* Somebody puts a payload that does not decode on a key subscribed to.    *)
PutMalformed ==
  /\ Subscribed /\ Len(buffer) < ZenohBuffer
  /\ buffer' = Append(buffer, Error)
  /\ UNCHANGED <<cmd, pubVars, session, fwdVars, queue, listVars>>

-----------------------------------------------------------------------------
(* The forwarder task of subscribe receives a sample and decodes it, or    *)
(* makes an error item of it.                                              *)
TakeSample ==
  /\ fwd = "recv" /\ buffer # <<>>
  /\ held' = Head(buffer)
  /\ buffer' = Tail(buffer)
  /\ fwd' = "send"
  /\ UNCHANGED <<cmd, pubVars, session, queue, listVars>>

(* Mutant: an item is dropped when the channel is full.                    *)
TrySendItem ==
  /\ fwd = "send"
  /\ \/ /\ Reading
        /\ queue' = IF Len(queue) < Capacity THEN Append(queue, held) ELSE queue
        /\ fwd' = "recv"
     \/ pc = "done" /\ fwd' = "done" /\ UNCHANGED queue
  /\ held' = Error
  /\ UNCHANGED <<cmd, pubVars, buffer, session, listVars>>

(* Mutant: the result of send is ignored.                                  *)
SendItemAnyway ==
  /\ fwd = "send"
  /\ \/ /\ Reading /\ Len(queue) < Capacity
        /\ queue' = Append(queue, held)
     \/ pc = "done" /\ UNCHANGED queue
  /\ fwd' = "recv"
  /\ held' = Error
  /\ UNCHANGED <<cmd, pubVars, buffer, session, listVars>>

(* Mutant: the channel is unbounded.                                       *)
SendItemUnbounded ==
  /\ fwd = "send"
  /\ \/ /\ Reading
        /\ queue' = Append(queue, held)
        /\ fwd' = "recv"
     \/ pc = "done" /\ fwd' = "done" /\ UNCHANGED queue
  /\ held' = Error
  /\ UNCHANGED <<cmd, pubVars, buffer, session, listVars>>

(* tx.send: it waits for room, and ends the task, and the subscription,    *)
(* when the stream has been dropped.                                       *)
SendItem ==
  /\ fwd = "send"
  /\ \/ /\ Reading /\ Len(queue) < Capacity
        /\ queue' = Append(queue, held)
        /\ fwd' = "recv"
     \/ pc = "done" /\ fwd' = "done" /\ UNCHANGED queue
  /\ held' = Error
  /\ UNCHANGED <<cmd, pubVars, buffer, session, listVars>>

(* The session is closed; the forwarder ends when the buffer is empty.     *)
CloseSession ==
  /\ MayClose /\ session
  /\ session' = FALSE
  /\ UNCHANGED <<cmd, pubVars, buffer, fwdVars, queue, listVars>>

SubscriberClosed ==
  /\ fwd = "recv" /\ buffer = <<>> /\ ~session
  /\ fwd' = "done"
  /\ UNCHANGED <<cmd, pubVars, buffer, session, held, queue, listVars>>

-----------------------------------------------------------------------------
(* peers_list and model_list: subscribe, and set the deadline.             *)
Subscribe ==
  /\ pc = "start" /\ session
  /\ fwd' = "recv"
  /\ pc' = "check"
  /\ left' = Window
  /\ UNCHANGED <<cmd, pubVars, buffer, session, held, queue, seen>>

(* The loop ends and the stream is dropped, with what is in it.            *)
Finish ==
  /\ pc' = "done"
  /\ queue' = <<>>
  /\ UNCHANGED <<cmd, pubVars, buffer, session, fwdVars, left, seen>>

(* Mutant: the deadline only limits each wait.                             *)
NeverCheckDeadline ==
  /\ pc = "check"
  /\ pc' = "wait"
  /\ UNCHANGED <<cmd, pubVars, buffer, session, fwdVars, queue, left, seen>>

(* The top of the loop.                                                    *)
CheckDeadline ==
  /\ pc = "check"
  /\ \/ left = 0 /\ Finish
     \/ /\ left > 0 /\ pc' = "wait"
        /\ UNCHANGED <<cmd, pubVars, buffer, session, fwdVars, queue, left,
                       seen>>

(* sub.next() yields an item: an event overwrites what was seen of its     *)
(* key, an error item is passed over.                                      *)
NextItem ==
  LET item == Head(queue) IN
  /\ pc = "wait" /\ queue # <<>>
  /\ queue' = Tail(queue)
  /\ seen' = IF item = Error THEN seen ELSE [seen EXCEPT ![item.key] = item.value]
  /\ pc' = "check"
  /\ UNCHANGED <<cmd, pubVars, buffer, session, fwdVars, left>>

(* The timeout around next() elapses, or the stream has ended.             *)
StopWaiting ==
  /\ pc = "wait"
  /\ left = 0 \/ (queue = <<>> /\ fwd = "done")
  /\ Finish

Tick ==
  /\ Reading /\ left > 0
  /\ left' = left - 1
  /\ UNCHANGED <<cmd, pubVars, buffer, session, fwdVars, queue, pc, seen>>

-----------------------------------------------------------------------------
Publish(k) == \E v \in Value : Beat(k, v) \/ AnnounceOnce(k, v)

Forwarder == TakeSample \/ SendItem \/ SubscriberClosed

Listing == Subscribe \/ CheckDeadline \/ NextItem \/ StopWaiting

Next ==
  \/ \E k \in Key : Up(k) \/ Serve(k) \/ Down(k) \/ Link(k) \/ Publish(k)
  \/ PutMalformed \/ CloseSession
  \/ Forwarder \/ Listing \/ Tick

Spec == Init /\ [][Next]_vars

(* The runtime polls the forwarder and the listing, time passes, and the   *)
(* publishers in Steady come up, are linked, serve and keep their interval.*)
FairSpec ==
  /\ Spec
  /\ WF_vars(Forwarder) /\ WF_vars(Listing) /\ WF_vars(Tick)
  /\ \A k \in Steady :
       WF_vars(Up(k) \/ Serve(k)) /\ WF_vars(Link(k)) /\ WF_vars(Publish(k))

-----------------------------------------------------------------------------
(* Items on their way from Zenoh's buffer to the listing, the next first.  *)
InTransit == queue \o (IF fwd = "send" THEN <<held>> ELSE <<>>) \o buffer

(* Nobody is subscribed before the listing is; the channel and the buffer  *)
(* keep their bounds, the forwarder waiting for room with an item in hand; *)
(* nothing enters the channel once its stream is dropped.                  *)
Items == {Item(k, v) : k \in Key, v \in Value} \cup {Error}

TypeOK ==
  /\ cmd \in Command
  /\ proc \in [Key -> {"down", "up", "serving", "announced"}]
  /\ last \in [Key -> Value \cup {None}]
  /\ linked \in SUBSET Key
  /\ buffer \in Seq(Items) /\ Len(buffer) <= ZenohBuffer
  /\ queue \in Seq(Items) /\ Len(queue) <= Capacity
  /\ session \in BOOLEAN
  /\ fwd \in {"off", "recv", "send", "done"} /\ held \in Items
  /\ pc \in {"start", "check", "wait", "done"}
  /\ left \in 0 .. Window
  /\ seen \in [Key -> Value \cup {None}]
  /\ pc = "start" => fwd = "off" /\ \A k \in Key : last[k] = None
  /\ pc = "done" => queue = <<>>
  /\ fwd # "send" => held = Error

OnItsWay(k) == \E i \in DOMAIN InTransit : InTransit[i].key = k

(* The last item of k on its way.                                          *)
Newest(k, i) ==
  /\ InTransit[i].key = k
  /\ \A j \in DOMAIN InTransit : j > i => InTransit[j].key # k

(* While a listing reads, it has, or is about to get, the last event of    *)
(* every key whose event reached its buffer: the forwarder loses nothing   *)
(* and reorders nothing, undecodable payloads stop nothing, and a later    *)
(* event of a key always overwrites the earlier one.                       *)
NothingStale ==
  Reading =>
    \A k \in Key : last[k] # None =>
      \/ \E i \in DOMAIN InTransit :
           Newest(k, i) /\ InTransit[i].value = last[k]
      \/ ~OnItsWay(k) /\ seen[k] = last[k]

(* A model that model_list has seen, or will print, can be pulled at once: *)
(* model_push has declared the queryable before anybody can hear of the    *)
(* digest, unless the pusher has gone down since.                          *)
SeenIsServed ==
  \A k \in Steady :
    cmd = "models" /\ (seen[k] # None \/ OnItsWay(k)) =>
      proc[k] \in {"serving", "announced"}

(* A listing ends, at the latest soon after its deadline: with no event at *)
(* all, and with a stream that never runs dry.                             *)
ListingEnds == Reading ~> pc = "done"

(* The forwarder task, and with it the Zenoh subscription, ends after its  *)
(* stream is dropped, as long as somebody heartbeats: it only notices when *)
(* it has something to send.                                               *)
ForwarderStops == cmd = "peers" /\ pc = "done" ~> fwd = "done"
=============================================================================

------------------------------- MODULE Router -------------------------------
(***************************************************************************)
(* One Router: gossip events are recorded and requests routed in any       *)
(* order, while time passes.  The history variable log keeps every event   *)
(* as it arrived, so that a decision can be judged by what was heard       *)
(* instead of by the table that summarises it.                             *)
(***************************************************************************)
EXTENDS RoutingTable, Sequences

CONSTANTS
  Self,      \* the local PeerId
  MaxTime,   \* bound on the clock
  MaxLog     \* bound on the number of events

ASSUME RouterAssumption == Self \in Peer /\ MaxTime \in Nat /\ MaxLog \in Nat

VARIABLES
  table,     \* Router::state
  now,       \* Instant::now()
  log,       \* history: the events recorded so far
  decision   \* what the last step returned, if it was a call of route

routerVars == <<table, now, log, decision>>

Event ==
  [kind : {"announce"}, peer : Peer, at : Nat, model : Model]
    \cup [kind : {"heartbeat"}, peer : Peer, at : Nat, load : Loads]

NoDecision == [kind |-> "None"]

RouterInit ==
  /\ table = EmptyTable
  /\ now = 0
  /\ log = <<>>
  /\ decision = NoDecision

Announce(p, model) ==
  /\ Len(log) < MaxLog
  /\ table' = RecordAnnounce(table, Self, p, model, now)
  /\ log' = Append(log, [kind |-> "announce", peer |-> p, at |-> now,
                         model |-> model])
  /\ decision' = NoDecision
  /\ UNCHANGED now

Heartbeat(p, load) ==
  /\ Len(log) < MaxLog
  /\ table' = RecordHeartbeat(table, Self, p, load, now)
  /\ log' = Append(log, [kind |-> "heartbeat", peer |-> p, at |-> now,
                         load |-> load])
  /\ decision' = NoDecision
  /\ UNCHANGED now

Route(model, local_has, hops) ==
  /\ \E d \in Outcomes(table, model, local_has, hops, now) :
       decision' = [outcome |-> d, model |-> model, kind |-> "Routed",
                    local_has |-> local_has, hops |-> hops]
  /\ UNCHANGED <<table, now, log>>

Tick ==
  /\ now < MaxTime
  /\ now' = now + 1
  /\ decision' = NoDecision
  /\ UNCHANGED <<table, log>>

RouterNext ==
  \/ \E p \in Peer, model \in Model : Announce(p, model)
  \/ \E p \in Peer, load \in Loads : Heartbeat(p, load)
  \/ \E model \in Model, local_has \in BOOLEAN, hops \in 0 .. MaxHops :
       Route(model, local_has, hops)
  \/ Tick

RouterSpec == RouterInit /\ [][RouterNext]_routerVars

-----------------------------------------------------------------------------
RouterTypeOK ==
  /\ table \in [Peer -> PeerState]
  /\ now \in Nat
  /\ log \in Seq(Event)

(* What the log says of a peer.                                            *)
HeardAt(p, t) ==
  \E i \in DOMAIN log : log[i].peer = p /\ log[i].at = t
HeardLately(p) == \E t \in 0 .. now : now - t < DeadAfter /\ HeardAt(p, t)
HasAnnounced(p, model) ==
  \E i \in DOMAIN log :
    log[i].kind = "announce" /\ log[i].peer = p /\ log[i].model = model
IsBeat(i, p) == log[i].kind = "heartbeat" /\ log[i].peer = p
LastLoadIs(p, load) ==
  \/ load = UnknownLoad /\ \A i \in DOMAIN log : ~IsBeat(i, p)
  \/ \E i \in DOMAIN log :
       /\ IsBeat(i, p)
       /\ log[i].load = load
       /\ \A j \in DOMAIN log : IsBeat(j, p) => j <= i

(* A peer a request could go to, judging by the log alone.                 *)
Eligible(p, model) == p # Self /\ HasAnnounced(p, model) /\ HeardLately(p)

(* Three such peers, in PeerId order, whose loads the comparison of route  *)
(* takes round in a circle: NaN stands between the other two, which makes  *)
(* the first come before the last, and the last has the smaller load.      *)
Tangled(model) ==
  \E p, q, r \in Peer : \E lp, lr \in Number :
    /\ p < q /\ q < r
    /\ Eligible(p, model) /\ Eligible(q, model) /\ Eligible(r, model)
    /\ LastLoadIs(p, lp) /\ LastLoadIs(q, NaN) /\ LastLoadIs(r, lr)
    /\ lr < lp

(* A forward goes to another peer that announced the model and was heard   *)
(* lately, and no such peer reported a smaller load in its last heartbeat, *)
(* or the same load, or one that cannot be compared, under a smaller       *)
(* PeerId: the table that record_announce and record_heartbeat maintain    *)
(* forgets nothing that route needs, in whatever order announcements and   *)
(* heartbeats come.  Only loads that are tangled have no best.             *)
ForwardIsBest ==
  decision.kind = "Routed" /\ decision.outcome.kind = "Forward" =>
    LET to == decision.outcome.to
        model == decision.model
    IN  /\ Eligible(to, model)
        /\ ~decision.local_has /\ decision.hops < MaxHops
        /\ ~Tangled(model) =>
             \A q \in Peer, lq, lt \in Loads :
               Eligible(q, model) /\ LastLoadIs(q, lq) /\ LastLoadIs(to, lt)
                 => Lighter(lt, lq) \/ (~Lighter(lq, lt) /\ to <= q)

(* "no peer advertises model" is only answered when, judging by the log,   *)
(* no live peer does: route overlooks nobody.  As in the code, every event *)
(* of a peer counts as a sign of life, announcements included.             *)
RefusalIsRight ==
  decision.kind = "Routed" /\ decision.outcome = NoSuchModel =>
    \A p \in Peer : ~Eligible(p, decision.model)

(* The target that a table leads to is one target, although the HashMap    *)
(* that is sorted has no order of its own ("so two peers making the same   *)
(* decision pick the same target").                                        *)
OneTarget(model) ==
  \A d, e \in Outcomes(table, model, FALSE, 0, now) : d = e

(* What the comment promises of every table.                               *)
SameTarget == \A model \in Model : OneTarget(model)

(* What holds: only tangled loads leave a choice.                          *)
SameTargetUnlessTangled ==
  \A model \in Model : Tangled(model) \/ OneTarget(model)

(* The inductive invariant: the table says of each other peer exactly what *)
(* the log says of it, and a decision is one that route can return.        *)
Summarises(p) ==
  /\ table[p].known <=> p # Self /\ \E i \in DOMAIN log : log[i].peer = p
  /\ table[p].known =>
       /\ HeardAt(p, table[p].last_seen)
       /\ \A i \in DOMAIN log :
            log[i].peer = p => log[i].at <= table[p].last_seen
  /\ p # Self =>
       /\ \A model \in Model :
            model \in table[p].models <=> HasAnnounced(p, model)
       /\ LastLoadIs(p, table[p].load)

RouterInv ==
  /\ RouterTypeOK
  /\ \A i \in DOMAIN log : log[i].at <= now
  /\ \A p \in Peer : Summarises(p)
  /\ decision.kind = "Routed" =>
       /\ decision.model \in Model /\ decision.hops \in Nat
       /\ decision.outcome \in Outcomes(table, decision.model,
                                 decision.local_has, decision.hops, now)

=============================================================================

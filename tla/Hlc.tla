-------------------------------- MODULE Hlc --------------------------------
(***************************************************************************)
(* HybridLogicalClock of furcate-mesh-core, as a peer uses it: bump_past   *)
(* for every event it observes, and now() for the clock of its own         *)
(* heartbeats, the way peer_up of the CLI stamps them.                     *)
(***************************************************************************)
EXTENDS Integers

CONSTANTS
  MaxWall,      \* u64::MAX milliseconds
  MaxCounter    \* u32::MAX

ASSUME HlcAssumption == MaxWall \in Nat /\ MaxCounter \in Nat

HybridLogicalClock == [wall_ms : 0 .. MaxWall, counter : 0 .. MaxCounter]

(* The derived order: wall_ms, then counter.                               *)
Less(a, b) ==
  \/ a.wall_ms < b.wall_ms
  \/ a.wall_ms = b.wall_ms /\ a.counter < b.counter

(* Mutant: a time past u64 is not clamped.                                 *)
NowUnclamped(time) ==
  [wall_ms |-> IF time < 0 THEN 0 ELSE time, counter |-> 0]

(* now(): a time before the epoch counts as 0, one past u64 as u64::MAX.   *)
Now(time) ==
  [wall_ms |-> IF time < 0 THEN 0 ELSE IF time > MaxWall THEN MaxWall ELSE time,
   counter |-> 0]

SaturatingIncrement(n) == IF n < MaxCounter THEN n + 1 ELSE MaxCounter

(* Mutant: the clock is replaced by what it observes.                      *)
BumpTo(self, other) ==
  [other EXCEPT !.counter = SaturatingIncrement(@)]

(* Mutant: the counter wraps around.                                       *)
BumpWrapping(self, other) ==
  LET ahead == IF Less(self, other) THEN other ELSE self IN
  [ahead EXCEPT !.counter = (@ + 1) % (MaxCounter + 1)]

BumpPast(self, other) ==
  LET ahead == IF Less(self, other) THEN other ELSE self IN
  [ahead EXCEPT !.counter = SaturatingIncrement(@)]

VARIABLES
  time,      \* the system clock, which NTP can set to anything
  clock,     \* the peer's own HLC
  seen,      \* history: the clocks observed so far
  sent       \* the clock of the last heartbeat

clockVars == <<time, clock, seen, sent>>

Time == -1 .. MaxWall + 1

ClockInit ==
  /\ time \in Time
  /\ clock = Now(time)
  /\ seen = {}
  /\ sent = Now(time)

SetTime(t) == time' = t /\ UNCHANGED <<clock, seen, sent>>

Observe(x) ==
  /\ clock' = BumpPast(clock, x)
  /\ seen' = seen \cup {x}
  /\ UNCHANGED <<time, sent>>

SendHeartbeat == sent' = Now(time) /\ UNCHANGED <<time, clock, seen>>

ClockNext ==
  \/ \E t \in Time : SetTime(t)
  \/ \E x \in HybridLogicalClock : Observe(x)
  \/ SendHeartbeat

ClockSpec == ClockInit /\ [][ClockNext]_clockVars

-----------------------------------------------------------------------------
ClockTypeOK ==
  /\ time \in Time
  /\ clock \in HybridLogicalClock
  /\ seen \subseteq HybridLogicalClock
  /\ sent \in HybridLogicalClock

(* However far ahead other peers' clocks are, and in whatever order their  *)
(* events come, the peer's own clock is past each of them; only a counter  *)
(* at its limit can leave it level with the last.                          *)
PastAllSeen ==
  \A x \in seen : Less(x, clock) \/ (x = clock /\ clock.counter = MaxCounter)

(* The clock never goes back.                                              *)
NeverBack == [][clock' = clock \/ Less(clock, clock')]_clockVars

=============================================================================

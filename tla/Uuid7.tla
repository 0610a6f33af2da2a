-------------------------------- MODULE Uuid7 --------------------------------
(* domain.identifiers.uuid7, which mints the ids of internal rows: threads   *)
(* of one process share a millisecond and a counter under a lock, and read a *)
(* wall clock that may be set back.  An id is the pair of the two; its other *)
(* bits are random and less significant.  What uuid7 does with a time given  *)
(* by a test, which uses none of this state, is left out.                    *)
EXTENDS Integers

CONSTANTS
  Threads,       \* threads that call uuid7
  CounterMax,    \* _COUNTER_MAX
  ClockMax       \* bound on the clock and, but for one overflow, on _last_ms

ASSUME BoundsAssumption == CounterMax \in Nat /\ ClockMax \in Nat
ASSUME ThreadsAssumption == "free" \notin Threads

VARIABLES
  clock,         \* time.time_ns() in milliseconds
  last_ms,       \* _last_ms
  counter,       \* _counter
  lock,          \* the thread that holds _lock, or "free"
  at,            \* where each thread is in its call
  ms,            \* the time it has read
  id,            \* its snapshot, which it assembles after the lock
  returned,      \* the largest id any call has returned
  floor          \* what that was when the thread's call began

vars == <<clock, last_ms, counter, lock, at, ms, id, returned, floor>>

Seeds == 0 .. CounterMax
Ids == [ms : Nat, rand_a : Seeds]
Before(a, b) == a.ms < b.ms \/ (a.ms = b.ms /\ a.rand_a < b.rand_a)

TypeOK ==
  /\ clock \in Nat /\ last_ms \in Nat /\ counter \in Seeds
  /\ lock \in Threads \cup {"free"}
  /\ at \in [Threads -> {"idle", "waiting", "locked", "read", "advanced", "assembling"}]
  /\ ms \in [Threads -> Nat] /\ id \in [Threads -> Ids]
  /\ returned \in Ids /\ floor \in [Threads -> Ids]

Init ==
  /\ clock \in 0 .. ClockMax
  /\ last_ms = 0 /\ counter = 0
  /\ lock = "free"
  /\ at = [t \in Threads |-> "idle"] /\ ms = [t \in Threads |-> 0]
  /\ returned = [ms |-> 0, rand_a |-> 0]
  /\ id = [t \in Threads |-> returned] /\ floor = [t \in Threads |-> returned]

Call(t) ==
  /\ at[t] = "idle"
  /\ at' = [at EXCEPT ![t] = "waiting"]
  /\ floor' = [floor EXCEPT ![t] = returned]
  /\ UNCHANGED <<clock, last_ms, counter, lock, ms, id, returned>>

(* Mutant: no lock. *)
AcquireNothing(t) ==
  /\ at[t] = "waiting"
  /\ lock' = t
  /\ at' = [at EXCEPT ![t] = "locked"]
  /\ UNCHANGED <<clock, last_ms, counter, ms, id, returned, floor>>

Acquire(t) ==
  /\ at[t] = "waiting" /\ lock = "free"
  /\ lock' = t
  /\ at' = [at EXCEPT ![t] = "locked"]
  /\ UNCHANGED <<clock, last_ms, counter, ms, id, returned, floor>>

ReadClock(t) ==
  /\ at[t] = "locked"
  /\ ms' = [ms EXCEPT ![t] = clock]
  /\ at' = [at EXCEPT ![t] = "read"]
  /\ UNCHANGED <<clock, last_ms, counter, lock, id, returned, floor>>

(* Mutant: a clock set back is believed. *)
AdvanceBack(t) ==
  /\ at[t] = "read" /\ last_ms <= ClockMax
  /\ \/ ms[t] # last_ms /\ last_ms' = ms[t] /\ counter' \in Seeds
     \/ ms[t] = last_ms /\ counter < CounterMax /\ last_ms' = last_ms /\ counter' = counter + 1
     \/ ms[t] = last_ms /\ counter = CounterMax /\ last_ms' = last_ms + 1 /\ counter' \in Seeds
  /\ at' = [at EXCEPT ![t] = "advanced"]
  /\ UNCHANGED <<clock, lock, ms, id, returned, floor>>

(* A new millisecond seeds the counter; the same one, or a clock set back,  *)
(* counts on; an overflow takes a millisecond that has not come yet.        *)
Advance(t) ==
  /\ at[t] = "read" /\ last_ms <= ClockMax
  /\ \/ ms[t] > last_ms /\ last_ms' = ms[t] /\ counter' \in Seeds
     \/ ms[t] <= last_ms /\ counter < CounterMax /\ last_ms' = last_ms /\ counter' = counter + 1
     \/ ms[t] <= last_ms /\ counter = CounterMax /\ last_ms' = last_ms + 1 /\ counter' \in Seeds
  /\ at' = [at EXCEPT ![t] = "advanced"]
  /\ UNCHANGED <<clock, lock, ms, id, returned, floor>>

(* The snapshot is taken before the lock is released. *)
Snapshot(t) ==
  /\ at[t] = "advanced"
  /\ id' = [id EXCEPT ![t] = [ms |-> last_ms, rand_a |-> counter]]
  /\ lock' = "free"
  /\ at' = [at EXCEPT ![t] = "assembling"]
  /\ UNCHANGED <<clock, last_ms, counter, ms, returned, floor>>

Return(t) ==
  /\ at[t] = "assembling"
  /\ at' = [at EXCEPT ![t] = "idle"]
  /\ returned' = IF Before(returned, id[t]) THEN id[t] ELSE returned
  /\ UNCHANGED <<clock, last_ms, counter, lock, ms, id, floor>>

SetClock ==
  /\ clock' \in 0 .. ClockMax
  /\ UNCHANGED <<last_ms, counter, lock, at, ms, id, returned, floor>>

Next ==
  \/ \E t \in Threads :
       Call(t) \/ Acquire(t) \/ ReadClock(t) \/ Advance(t) \/ Snapshot(t) \/ Return(t)
  \/ SetClock

Spec == Init /\ [][Next]_vars

-----------------------------------------------------------------------------
(* An id is larger than every id that had been returned when its call       *)
(* began, and no two calls in progress have the same, whatever the clock    *)
(* does and however many ids a millisecond takes ("strictly monotonic       *)
(* within the process", identifiers.py:90-93).                              *)
IdsIncrease ==
  \A t \in Threads : at[t] = "assembling" =>
    /\ Before(floor[t], id[t])
    /\ \A u \in Threads \ {t} : at[u] = "assembling" => id[u] # id[t]

=============================================================================

----------------------------- MODULE Uuid7Proofs -----------------------------
(* IdsIncrease for every number of threads, every counter and every clock.  *)
EXTENDS Uuid7, TLAPS

(* What the process holds is never behind an id it has handed out, and is   *)
(* ahead of them all while a thread is between its two writes.              *)
Shared == [ms |-> last_ms, rand_a |-> counter]
NotBehind ==
  /\ ~Before(Shared, returned)
  /\ \A t \in Threads : ~Before(Shared, id[t]) /\ ~Before(Shared, floor[t])
Ahead ==
  \A u \in Threads : at[u] = "advanced" =>
    /\ Before(returned, Shared)
    /\ \A t \in Threads : Before(id[t], Shared) /\ Before(floor[t], Shared)
OneInside == \A t \in Threads : at[t] \in {"locked", "read", "advanced"} => lock = t
IInv == TypeOK /\ NotBehind /\ Ahead /\ OneInside /\ IdsIncrease

(* The initial state satisfies the invariant. *)
LEMMA InitIInv == Init => IInv
<1> SUFFICES ASSUME Init PROVE IInv
  OBVIOUS
<1>1. TypeOK
  BY BoundsAssumption DEF Init, TypeOK, Ids, Seeds
<1>2. NotBehind
  BY <1>1 DEF Init, NotBehind, Before, Shared, TypeOK, Ids
<1>3. Ahead /\ OneInside /\ IdsIncrease
  BY DEF Init, Ahead, OneInside, IdsIncrease
<1> QED
  BY <1>1, <1>2, <1>3 DEF IInv

(* Ids are ordered, whatever the largest counter. *)
LEMMA BeforeOrders ==
  ASSUME NEW a \in Ids, NEW b \in Ids, NEW c \in Ids
  PROVE  /\ ~Before(a, a)
         /\ Before(a, b) /\ ~Before(c, b) => Before(a, c)
         /\ ~Before(b, a) /\ Before(b, c) => Before(a, c)
         /\ ~Before(b, a) /\ ~Before(c, b) => ~Before(c, a)
         /\ Before(a, b) => ~Before(b, a)
BY BoundsAssumption DEF Before, Ids, Seeds

(* Advance moves what the process holds forward. *)
LEMMA AdvanceMoves ==
  ASSUME TypeOK, NEW t \in Threads, Advance(t)
  PROVE  Before(Shared, Shared') /\ Shared \in Ids /\ Shared' \in Ids
BY BoundsAssumption DEF TypeOK, Advance, Before, Shared, Ids, Seeds

(* Every step preserves the invariant. *)
LEMMA StepIInv == IInv /\ [Next]_vars => IInv'
<1> SUFFICES ASSUME IInv, [Next]_vars PROVE IInv'
  OBVIOUS
<1> USE DEF IInv
<1>0. Shared \in Ids
  BY DEF TypeOK, Shared, Ids
<1>1. CASE UNCHANGED vars
  BY <1>1 DEF vars, TypeOK, NotBehind, Ahead, OneInside, IdsIncrease, Shared
<1>2. CASE SetClock
  BY <1>2, BoundsAssumption
  DEF SetClock, TypeOK, NotBehind, Ahead, OneInside, IdsIncrease, Shared
<1>3. ASSUME NEW t \in Threads, Call(t) PROVE IInv'
  <2>1. TypeOK'
    BY <1>3 DEF Call, TypeOK
  <2>2. NotBehind' /\ Ahead'
    BY <1>3 DEF Call, TypeOK, NotBehind, Ahead, Shared
  <2>3. OneInside' /\ IdsIncrease'
    BY <1>3 DEF Call, TypeOK, OneInside, IdsIncrease
  <2> QED
    BY <2>1, <2>2, <2>3
<1>4. ASSUME NEW t \in Threads, Acquire(t) PROVE IInv'
  <2>1. TypeOK'
    BY <1>4 DEF Acquire, TypeOK
  <2>2. NotBehind' /\ Ahead'
    BY <1>4 DEF Acquire, TypeOK, NotBehind, Ahead, Shared
  <2>3. OneInside' /\ IdsIncrease'
    BY <1>4, ThreadsAssumption DEF Acquire, TypeOK, OneInside, IdsIncrease
  <2> QED
    BY <2>1, <2>2, <2>3
<1>5. ASSUME NEW t \in Threads, ReadClock(t) PROVE IInv'
  <2>1. TypeOK'
    BY <1>5 DEF ReadClock, TypeOK
  <2>2. NotBehind' /\ Ahead'
    BY <1>5 DEF ReadClock, TypeOK, NotBehind, Ahead, Shared
  <2>3. OneInside' /\ IdsIncrease'
    BY <1>5 DEF ReadClock, TypeOK, OneInside, IdsIncrease
  <2> QED
    BY <2>1, <2>2, <2>3
<1>6. ASSUME NEW t \in Threads, Advance(t) PROVE IInv'
  <2>1. TypeOK'
    BY <1>6, BoundsAssumption DEF Advance, TypeOK, Seeds
  <2>2. Before(Shared, Shared') /\ Shared' \in Ids
    BY <1>6, AdvanceMoves
  <2>3. UNCHANGED <<id, floor, returned, lock>>
    BY <1>6 DEF Advance
  <2>4. ASSUME NEW a \in Ids, ~Before(Shared, a) PROVE Before(a, Shared') /\ ~Before(Shared', a)
    BY <1>0, <2>2, <2>4, BeforeOrders
  <2>5. /\ Before(returned, Shared') /\ ~Before(Shared', returned)
        /\ \A u \in Threads : /\ Before(id[u], Shared') /\ ~Before(Shared', id[u])
                              /\ Before(floor[u], Shared') /\ ~Before(Shared', floor[u])
    BY <2>4 DEF TypeOK, NotBehind
  <2>6. NotBehind' /\ Ahead'
    BY <2>3, <2>5 DEF NotBehind, Ahead
  <2>7. OneInside' /\ IdsIncrease'
    BY <1>6, <2>3 DEF Advance, TypeOK, OneInside, IdsIncrease
  <2> QED
    BY <2>1, <2>6, <2>7
<1>7. ASSUME NEW t \in Threads, Snapshot(t) PROVE IInv'
  <2>1. TypeOK'
    BY <1>7 DEF Snapshot, TypeOK, Ids
  <2>2. /\ id' = [id EXCEPT ![t] = Shared] /\ Shared' = Shared
        /\ UNCHANGED <<returned, floor>>
    BY <1>7 DEF Snapshot, Shared
  <2>3. ~Before(Shared, Shared)
    BY <1>0, BeforeOrders
  <2>4. NotBehind'
    BY <2>2, <2>3 DEF NotBehind, TypeOK
  <2>5. \A u \in Threads : at'[u] # "advanced"
    BY <1>7 DEF Snapshot, OneInside, TypeOK
  <2>6. Ahead'
    BY <2>5 DEF Ahead
  <2>7. OneInside'
    BY <1>7 DEF Snapshot, OneInside, TypeOK
  <2>8. Before(floor[t], Shared) /\ \A u \in Threads : id[u] # Shared
    BY <1>7, <2>3 DEF Snapshot, Ahead
  <2>9. IdsIncrease'
    BY <1>7, <2>2, <2>8 DEF Snapshot, IdsIncrease, TypeOK
  <2> QED
    BY <2>1, <2>4, <2>6, <2>7, <2>9
<1>8. ASSUME NEW t \in Threads, Return(t) PROVE IInv'
  <2>1. returned' \in {returned, id[t]}
    BY <1>8 DEF Return
  <2>2. TypeOK'
    BY <1>8, <2>1 DEF Return, TypeOK
  <2>3. NotBehind' /\ Ahead'
    BY <1>8, <2>1 DEF Return, TypeOK, NotBehind, Ahead, Shared
  <2>4. OneInside' /\ IdsIncrease'
    BY <1>8 DEF Return, TypeOK, OneInside, IdsIncrease
  <2> QED
    BY <2>2, <2>3, <2>4
<1> QED
  BY <1>1, <1>2, <1>3, <1>4, <1>5, <1>6, <1>7, <1>8 DEF Next

(* uuid7 is strictly monotonic within a process: an id is larger than every *)
(* id returned before its call began, and unlike those of calls in          *)
(* progress, for any number of threads, any clock and any counter width.    *)
THEOREM IdsIncreaseAlways == Spec => []IdsIncrease
<1>1. IInv => IdsIncrease
  BY DEF IInv
<1> QED
  BY <1>1, InitIInv, StepIInv, PTL DEF Spec

=============================================================================

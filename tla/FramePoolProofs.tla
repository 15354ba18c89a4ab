--------------------------- MODULE FramePoolProofs ---------------------------
(***************************************************************************)
(* For any number of acquirers and frames: the slots, the count, the mutex *)
(* and the condition variable of frame_pool.c implement ClosablePool, and  *)
(* no acquirer is left asleep.  IInv of FramePool is inductive; the sum in *)
(* FramesAccountedFor is what keeps the two scans of the slots from        *)
(* failing: an open pool with a count above zero has an occupied slot, and *)
(* one that takes a frame back has an empty one.                           *)
(***************************************************************************)
EXTENDS FramePool, FiniteSetTheorems, TLAPS

(* The loops over the slots find one when there is one.                    *)
LEMMA FirstOf ==
  ASSUME NEW S, S \subseteq Slots, S # {}
  PROVE  First(S) \in S
<1> DEFINE Below(i) == {j \in S : j < i}
           T == {Below(i) : i \in S}
<1>1. Capacity \in Nat /\ S \subseteq Int
  BY PoolAssumption DEF Slots
<1>2. IsFiniteSet(S)
  <2>1. IsFiniteSet(Slots)
    BY <1>1, FS_Interval DEF Slots
  <2> QED BY <2>1, FS_Subset
<1>3. FiniteSubsetsOf(S) = SUBSET S
  BY <1>2, FS_FiniteSubsetsOfFinite
<1>4. IsWellFoundedOn(StrictSubsetOrdering(S), SUBSET S)
  BY <1>3, FS_StrictSubsetOrderingWellFounded
<1>5. T \subseteq SUBSET S /\ T # {}
  OBVIOUS
<1>6. \E x \in T : \A y \in T : ~ (<<y, x>> \in StrictSubsetOrdering(S))
  <2> HIDE DEF T
  <2> QED BY <1>4, <1>5, WFMin
<1>7. PICK i \in S : \A k \in S : <<Below(k), Below(i)>> \notin StrictSubsetOrdering(S)
  BY <1>6
<1>8. ASSUME NEW k \in S, k < i PROVE FALSE
  <2>1. k \in Below(i) /\ k \notin Below(k) /\ Below(k) \subseteq Below(i)
    <3>1. i \in Int /\ k \in Int /\ \A j \in S : j \in Int
      BY <1>1
    <3>2. \A j \in S : j < k => j < i
      BY <1>8, <3>1
    <3>3. ~(k < k)
      BY <3>1
    <3>4. k \in Below(i) /\ k \notin Below(k)
      BY <1>8, <3>3
    <3>5. Below(k) \subseteq Below(i)
      BY <3>2
    <3> QED BY <3>4, <3>5
  <2>2. <<Below(k), Below(i)>> \in StrictSubsetOrdering(S)
    BY <2>1 DEF StrictSubsetOrdering
  <2> QED BY <1>7, <2>2
<1>9. \A k \in S : i <= k
  BY <1>1, <1>8
<1> QED BY <1>9 DEF First

(* The sets that are counted are finite.                                   *)
LEMMA FiniteSets ==
  /\ IsFiniteSet(Slots) /\ Cardinality(Slots) = Capacity
  /\ \A S : S \subseteq Slots => IsFiniteSet(S) /\ Cardinality(S) \in Nat
                                 /\ (Cardinality(S) = 0 <=> S = {})
  /\ \A S : S \subseteq Acquirers => IsFiniteSet(S) /\ Cardinality(S) \in Nat
<1>1. Capacity \in Nat
  BY PoolAssumption
<1>2. IsFiniteSet(Slots) /\ Cardinality(Slots) = Capacity
  BY <1>1, FS_Interval DEF Slots
<1> QED BY <1>2, PoolAssumption, FS_Subset, FS_CardinalityType, FS_EmptySet

(* A set of slots or frames that gains or loses one has one more or less.  *)
LEMMA OneMoreOrLess ==
  ASSUME NEW S, S \subseteq Slots
  PROVE  /\ \A x \in Slots \ S : Cardinality(S \cup {x}) = Cardinality(S) + 1
         /\ \A x \in S : Cardinality(S \ {x}) = Cardinality(S) - 1
BY FiniteSets, FS_AddElement, FS_RemoveElement

-----------------------------------------------------------------------------
(* An acquire that finds a frame takes it out of its slot.                 *)
LEMMA LendStep ==
  ASSUME TypeOK, FramesAccountedFor, ~closed, NEW i \in Occupied, Lend(i),
         closed' = closed, freed' = freed
  PROVE  /\ slots' \in [Slots -> Frames \cup {NoFrame}] /\ inUse' \subseteq Frames
         /\ available' \in Nat
         /\ FramesAccountedFor'
         /\ slots[i] \in Idle /\ Idle' = Idle \ {slots[i]} /\ inUse' = inUse \cup {slots[i]}
<1>1. i \in Slots /\ slots[i] \in Frames /\ slots[i] \in Idle
  BY DEF Occupied, Idle, TypeOK
<1>2. \A j \in Slots : slots'[j] = IF j = i THEN NoFrame ELSE slots[j]
  BY <1>1 DEF Lend, Take, TypeOK
<1>3. Occupied' = Occupied \ {i}
  BY <1>1, <1>2 DEF Occupied
<1>4. Idle' = Idle \ {slots[i]}
  BY <1>1, <1>2, <1>3 DEF Idle, Occupied, FramesAccountedFor
<1>5. /\ Cardinality(Occupied') = Cardinality(Occupied) - 1
      /\ Cardinality(inUse') = Cardinality(inUse) + 1
  <2>1. Occupied \subseteq Slots /\ inUse \subseteq Slots /\ slots[i] \in Slots \ inUse
    BY <1>1 DEF Occupied, TypeOK, Frames, FramesAccountedFor
  <2> QED BY <1>3, <2>1, OneMoreOrLess DEF Lend
<1>6. available \in Nat /\ available' = available - 1 /\ available = Cardinality(Occupied)
      /\ Cardinality(Occupied') \in Nat /\ Cardinality(inUse) \in Nat /\ Cardinality(freed) \in Nat
  <2>1. Occupied' \subseteq Slots /\ inUse \subseteq Slots /\ freed \subseteq Slots
    BY <1>3 DEF Occupied, TypeOK, Frames
  <2> QED BY <2>1, FiniteSets DEF Lend, TypeOK, FramesAccountedFor
<1>7. FramesAccountedFor'
  <2>1. \A j, k \in Occupied' : slots'[j] = slots'[k] => j = k
    BY <1>2, <1>3 DEF FramesAccountedFor, Occupied
  <2>2. inUse' \cap Idle' = {} /\ freed' \cap Idle' = {} /\ freed' \cap inUse' = {}
    BY <1>1, <1>4 DEF FramesAccountedFor, Lend
  <2>3. available' = Cardinality(Occupied') /\ available' + Cardinality(inUse') + Cardinality(freed') = Capacity
    BY <1>5, <1>6 DEF FramesAccountedFor
  <2> QED BY <2>1, <2>2, <2>3 DEF FramesAccountedFor
<1>8. slots' \in [Slots -> Frames \cup {NoFrame}]
  BY <1>1 DEF Lend, Take, TypeOK
<1> QED BY <1>1, <1>4, <1>5, <1>6, <1>7, <1>8 DEF Lend, TypeOK

(* A release into an open pool finds an empty slot, and fills it.           *)
LEMMA EmptySlot ==
  ASSUME TypeOK, FramesAccountedFor, ~closed, NEW f \in inUse
  PROVE  Occupied # Slots
<1>1. Cardinality(inUse) \in Nat /\ Cardinality(inUse) # 0
  BY FiniteSets DEF TypeOK, Frames
<1>2. Cardinality(freed) = 0
  BY FiniteSets DEF FramesAccountedFor
<1>3. Cardinality(Occupied) # Capacity
  BY <1>1, <1>2, PoolAssumption DEF TypeOK, FramesAccountedFor
<1> QED BY <1>3, FiniteSets

LEMMA GiveBackStep ==
  ASSUME TypeOK, FramesAccountedFor, ~closed, closed' = closed,
         NEW f \in inUse, inUse' = inUse \ {f}, GiveBack(f)
  PROVE  /\ slots' \in [Slots -> Frames \cup {NoFrame}] /\ available' \in Nat
         /\ FramesAccountedFor'
         /\ Idle' = Idle \cup {f}
<1> DEFINE i == First(Slots \ Occupied)
<1>1. i \in Slots \ Occupied /\ Occupied \subseteq Slots /\ f \in Frames /\ f # NoFrame
  BY EmptySlot, FirstOf, PoolAssumption DEF Occupied, TypeOK
<1>2. slots' = [slots EXCEPT ![i] = f] /\ available' = available + 1 /\ freed' = freed
  BY DEF GiveBack, Put
<1> HIDE DEF i
<1>3. \A j \in Slots : slots'[j] = IF j = i THEN f ELSE slots[j]
  BY <1>1, <1>2 DEF TypeOK
<1>4. Occupied' = Occupied \cup {i}
  BY <1>1, <1>3 DEF Occupied
<1>5. Idle' = Idle \cup {f}
  BY <1>1, <1>3, <1>4 DEF Idle
<1>6. /\ Cardinality(Occupied') = Cardinality(Occupied) + 1
      /\ Cardinality(inUse') = Cardinality(inUse) - 1
  <2>1. inUse \subseteq Slots
    BY DEF TypeOK, Frames
  <2> QED BY <1>1, <1>4, <2>1, OneMoreOrLess
<1>7. /\ Cardinality(Occupied) \in Nat /\ Cardinality(inUse) \in Nat /\ Cardinality(freed) \in Nat
  BY <1>1, FiniteSets DEF TypeOK, Frames
<1>8. FramesAccountedFor'
  <2>1. f \notin Idle
    BY DEF FramesAccountedFor
  <2>2. \A j, k \in Occupied' : slots'[j] = slots'[k] => j = k
    BY <1>1, <1>3, <1>4, <2>1 DEF FramesAccountedFor, Idle
  <2>3. inUse' \cap Idle' = {} /\ freed' \cap Idle' = {} /\ freed' \cap inUse' = {}
    BY <1>2, <1>5 DEF FramesAccountedFor
  <2>4. available' = Cardinality(Occupied') /\ available' + Cardinality(inUse') + Cardinality(freed') = Capacity
    BY <1>2, <1>6, <1>7, PoolAssumption DEF FramesAccountedFor
  <2> QED BY <1>2, <2>2, <2>3, <2>4 DEF FramesAccountedFor
<1> QED BY <1>1, <1>2, <1>5, <1>8 DEF TypeOK

-----------------------------------------------------------------------------
(* The critical section of an acquire.                                     *)
LEMMA AcquireStep ==
  ASSUME IInv, NEW t \in Acquirers, pc[t] # "asleep", AcquireBody(t)
  PROVE  IInv' /\ (Pool!Next \/ UNCHANGED Pool!vars)
<1>1. CASE Refuses /\ Leave(t, "refused") /\ UNCHANGED <<slots, available, inUse>>
  <2>1. TypeOK'
    BY <1>1 DEF IInv, TypeOK, Leave, AcquireBody
  <2>2. Occupied' = Occupied /\ Idle' = Idle
    BY <1>1 DEF Occupied, Idle
  <2>3. FramesAccountedFor'
    BY <1>1, <2>2 DEF IInv, FramesAccountedFor, AcquireBody
  <2>4. NoLostWakeup'
    BY <1>1 DEF IInv, TypeOK, NoLostWakeup, Asleep, Refuses, Leave, AcquireBody
  <2>5. Pool!AcquireRefused(t)
    BY <1>1, <2>2 DEF Pool!AcquireRefused, Pool!Returns, Refuses, Leave, AcquireBody
  <2> QED BY <2>1, <2>3, <2>4, <2>5 DEF IInv, Pool!Next
<1>2. CASE /\ ~closed /\ available = 0
           /\ pc' = [pc EXCEPT ![t] = "asleep"] /\ returned' = [returned EXCEPT ![t] = "none"]
           /\ UNCHANGED <<slots, available, inUse>>
  <2>1. TypeOK'
    BY <1>2 DEF IInv, TypeOK, AcquireBody
  <2>2. Occupied' = Occupied /\ Idle' = Idle
    BY <1>2 DEF Occupied, Idle
  <2>3. FramesAccountedFor'
    BY <1>2, <2>2 DEF IInv, FramesAccountedFor, AcquireBody
  <2>4. NoLostWakeup'
    <3>1. Woken' \subseteq Acquirers
      BY DEF Woken
    <3> QED BY <1>2, <3>1, FiniteSets DEF NoLostWakeup, AcquireBody
  <2>5. Pool!Call(t)
    BY <1>2, <2>2 DEF Pool!Call, Pool!Returns, AcquireBody
  <2> QED BY <2>1, <2>3, <2>4, <2>5 DEF IInv, Pool!Next
<1>3. CASE /\ ~Refuses /\ available # 0
           /\ IF Occupied = {}
              THEN Leave(t, "error") /\ UNCHANGED <<slots, available, inUse>>
              ELSE Lend(First(Occupied)) /\ Leave(t, "done")
  <2>1. Occupied # {} /\ Occupied \subseteq Slots
    BY <1>3, FiniteSets DEF IInv, FramesAccountedFor, Occupied
  <2>2. PICK i \in Occupied : Lend(i)
    BY <1>3, <2>1, FirstOf
  <2>3. Leave(t, "done") /\ closed' = closed /\ freed' = freed /\ ~closed
    BY <1>3, <2>1 DEF AcquireBody, Refuses
  <2>4. /\ slots' \in [Slots -> Frames \cup {NoFrame}] /\ inUse' \subseteq Frames
        /\ available' \in Nat
        /\ FramesAccountedFor'
        /\ slots[i] \in Idle /\ Idle' = Idle \ {slots[i]} /\ inUse' = inUse \cup {slots[i]}
    BY <2>2, <2>3, LendStep DEF IInv
  <2>5. TypeOK'
    BY <2>3, <2>4 DEF IInv, TypeOK, Leave
  <2>6. NoLostWakeup'
    <3>1. Asleep' = Asleep /\ Woken' = Woken \ {t} /\ Woken \subseteq Acquirers
      BY <2>3 DEF Leave, Asleep, Woken, IInv, TypeOK
    <3>2. Cardinality(Woken') >= Cardinality(Woken) - 1 /\ Cardinality(Woken) \in Nat
          /\ Cardinality(Woken') \in Nat
      BY <3>1, FiniteSets, FS_RemoveElement
    <3>3. available' = available - 1 /\ available \in Nat
      BY <2>2 DEF Lend, IInv, TypeOK
    <3> QED BY <2>3, <3>1, <3>2, <3>3 DEF IInv, NoLostWakeup
  <2>7. Pool!Acquire(t, slots[i]) /\ slots[i] \in Frames
    BY <2>3, <2>4 DEF Pool!Acquire, Pool!Returns, Leave, IInv, TypeOK, Idle, Occupied
  <2> QED BY <2>4, <2>5, <2>6, <2>7 DEF IInv, Pool!Next
<1> QED BY <1>1, <1>2, <1>3 DEF AcquireBody

(* A release that pools the frame wakes an acquirer that sleeps.           *)
LEMMA SignalStep ==
  ASSUME TypeOK, NoLostWakeup, Signal, available' = available + 1, closed' = closed, ~closed
  PROVE  pc' \in [Acquirers -> {"idle", "asleep", "woken"}] /\ NoLostWakeup'
<1>1. CASE Asleep = {}
  BY <1>1 DEF TypeOK, NoLostWakeup, Signal, Asleep
<1>2. ASSUME NEW s \in Asleep, pc' = [pc EXCEPT ![s] = "woken"]
      PROVE  pc' \in [Acquirers -> {"idle", "asleep", "woken"}] /\ NoLostWakeup'
  <2>1. s \in Acquirers /\ \A u \in Acquirers : pc'[u] = IF u = s THEN "woken" ELSE pc[u]
    BY <1>2 DEF Asleep, TypeOK
  <2>2. Woken' = Woken \cup {s} /\ s \notin Woken /\ Woken \subseteq Acquirers
    BY <1>2, <2>1 DEF Woken, Asleep
  <2>3. Cardinality(Woken') = Cardinality(Woken) + 1 /\ Cardinality(Woken) \in Nat
    BY <2>2, FiniteSets, FS_AddElement
  <2>4. available \in Nat /\ available <= Cardinality(Woken)
    BY <1>2 DEF NoLostWakeup, TypeOK
  <2> QED BY <1>2, <2>1, <2>3, <2>4 DEF TypeOK, NoLostWakeup
<1> QED BY <1>1, <1>2 DEF Signal

(* frame_pool_release: the frame is pooled, or freed after the close.      *)
LEMMA ReleaseStep ==
  ASSUME IInv, NEW f \in Frames, Release(f)
  PROVE  IInv' /\ Pool!Release(f)
<1>1. f \in inUse /\ inUse' = inUse \ {f} /\ UNCHANGED <<closed, returned>>
  BY DEF Release
<1>2. CASE closed
  <2>1. freed' = freed \cup {f} /\ UNCHANGED <<slots, available, pc>>
    BY <1>2 DEF Release
  <2>2. TypeOK'
    BY <1>1, <2>1 DEF IInv, TypeOK
  <2>3. Occupied' = Occupied /\ Idle' = Idle
    BY <2>1 DEF Occupied, Idle
  <2>4. FramesAccountedFor'
    <3>1. inUse \subseteq Slots /\ freed \subseteq Slots /\ f \in Slots \ freed
      BY <1>1 DEF IInv, TypeOK, Frames, FramesAccountedFor
    <3>2. /\ Cardinality(inUse') = Cardinality(inUse) - 1
          /\ Cardinality(freed') = Cardinality(freed) + 1
          /\ Cardinality(inUse) \in Nat /\ Cardinality(freed) \in Nat
      BY <1>1, <2>1, <3>1, OneMoreOrLess, FiniteSets
    <3>3. available' + Cardinality(inUse') + Cardinality(freed') = Capacity
      BY <2>1, <3>2, PoolAssumption DEF IInv, TypeOK, FramesAccountedFor
    <3> QED BY <1>1, <1>2, <2>1, <2>3, <3>3 DEF IInv, FramesAccountedFor
  <2>5. NoLostWakeup'
    BY <1>1, <2>1 DEF IInv, NoLostWakeup, Asleep, Woken
  <2> QED BY <1>1, <1>2, <2>2, <2>3, <2>4, <2>5 DEF IInv, Pool!Release
<1>3. CASE ~closed
  <2>1. GiveBack(f)
    BY <1>1, <1>3, EmptySlot DEF IInv, Release
  <2>2. /\ slots' \in [Slots -> Frames \cup {NoFrame}] /\ available' \in Nat
        /\ FramesAccountedFor'
        /\ Idle' = Idle \cup {f}
    BY <1>1, <1>3, <2>1, GiveBackStep DEF IInv
  <2>3. pc' \in [Acquirers -> {"idle", "asleep", "woken"}] /\ NoLostWakeup'
    BY <1>1, <1>3, <2>1, SignalStep DEF IInv, GiveBack
  <2>4. TypeOK'
    BY <1>1, <2>1, <2>2, <2>3 DEF IInv, TypeOK, GiveBack
  <2> QED BY <1>1, <1>3, <2>2, <2>3, <2>4 DEF IInv, Pool!Release
<1> QED BY <1>2, <1>3

LEMMA CloseStep ==
  ASSUME IInv, Close
  PROVE  IInv' /\ Pool!Close
<1>1. Occupied' = Occupied /\ Idle' = Idle
  BY DEF Close, Occupied, Idle
<1>2. TypeOK'
  BY DEF Close, IInv, TypeOK
<1>3. FramesAccountedFor'
  BY <1>1 DEF Close, IInv, FramesAccountedFor
<1>4. Asleep' = {}
  BY DEF Close, IInv, TypeOK, Asleep
<1> QED BY <1>1, <1>2, <1>3, <1>4 DEF Close, IInv, NoLostWakeup, Pool!Close

LEMMA SpuriousStep ==
  ASSUME IInv, NEW t \in Acquirers, SpuriousWake(t)
  PROVE  IInv' /\ UNCHANGED Pool!vars
<1>1. Occupied' = Occupied /\ Idle' = Idle
  BY DEF SpuriousWake, Occupied, Idle
<1>2. TypeOK'
  BY DEF SpuriousWake, IInv, TypeOK
<1>3. FramesAccountedFor'
  BY <1>1 DEF SpuriousWake, IInv, FramesAccountedFor
<1>4. NoLostWakeup'
  <2>1. Asleep' \subseteq Asleep /\ Woken \in SUBSET (Woken') /\ Woken' \subseteq Acquirers
    BY DEF SpuriousWake, Asleep, Woken, IInv, TypeOK
  <2>2. Cardinality(Woken) <= Cardinality(Woken') /\ Cardinality(Woken) \in Nat /\ Cardinality(Woken') \in Nat
    BY <2>1, FiniteSets, FS_Subset
  <2> QED BY <2>1, <2>2 DEF SpuriousWake, IInv, TypeOK, NoLostWakeup
<1> QED BY <1>1, <1>2, <1>3, <1>4 DEF IInv, SpuriousWake, Pool!vars

LEMMA InvInit == Init => IInv
<1> SUFFICES ASSUME Init PROVE IInv
  OBVIOUS
<1>1. Occupied = Slots /\ Asleep = {}
  BY PoolAssumption DEF Init, Occupied, Frames, Asleep
<1>2. Cardinality(inUse) = 0 /\ Cardinality(freed) = 0
  BY FiniteSets DEF Init
<1>3. TypeOK
  BY PoolAssumption DEF Init, TypeOK, Frames
<1>4. FramesAccountedFor
  BY <1>1, <1>2, FiniteSets, PoolAssumption DEF Init, FramesAccountedFor
<1> QED BY <1>1, <1>3, <1>4 DEF Init, IInv, NoLostWakeup

(* Every step keeps the invariant and is a step of the closable pool, or    *)
(* none of its steps.                                                       *)
LEMMA PoolStep ==
  ASSUME IInv, [Next]_vars
  PROVE  IInv' /\ [Pool!Next]_Pool!vars
<1>1. ASSUME NEW t \in Acquirers, Acquire(t) \/ AcquireAgain(t)
      PROVE  IInv' /\ [Pool!Next]_Pool!vars
  BY <1>1, AcquireStep DEF Acquire, AcquireAgain
<1>2. ASSUME NEW f \in Frames, Release(f) PROVE IInv' /\ [Pool!Next]_Pool!vars
  BY <1>2, ReleaseStep DEF Pool!Next
<1>3. CASE Close
  BY <1>3, CloseStep DEF Pool!Next
<1>4. ASSUME NEW t \in Acquirers, SpuriousWake(t) PROVE IInv' /\ [Pool!Next]_Pool!vars
  BY <1>4, SpuriousStep
<1>5. CASE UNCHANGED vars
  <2>1. Occupied' = Occupied /\ Idle' = Idle /\ Asleep' = Asleep /\ Woken' = Woken
    BY <1>5 DEF vars, Occupied, Idle, Asleep, Woken
  <2>2. UNCHANGED Pool!vars
    BY <1>5, <2>1 DEF vars, Pool!vars
  <2> QED BY <1>5, <2>1, <2>2 DEF vars, IInv, TypeOK, FramesAccountedFor, NoLostWakeup
<1> QED BY <1>1, <1>2, <1>3, <1>4, <1>5 DEF Next

(* IInv holds in every state, for any number of acquirers and frames.      *)
THEOREM Inductive == Spec => []IInv
<1>1. IInv /\ [Next]_vars => IInv'
  BY PoolStep
<1> QED BY InvInit, <1>1, PTL DEF Spec

(* frame_pool_release: one signal per frame given back is enough, however   *)
(* many stages wait for a frame.                                            *)
THEOREM NeverALostWakeup == Spec => []NoLostWakeup
<1>1. IInv => NoLostWakeup
  BY DEF IInv
<1> QED BY <1>1, Inductive, PTL

(* frame_pool.c is a closable pool: each frame is lent to one holder at a   *)
(* time, an acquire is refused from the close on and only then, and every   *)
(* release before the close makes its frame available again.                *)
THEOREM SlotsArePool == Spec => ImplementsPool
<1>1. Init => Pool!Init
  <2>1. ASSUME Init PROVE Occupied = Slots /\ Idle = Frames
    BY <2>1, PoolAssumption DEF Init, Occupied, Idle, Frames
  <2> QED BY <2>1 DEF Init, Pool!Init
<1>2. IInv /\ [Next]_vars => [Pool!Next]_Pool!vars
  BY PoolStep
<1> QED BY <1>1, <1>2, Inductive, PTL DEF Spec, ImplementsPool, Pool!Spec
=============================================================================

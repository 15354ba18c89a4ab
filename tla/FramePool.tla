----------------------------- MODULE FramePool ------------------------------
(***************************************************************************)
(* frame_pool.c: Capacity preallocated frames in an array of slots, a      *)
(* count of the available ones, a mutex and the condition variable         *)
(* not_empty.  As in PacketQueue, a critical section is one action and a   *)
(* woken thread tests its condition again.                                 *)
(*                                                                         *)
(* A frame acquired by one stage may be released by another (the decoder   *)
(* acquires raw frames, a processor or the GPU upload callback gives them  *)
(* back), so the frames in use are one set, and any of them may be given   *)
(* back at any time.                                                       *)
(***************************************************************************)
EXTENDS Integers, FiniteSets

CONSTANTS Acquirers,  (* threads that call frame_pool_acquire                *)
          Capacity,   (* number of slots and of frames                       *)
          NoFrame     (* a slot with occupied = 0                            *)

Slots == 0 .. Capacity - 1
Frames == Slots       (* frame i is the one frame_pool_init puts in slot i   *)

ASSUME PoolAssumption ==
    /\ Capacity \in Nat \ {0}      (* frame_pool_init rejects 0 *)
    /\ NoFrame \notin Frames
    /\ IsFiniteSet(Acquirers)

VARIABLES slots,      (* the frame in each slot, or NoFrame                  *)
          available,
          closed,
          inUse,      (* frames some stage holds                             *)
          freed,      (* frames whose memory was freed instead of pooled     *)
          pc,         (* per acquirer: "idle", "asleep" or "woken"           *)
          returned    (* per acquirer: what its last call returned           *)

vars == <<slots, available, closed, inUse, freed, pc, returned>>

Init == /\ slots = [i \in Slots |-> i]
        /\ available = Capacity
        /\ closed = FALSE
        /\ inUse = {}
        /\ freed = {}
        /\ pc = [t \in Acquirers |-> "idle"]
        /\ returned = [t \in Acquirers |-> "none"]

Occupied == {i \in Slots : slots[i] # NoFrame}
Asleep == {t \in Acquirers : pc[t] = "asleep"}
Woken == {t \in Acquirers : pc[t] = "woken"}

(* The loops over the slots stop at the first one that fits. *)
First(S) == CHOOSE i \in S : \A j \in S : i <= j

Leave(t, outcome) == /\ pc' = [pc EXCEPT ![t] = "idle"]
                     /\ returned' = [returned EXCEPT ![t] = outcome]

(* pthread_cond_signal: wakes one sleeper if there is one. *)
Signal == IF Asleep = {}
          THEN UNCHANGED pc
          ELSE \E t \in Asleep : pc' = [pc EXCEPT ![t] = "woken"]

(* frame_slot_put *)
Put(i, f) == slots' = [slots EXCEPT ![i] = f]

(* --- mutated forms of the definitions below ---------------------------- *)

(* release that wakes nobody *)
MuteGiveBack(f) == /\ Put(First(Slots \ Occupied), f)
                   /\ available' = available + 1
                   /\ UNCHANGED <<freed, pc>>

(* acquire that tests the count before the close *)
DrainingRefuses == closed /\ available = 0

(* close without the broadcast *)
MuteClose == /\ closed' = TRUE
             /\ UNCHANGED <<slots, available, inUse, freed, pc, returned>>

(* ------------------------------------------------------------------------ *)
(* frame_slot_take *)
Take(i) == slots' = [slots EXCEPT ![i] = NoFrame]

(* The branch of frame_pool_acquire that finds an occupied slot. *)
Lend(i) == /\ inUse' = inUse \cup {slots[i]}
           /\ Take(i)
           /\ available' = available - 1

Refuses == closed

(* The loop waits while the pool is open and empty; past it the scan of the *)
(* slots returns -1 when none is occupied.                                  *)
AcquireBody(t) ==
    /\ \/ /\ Refuses
          /\ Leave(t, "refused")
          /\ UNCHANGED <<slots, available, inUse>>
       \/ /\ ~closed
          /\ available = 0
          /\ pc' = [pc EXCEPT ![t] = "asleep"]
          /\ returned' = [returned EXCEPT ![t] = "none"]
          /\ UNCHANGED <<slots, available, inUse>>
       \/ /\ ~Refuses
          /\ available # 0
          /\ IF Occupied = {}
             THEN Leave(t, "error") /\ UNCHANGED <<slots, available, inUse>>
             ELSE Lend(First(Occupied)) /\ Leave(t, "done")
    /\ UNCHANGED <<closed, freed>>

(* frame_pool_acquire: the call, and what a woken acquirer does. *)
Acquire(t) == pc[t] = "idle" /\ AcquireBody(t)
AcquireAgain(t) == pc[t] = "woken" /\ AcquireBody(t)

(* The branch of frame_pool_release that pools the frame. *)
GiveBack(f) == /\ Put(First(Slots \ Occupied), f)
               /\ available' = available + 1
               /\ Signal
               /\ UNCHANGED freed

(* frame_pool_release: only a valid frame is released, and the call leaves *)
(* the caller's Frame invalid: moved into the first empty slot, or freed   *)
(* when the pool is closed or has no empty slot.                           *)
Release(f) ==
    /\ f \in inUse
    /\ inUse' = inUse \ {f}
    /\ IF closed \/ Occupied = Slots
       THEN freed' = freed \cup {f} /\ UNCHANGED <<slots, available, pc>>
       ELSE GiveBack(f)
    /\ UNCHANGED <<closed, returned>>

(* frame_pool_close *)
Close ==
    /\ closed' = TRUE
    /\ pc' = [t \in Acquirers |-> IF t \in Asleep THEN "woken" ELSE pc[t]]
    /\ UNCHANGED <<slots, available, inUse, freed, returned>>

SpuriousWake(t) ==
    /\ pc[t] = "asleep"
    /\ pc' = [pc EXCEPT ![t] = "woken"]
    /\ UNCHANGED <<slots, available, closed, inUse, freed, returned>>

Next == \/ Close
        \/ \E f \in Frames : Release(f)
        \/ \E t \in Acquirers : Acquire(t) \/ AcquireAgain(t) \/ SpuriousWake(t)

(* A woken thread gets the mutex in the end. *)
Fairness == \A t \in Acquirers : WF_vars(AcquireAgain(t))

Spec == Init /\ [][Next]_vars /\ Fairness

-----------------------------------------------------------------------------
Idle == {slots[i] : i \in Occupied}

(* One signal per release is enough: while an acquirer sleeps there are at *)
(* least as many woken acquirers as available frames, and nobody sleeps on *)
(* a closed pool.                                                          *)
NoLostWakeup == /\ Asleep # {} => available <= Cardinality(Woken)
                /\ closed => Asleep = {}

(* The slots, the count, the mutex and the condition variable implement    *)
(* the pool the pipeline reasons with: each frame lent once at a time, and *)
(* an acquire refused exactly from the close on.                           *)
Pool == INSTANCE ClosablePool
           WITH Threads <- Acquirers, idle <- Idle, lent <- inUse
ImplementsPool == Pool!Spec

(* The inductive invariant that FramePoolProofs proves.  Each frame is in   *)
(* one slot, in use or freed; the count is that of the occupied slots, so a *)
(* frame that comes back to the open pool always finds an empty slot.       *)
TypeOK == /\ slots \in [Slots -> Frames \cup {NoFrame}]
          /\ available \in Nat
          /\ closed \in BOOLEAN
          /\ inUse \subseteq Frames /\ freed \subseteq Frames
          /\ pc \in [Acquirers -> {"idle", "asleep", "woken"}]

FramesAccountedFor ==
    /\ \A i, j \in Occupied : slots[i] = slots[j] => i = j
    /\ inUse \cap Idle = {} /\ freed \cap Idle = {} /\ freed \cap inUse = {}
    /\ available = Cardinality(Occupied)
    /\ available + Cardinality(inUse) + Cardinality(freed) = Capacity
    /\ ~closed => freed = {}

IInv == TypeOK /\ FramesAccountedFor /\ NoLostWakeup

(* Closing the pool gets every acquirer out of its call: pipeline_fail     *)
(* relies on it to stop a stage that waits for a buffer.                   *)
CloseFreesEveryAcquirer ==
    \A t \in Acquirers : (closed /\ pc[t] # "idle") ~> pc[t] = "idle"
=============================================================================

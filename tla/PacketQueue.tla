---------------------------- MODULE PacketQueue -----------------------------
(***************************************************************************)
(* PacketQueue of pipeline_runner.c: a ring of Capacity packets guarded by *)
(* one mutex, with the condition variables not_empty and not_full.         *)
(*                                                                         *)
(* A critical section runs from the lock (or from the return of a wait,    *)
(* which takes the mutex again) to the unlock (or to the next wait), so it *)
(* is one action.  A thread whose loop condition holds goes to sleep; a    *)
(* signal or a broadcast moves sleepers to "woken", and a woken thread     *)
(* contends for the mutex with everyone else before it tests the condition *)
(* again.  A sleeper may also wake with no signal (POSIX and Win32 allow   *)
(* it); nothing obliges it to.                                             *)
(***************************************************************************)
EXTENDS Integers, Sequences, FiniteSets

CONSTANTS Producers,  (* threads that push                                  *)
          Consumers,  (* threads that pop                                   *)
          Capacity,   (* effective_frame_slots                              *)
          MaxPackets, (* bound of the model: how many packets are offered   *)
          NoPacket    (* an empty cell of the ring                          *)

Threads == Producers \cup Consumers
Packets == 0 .. MaxPackets - 1

ASSUME QueueAssumption ==
    /\ Capacity \in Nat \ {0}      (* packet_queue_init rejects 0 *)
    /\ MaxPackets \in Nat
    /\ NoPacket \notin Packets
    /\ Producers \cap Consumers = {}
    /\ IsFiniteSet(Producers) /\ IsFiniteSet(Consumers)

VARIABLES items, head, tail, count,  (* the ring                           *)
          closed,
          pc,         (* per thread: "idle", "asleep" or "woken"             *)
          hand,       (* per producer: the packet it pushes                  *)
          offered,    (* how many packets the producers have offered         *)
          returned,   (* per thread: what its last call returned             *)
          delivered   (* history: the packets popped, in that order          *)

ring == <<items, head, tail, count>>
vars == <<ring, closed, pc, hand, offered, returned, delivered>>

Slots == 0 .. Capacity - 1

Init == /\ items = [i \in Slots |-> NoPacket]
        /\ head = 0
        /\ tail = 0
        /\ count = 0
        /\ closed = FALSE
        /\ pc = [t \in Threads |-> "idle"]
        /\ hand = [p \in Producers |-> NoPacket]
        /\ offered = 0
        /\ returned = [t \in Threads |-> "none"]
        /\ delivered = <<>>

-----------------------------------------------------------------------------
AsleepIn(who) == {t \in who : pc[t] = "asleep"}
WokenIn(who) == {t \in who : pc[t] = "woken"}

(* Thread t leaves its call with an outcome, and the signal it sends wakes *)
(* one of the threads of who that sleep, if there is one.                  *)
LeaveAndSignal(t, who, outcome) ==
    /\ returned' = [returned EXCEPT ![t] = outcome]
    /\ IF AsleepIn(who) = {}
       THEN pc' = [pc EXCEPT ![t] = "idle"]
       ELSE \E s \in AsleepIn(who) :
               pc' = [pc EXCEPT ![t] = "idle", ![s] = "woken"]

Leave(t, outcome) == /\ returned' = [returned EXCEPT ![t] = outcome]
                     /\ pc' = [pc EXCEPT ![t] = "idle"]

Sleep(t) == /\ pc' = [pc EXCEPT ![t] = "asleep"]
            /\ returned' = [returned EXCEPT ![t] = "none"]

Following(i) == (i + 1) % Capacity

(* --- mutated forms of the definitions below ---------------------------- *)

(* push without the signal on not_empty *)
MuteEnqueue(p, packet) ==
    /\ items' = [items EXCEPT ![tail] = packet]
    /\ tail' = Following(tail)
    /\ count' = count + 1
    /\ Leave(p, "done")

(* pop that takes the newest packet instead of the oldest *)
LifoDequeue(c) ==
    /\ delivered' = Append(delivered, items[(tail + Capacity - 1) % Capacity])
    /\ items' = [items EXCEPT ![(tail + Capacity - 1) % Capacity] = NoPacket]
    /\ tail' = (tail + Capacity - 1) % Capacity
    /\ count' = count - 1
    /\ UNCHANGED head
    /\ LeaveAndSignal(c, Producers, "done")

(* close that signals one condition variable only *)
HalfClose ==
    /\ closed' = TRUE
    /\ pc' = [t \in Threads |->
                IF t \in AsleepIn(Consumers) THEN "woken" ELSE pc[t]]
    /\ UNCHANGED <<ring, hand, offered, returned, delivered>>

(* ------------------------------------------------------------------------ *)
Full == count = Capacity

(* The critical section of packet_queue_push once the loop is left. *)
Enqueue(p, packet) ==
    /\ items' = [items EXCEPT ![tail] = packet]
    /\ tail' = Following(tail)
    /\ count' = count + 1
    /\ LeaveAndSignal(p, Consumers, "done")

PushBody(p, packet) ==
    /\ hand' = [hand EXCEPT ![p] = packet]
    /\ \/ /\ ~closed
          /\ Full
          /\ Sleep(p)
          /\ UNCHANGED ring
       \/ /\ closed
          /\ Leave(p, "refused")
          /\ UNCHANGED ring
       \/ /\ ~closed
          /\ ~Full
          /\ Enqueue(p, packet)
          /\ UNCHANGED head
    /\ UNCHANGED <<closed, delivered>>

(* packet_queue_push: the call, and what a woken producer does. *)
Push(p) ==
    /\ pc[p] = "idle"
    /\ offered < MaxPackets
    /\ offered' = offered + 1
    /\ PushBody(p, offered)

PushAgain(p) ==
    /\ pc[p] = "woken"
    /\ PushBody(p, hand[p])
    /\ UNCHANGED offered

(* The critical section of packet_queue_pop once the loop is left. *)
Dequeue(c) ==
    /\ delivered' = Append(delivered, items[head])
    /\ items' = [items EXCEPT ![head] = NoPacket]
    /\ head' = Following(head)
    /\ count' = count - 1
    /\ UNCHANGED tail
    /\ LeaveAndSignal(c, Producers, "done")

PopBody(c) ==
    /\ \/ /\ ~closed
          /\ count = 0
          /\ Sleep(c)
          /\ UNCHANGED <<ring, delivered>>
       \/ /\ closed
          /\ count = 0
          /\ Leave(c, "refused")
          /\ UNCHANGED <<ring, delivered>>
       \/ /\ count # 0
          /\ Dequeue(c)
    /\ UNCHANGED <<closed, hand, offered>>

(* packet_queue_pop: the call, and what a woken consumer does. *)
Pop(c) == pc[c] = "idle" /\ PopBody(c)
PopAgain(c) == pc[c] = "woken" /\ PopBody(c)

(* packet_queue_close: any thread may call it, any number of times. *)
Close ==
    /\ closed' = TRUE
    /\ pc' = [t \in Threads |-> IF pc[t] = "asleep" THEN "woken" ELSE pc[t]]
    /\ UNCHANGED <<ring, hand, offered, returned, delivered>>

(* A condition variable may let a sleeper go with no signal. *)
SpuriousWake(t) ==
    /\ pc[t] = "asleep"
    /\ pc' = [pc EXCEPT ![t] = "woken"]
    /\ UNCHANGED <<ring, closed, hand, offered, returned, delivered>>

Next == \/ Close
        \/ \E p \in Producers : Push(p) \/ PushAgain(p)
        \/ \E c \in Consumers : Pop(c) \/ PopAgain(c)
        \/ \E t \in Threads : SpuriousWake(t)

(* A woken thread gets the mutex in the end: critical sections are short,  *)
(* and no thread leaves one without unlocking.  Nobody has to call, close  *)
(* or wake without a signal.                                               *)
Fairness == /\ \A p \in Producers : WF_vars(PushAgain(p))
            /\ \A c \in Consumers : WF_vars(PopAgain(c))

Spec == Init /\ [][Next]_vars /\ Fairness

-----------------------------------------------------------------------------
(* The packets in the ring, oldest first. *)
Contents == [i \in 1 .. count |-> items[(head + i - 1) % Capacity]]

(* The ring with its mutex and condition variables implements the          *)
(* closable queue its callers reason with: FIFO, nothing lost or made up,  *)
(* a refusal to push only after the close, a refusal to pop only once      *)
(* closed and drained.                                                     *)
Fifo == INSTANCE ClosableFifo WITH queue <- Contents
ImplementsFifo == Fifo!Spec

(* Signals never leave a sleeper behind: push and pop send ONE signal each *)
(* (pthread_cond_signal), so while a consumer sleeps there are at least as *)
(* many woken consumers as packets, while a producer sleeps at least as    *)
(* many woken producers as free cells, and nobody sleeps on a closed queue.*)
NoLostWakeup ==
    /\ AsleepIn(Consumers) # {} => count <= Cardinality(WokenIn(Consumers))
    /\ AsleepIn(Producers) # {} =>
          Capacity - count <= Cardinality(WokenIn(Producers))
    /\ closed => AsleepIn(Threads) = {}

(* The inductive invariant that PacketQueueProofs proves.  The ring: tail   *)
(* is count cells after head, and the cells from head to tail hold packets; *)
(* a producer inside its call still has the packet it was called with.      *)
TypeOK == /\ items \in [Slots -> Packets \cup {NoPacket}]
          /\ head \in Slots /\ tail \in Slots /\ count \in 0 .. Capacity
          /\ closed \in BOOLEAN
          /\ pc \in [Threads -> {"idle", "asleep", "woken"}]
          /\ hand \in [Producers -> Packets \cup {NoPacket}]
          /\ offered \in 0 .. MaxPackets

Used == {(head + i - 1) % Capacity : i \in 1 .. count}
RingIsWhole == /\ tail = (head + count) % Capacity
               /\ \A i \in Slots : IF i \in Used THEN items[i] \in Packets
                                                 ELSE items[i] = NoPacket
               /\ \A p \in Producers : pc[p] # "idle" => hand[p] \in Packets

IInv == TypeOK /\ RingIsWhole /\ NoLostWakeup

(* Closing the queue gets every thread out of its call: pipeline_fail      *)
(* relies on it to stop the three stages.                                  *)
CloseFreesEveryCaller ==
    \A t \in Threads : (closed /\ pc[t] # "idle") ~> pc[t] = "idle"
=============================================================================

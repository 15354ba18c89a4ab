-------------------------- MODULE PacketQueueProofs --------------------------
(***************************************************************************)
(* For any number of producers and consumers and any capacity: the ring    *)
(* with its mutex and its two condition variables never leaves a sleeper   *)
(* behind and implements ClosableFifo.  IInv of PacketQueue is inductive:  *)
(* what is counted in NoLostWakeup changes by at most one in a step, and   *)
(* the wrap of head and tail is that of CellValue.                         *)
(***************************************************************************)
EXTENDS PacketQueue, FiniteSetTheorems, SequenceTheorems, TLAPS

Values == Packets \cup {NoPacket}

(* The remainder of what is less than twice the capacity. *)
LEMMA Remainder ==
  ASSUME NEW n \in Nat, n < 2 * Capacity
  PROVE  n % Capacity = IF n < Capacity THEN n ELSE n - Capacity
<1>1. Capacity \in Nat \ {0}
  BY QueueAssumption
<1>2. CASE n < Capacity
  BY <1>1, <1>2
<1>3. CASE n >= Capacity
  BY <1>1, <1>3
<1> QED BY <1>1, <1>2, <1>3

(* Where the i-th packet is, and the place after a place. *)
LEMMA CellValue ==
  ASSUME NEW h \in Slots, NEW i \in 1 .. Capacity
  PROVE  /\ (h + i - 1) % Capacity = IF h + i - 1 < Capacity THEN h + i - 1
                                                              ELSE h + i - 1 - Capacity
         /\ (h + i - 1) % Capacity \in Slots
<1>1. Capacity \in Nat \ {0}
  BY QueueAssumption
<1>2. h + i - 1 \in Nat /\ h + i - 1 < 2 * Capacity
  BY <1>1 DEF Slots
<1> QED BY <1>1, <1>2, Remainder DEF Slots

LEMMA FollowingValue ==
  ASSUME NEW i \in Slots
  PROVE  /\ Following(i) = IF i + 1 = Capacity THEN 0 ELSE i + 1
         /\ Following(i) \in Slots
<1>1. Capacity \in Nat \ {0}
  BY QueueAssumption
<1>2. i + 1 \in Nat /\ i + 1 < 2 * Capacity
  BY <1>1 DEF Slots
<1> QED BY <1>1, <1>2, Remainder DEF Slots, Following

LEMMA TailValue ==
  ASSUME NEW h \in Slots, NEW c \in 0 .. Capacity
  PROVE  (h + c) % Capacity = IF h + c < Capacity THEN h + c ELSE h + c - Capacity
<1>1. Capacity \in Nat \ {0}
  BY QueueAssumption
<1>2. h + c \in Nat /\ h + c < 2 * Capacity
  BY <1>1 DEF Slots
<1> QED BY <1>1, <1>2, Remainder DEF Slots

(* The packets in a ring of c packets from cell h on are a sequence. *)
LEMMA RingSeq ==
  ASSUME NEW cells \in [Slots -> Values], NEW h \in Slots, NEW c \in 0 .. Capacity,
         NEW packets, packets = [i \in 1 .. c |-> cells[(h + i - 1) % Capacity]]
  PROVE  /\ packets \in Seq(Values) /\ Len(packets) = c
         /\ \A i \in 1 .. c : packets[i] = cells[(h + i - 1) % Capacity]
<1>1. \A i \in 1 .. c : (h + i - 1) % Capacity \in Slots
  BY CellValue, QueueAssumption
<1>2. \A i \in 1 .. c : cells[(h + i - 1) % Capacity] \in Values
  BY <1>1
<1>3. c \in Nat
  BY QueueAssumption
<1>4. packets \in [1 .. c -> Values]
  BY <1>2
<1> QED BY <1>3, <1>4

(* So are those of the queue, in each state. *)
LEMMA ContentsSeq ==
  /\ TypeOK => /\ Contents \in Seq(Values) /\ Len(Contents) = count
               /\ \A i \in 1 .. count : Contents[i] = items[(head + i - 1) % Capacity]
  /\ TypeOK' => /\ Contents' \in Seq(Values) /\ Len(Contents') = count'
                /\ \A i \in 1 .. count' : Contents'[i] = items'[(head' + i - 1) % Capacity]
<1>1. TypeOK => /\ items \in [Slots -> Values] /\ head \in Slots /\ count \in 0 .. Capacity
                /\ Contents = [i \in 1 .. count |-> items[(head + i - 1) % Capacity]]
  BY DEF TypeOK, Values, Contents
<1>2. TypeOK' => /\ items' \in [Slots -> Values] /\ head' \in Slots /\ count' \in 0 .. Capacity
                 /\ Contents' = [i \in 1 .. count' |-> items'[(head' + i - 1) % Capacity]]
  BY DEF TypeOK, Values, Contents
<1> QED BY <1>1, <1>2, RingSeq

-----------------------------------------------------------------------------
(* Threads that sleep and threads that are woken are finitely many, and a  *)
(* step that moves one thread changes their number by one.                 *)
LEMMA FiniteThreads ==
  ASSUME NEW who, who = Producers \/ who = Consumers
  PROVE  /\ IsFiniteSet(WokenIn(who)) /\ Cardinality(WokenIn(who)) \in Nat
         /\ IsFiniteSet(WokenIn(who)') /\ Cardinality(WokenIn(who)') \in Nat
<1>1. IsFiniteSet(who)
  BY QueueAssumption
<1>2. WokenIn(who) \subseteq who /\ WokenIn(who)' \subseteq who
  BY DEF WokenIn
<1> QED BY <1>1, <1>2, FS_Subset, FS_CardinalityType

(* When one thread of who moves and does not wake up, at most it is missing *)
(* from those that are woken.                                              *)
LEMMA OneMoves ==
  ASSUME NEW who, who = Producers \/ who = Consumers, NEW t \in who,
         pc'[t] # "woken", \A u \in who \ {t} : pc'[u] = pc[u]
  PROVE  /\ Cardinality(WokenIn(who)') >= Cardinality(WokenIn(who)) - 1
         /\ AsleepIn(who)' = IF pc'[t] = "asleep" THEN AsleepIn(who) \cup {t}
                             ELSE AsleepIn(who) \ {t}
<1>1. WokenIn(who)' = WokenIn(who) \ {t}
  BY DEF WokenIn
<1>2. Cardinality(WokenIn(who)') >= Cardinality(WokenIn(who)) - 1
  BY <1>1, FiniteThreads, FS_RemoveElement
<1> QED BY <1>2 DEF AsleepIn

LEMMA NoneMoves ==
  ASSUME NEW who, \A u \in who : pc'[u] = pc[u]
  PROVE  WokenIn(who)' = WokenIn(who) /\ AsleepIn(who)' = AsleepIn(who)
BY DEF WokenIn, AsleepIn

(* Who sleeps and who is woken when thread t leaves its call and signals    *)
(* the threads of who: one of them is woken, if one sleeps.                 *)
LEMMA SignalWakesOne ==
  ASSUME TypeOK, NEW t \in Threads, NEW who, NEW outcome,
         \/ t \in Producers /\ who = Consumers
         \/ t \in Consumers /\ who = Producers,
         pc[t] # "asleep", LeaveAndSignal(t, who, outcome)
  PROVE  /\ pc' \in [Threads -> {"idle", "asleep", "woken"}]
         /\ pc'[t] = "idle"
         /\ \A u \in Threads \ who : u # t => pc'[u] = pc[u]
         /\ AsleepIn(who)' \subseteq AsleepIn(who)
         /\ AsleepIn(who)' # {} => Cardinality(WokenIn(who)') = Cardinality(WokenIn(who)) + 1
<1>1. t \notin who /\ who \subseteq Threads
  BY QueueAssumption DEF Threads
<1>2. CASE AsleepIn(who) = {}
  BY <1>1, <1>2 DEF LeaveAndSignal, TypeOK, AsleepIn
<1>3. ASSUME NEW s \in AsleepIn(who), pc' = [pc EXCEPT ![t] = "idle", ![s] = "woken"]
      PROVE  /\ pc' \in [Threads -> {"idle", "asleep", "woken"}]
             /\ pc'[t] = "idle"
             /\ \A u \in Threads \ who : u # t => pc'[u] = pc[u]
             /\ AsleepIn(who)' \subseteq AsleepIn(who)
             /\ Cardinality(WokenIn(who)') = Cardinality(WokenIn(who)) + 1
  <2>1. s \in who /\ pc[s] = "asleep" /\ s # t /\ s \in Threads
    BY <1>1 DEF AsleepIn
  <2>2. \A u \in Threads : pc'[u] = IF u = t THEN "idle" ELSE IF u = s THEN "woken" ELSE pc[u]
    BY <1>3, <2>1 DEF TypeOK
  <2>3. WokenIn(who)' = WokenIn(who) \cup {s} /\ s \notin WokenIn(who)
    BY <1>1, <2>1, <2>2 DEF WokenIn
  <2>4. Cardinality(WokenIn(who)') = Cardinality(WokenIn(who)) + 1
    BY <2>3, FiniteThreads, FS_AddElement
  <2> QED BY <1>1, <1>3, <2>1, <2>2, <2>4 DEF TypeOK, AsleepIn
<1> QED BY <1>2, <1>3 DEF LeaveAndSignal

-----------------------------------------------------------------------------
(* A push appends its packet to what the ring holds.                       *)
LEMMA EnqueueAppends ==
  ASSUME TypeOK, TypeOK', RingIsWhole, NEW packet \in Packets, ~Full,
         items' = [items EXCEPT ![tail] = packet], tail' = Following(tail),
         count' = count + 1, head' = head
  PROVE  /\ Contents' = Append(Contents, packet) /\ Len(Contents) < Capacity
         /\ tail' = (head' + count') % Capacity
         /\ \A i \in Slots : IF i \in Used' THEN items'[i] \in Packets ELSE items'[i] = NoPacket
<1> DEFINE At(i) == (head + i - 1) % Capacity
<1>1. /\ Capacity \in Nat \ {0} /\ count \in 0 .. Capacity - 1 /\ head \in Slots /\ tail \in Slots
      /\ items \in [Slots -> Values]
  BY QueueAssumption DEF TypeOK, Full, Values
<1>2. tail = At(count + 1)
  <2>1. head + (count + 1) - 1 = head + count
    BY <1>1 DEF Slots
  <2> QED BY <2>1 DEF RingIsWhole
<1>3. ASSUME NEW i \in 1 .. count PROVE At(i) \in Slots /\ At(i) # tail
  <2>1. i \in 1 .. Capacity /\ count + 1 \in 1 .. Capacity
    BY <1>1
  <2>2. /\ At(i) = IF head + i - 1 < Capacity THEN head + i - 1 ELSE head + i - 1 - Capacity
        /\ At(i) \in Slots
    BY <1>1, <2>1, CellValue
  <2>3. (head + count) % Capacity = IF head + count < Capacity THEN head + count
                                    ELSE head + count - Capacity
    BY <1>1, TailValue
  <2> HIDE DEF At
  <2> QED BY <1>1, <2>2, <2>3 DEF RingIsWhole, Slots
<1>4. tail' = (head' + count') % Capacity
  <2>1. tail' = IF tail + 1 = Capacity THEN 0 ELSE tail + 1
    BY <1>1, FollowingValue
  <2>2. tail = IF head + count < Capacity THEN head + count ELSE head + count - Capacity
    <3>1. count \in 0 .. Capacity
      BY <1>1
    <3> QED BY <1>1, <3>1, TailValue DEF RingIsWhole
  <2>3. count + 1 \in 0 .. Capacity
    BY <1>1
  <2>4. (head + (count + 1)) % Capacity = IF head + (count + 1) < Capacity
           THEN head + (count + 1) ELSE head + (count + 1) - Capacity
    BY <1>1, <2>3, TailValue
  <2> QED BY <1>1, <2>1, <2>2, <2>4 DEF Slots
<1>5. Contents' = Append(Contents, packet) /\ Len(Contents) < Capacity
  <2>1. /\ Contents \in Seq(Values) /\ Len(Contents) = count
        /\ \A i \in 1 .. count : Contents[i] = items[At(i)]
    BY ContentsSeq
  <2>2. /\ Contents' \in Seq(Values) /\ Len(Contents') = count'
        /\ \A i \in 1 .. count' : Contents'[i] = items'[At(i)]
    BY ContentsSeq
  <2>3. \A i \in 1 .. count : items'[At(i)] = items[At(i)]
    BY <1>1, <1>3
  <2>4. items'[At(count + 1)] = packet
    BY <1>1, <1>2
  <2>5. /\ Append(Contents, packet) \in Seq(Values) /\ Len(Append(Contents, packet)) = count + 1
        /\ \A i \in 1 .. count : Append(Contents, packet)[i] = Contents[i]
        /\ Append(Contents, packet)[count + 1] = packet
    BY <2>1, AppendProperties DEF Values
  <2> HIDE DEF At
  <2>6. \A i \in 1 .. count + 1 : Contents'[i] = Append(Contents, packet)[i]
    BY <1>1, <2>1, <2>2, <2>3, <2>4, <2>5
  <2> QED BY <1>1, <2>1, <2>2, <2>5, <2>6, SeqEqual
<1>6. Used' = Used \cup {tail}
  <2>1. Used' = {At(i) : i \in 1 .. count + 1} /\ Used = {At(i) : i \in 1 .. count}
    BY DEF Used
  <2>2. 1 .. count + 1 = (1 .. count) \cup {count + 1}
    BY <1>1
  <2> HIDE DEF At
  <2> QED BY <1>2, <2>1, <2>2
<1>7. \A i \in Slots : IF i \in Used' THEN items'[i] \in Packets ELSE items'[i] = NoPacket
  BY <1>1, <1>6 DEF RingIsWhole
<1> QED BY <1>4, <1>5, <1>7

(* A pop takes the oldest packet and leaves the others as they are.        *)
LEMMA DequeueTakesHead ==
  ASSUME TypeOK, TypeOK', RingIsWhole, count # 0,
         items' = [items EXCEPT ![head] = NoPacket], head' = Following(head),
         count' = count - 1, tail' = tail
  PROVE  /\ Contents # <<>> /\ items[head] = Head(Contents) /\ Contents' = Tail(Contents)
         /\ tail' = (head' + count') % Capacity
         /\ \A i \in Slots : IF i \in Used' THEN items'[i] \in Packets ELSE items'[i] = NoPacket
<1> DEFINE At(i) == (head + i - 1) % Capacity
           Then(i) == (head' + i - 1) % Capacity
<1>1. /\ Capacity \in Nat \ {0} /\ count \in 1 .. Capacity /\ head \in Slots /\ tail \in Slots
      /\ items \in [Slots -> Values] /\ head' \in Slots
  BY QueueAssumption DEF TypeOK, Values
<1>2. head' = IF head + 1 = Capacity THEN 0 ELSE head + 1
  BY <1>1, FollowingValue
<1>3. \A i \in 1 .. Capacity :
         At(i) = IF head + i - 1 < Capacity THEN head + i - 1 ELSE head + i - 1 - Capacity
  BY <1>1, CellValue
<1>4. \A i \in 1 .. Capacity :
         Then(i) = IF head' + i - 1 < Capacity THEN head' + i - 1 ELSE head' + i - 1 - Capacity
  BY <1>1, CellValue
<1>5. At(1) = head
  BY <1>1, <1>3 DEF Slots
<1>6. ASSUME NEW i \in 1 .. count - 1
      PROVE  Then(i) = At(i + 1) /\ Then(i) \in Slots /\ Then(i) # head
  <2>1. i \in 1 .. Capacity /\ i + 1 \in 1 .. Capacity
    BY <1>1
  <2>2. At(i + 1) = IF head + i < Capacity THEN head + i ELSE head + i - Capacity
    <3>1. head + (i + 1) - 1 = head + i
      BY <1>1 DEF Slots
    <3> HIDE DEF At
    <3> QED BY <2>1, <1>3, <3>1
  <2>3. Then(i) = IF head' + i - 1 < Capacity THEN head' + i - 1 ELSE head' + i - 1 - Capacity
    BY <2>1, <1>4
  <2> HIDE DEF At, Then
  <2> QED BY <1>1, <1>2, <2>2, <2>3 DEF Slots
<1>7. tail' = (head' + count') % Capacity
  <2>1. tail = IF head + count < Capacity THEN head + count ELSE head + count - Capacity
    <3>1. count \in 0 .. Capacity
      BY <1>1
    <3> QED BY <1>1, <3>1, TailValue DEF RingIsWhole
  <2>2. count - 1 \in 0 .. Capacity
    BY <1>1
  <2>3. (head' + (count - 1)) % Capacity = IF head' + (count - 1) < Capacity
           THEN head' + (count - 1) ELSE head' + (count - 1) - Capacity
    BY <1>1, <2>2, TailValue
  <2> QED BY <1>1, <1>2, <2>1, <2>3 DEF Slots
<1>8. Contents # <<>> /\ items[head] = Head(Contents) /\ Contents' = Tail(Contents)
  <2>1. /\ Contents \in Seq(Values) /\ Len(Contents) = count
        /\ \A i \in 1 .. count : Contents[i] = items[At(i)]
    BY ContentsSeq
  <2>2. /\ Contents' \in Seq(Values) /\ Len(Contents') = count - 1
        /\ \A i \in 1 .. count - 1 : Contents'[i] = items'[Then(i)]
    BY ContentsSeq
  <2>3. Contents # <<>> /\ Head(Contents) = Contents[1]
    BY <1>1, <2>1
  <2>4. /\ Tail(Contents) \in Seq(Values) /\ Len(Tail(Contents)) = count - 1
        /\ \A i \in 1 .. count - 1 : Tail(Contents)[i] = Contents[i + 1]
    BY <2>1, <2>3, HeadTailProperties
  <2> HIDE DEF At, Then
  <2>5. \A i \in 1 .. count - 1 : items'[Then(i)] = items[At(i + 1)]
    BY <1>1, <1>6
  <2>6. ASSUME NEW i \in 1 .. count - 1 PROVE Contents'[i] = Tail(Contents)[i]
    <3>1. i + 1 \in 1 .. count
      BY <1>1
    <3> QED BY <2>1, <2>2, <2>4, <2>5, <3>1
  <2>7. Contents' = Tail(Contents)
    BY <1>1, <2>2, <2>4, <2>6, SeqEqual
  <2> QED BY <1>1, <1>5, <2>1, <2>3, <2>7
<1>9. Used = Used' \cup {head} /\ head \notin Used'
  <2>1. Used' = {Then(i) : i \in 1 .. count - 1} /\ Used = {At(i) : i \in 1 .. count}
    BY DEF Used
  <2> HIDE DEF At, Then
  <2>2. ASSUME NEW i \in 2 .. count PROVE At(i) \in Used'
    <3>1. i - 1 \in 1 .. count - 1 /\ (i - 1) + 1 = i
      BY <1>1
    <3>2. At(i) = Then(i - 1)
      BY <1>6, <3>1
    <3> QED BY <2>1, <3>1, <3>2
  <2>3. ASSUME NEW i \in 1 .. count - 1 PROVE Then(i) \in Used /\ Then(i) # head
    <3>1. i + 1 \in 1 .. count
      BY <1>1
    <3> QED BY <1>6, <2>1, <3>1
  <2>4. 1 .. count = {1} \cup 2 .. count
    BY <1>1
  <2> QED BY <1>1, <1>5, <2>1, <2>2, <2>3, <2>4
<1>10. \A i \in Slots : IF i \in Used' THEN items'[i] \in Packets ELSE items'[i] = NoPacket
  BY <1>1, <1>9 DEF RingIsWhole
<1> QED BY <1>7, <1>8, <1>10

-----------------------------------------------------------------------------
(* The steps, one lemma for those of a producer, one for those of a         *)
(* consumer, one for the rest.                                              *)
LEMMA PushStep ==
  ASSUME IInv, NEW p \in Producers, NEW packet \in Packets, pc[p] # "asleep",
         offered' \in 0 .. MaxPackets, PushBody(p, packet)
  PROVE  IInv' /\ (Fifo!Next \/ UNCHANGED Fifo!vars)
<1> USE DEF Fifo!vars
<1>1. p \in Threads /\ p \notin Consumers /\ Consumers \subseteq Threads /\ Producers \subseteq Threads
  BY QueueAssumption DEF Threads
<1>2. CASE ~closed /\ Full /\ Sleep(p) /\ UNCHANGED ring
  <2>1. pc' = [pc EXCEPT ![p] = "asleep"]
    BY <1>2 DEF Sleep
  <2>2. TypeOK'
    BY <1>1, <1>2, <2>1 DEF IInv, TypeOK, PushBody, ring
  <2>3. Contents' = Contents /\ Used' = Used
    BY <1>2 DEF Contents, Used, ring
  <2>4. RingIsWhole'
    BY <1>1, <1>2, <2>1, <2>3 DEF IInv, TypeOK, RingIsWhole, PushBody, ring
  <2>5. NoLostWakeup'
    <3>1. \A u \in Threads : pc'[u] = IF u = p THEN "asleep" ELSE pc[u]
      BY <1>1, <2>1 DEF IInv, TypeOK
    <3>2. WokenIn(Consumers)' = WokenIn(Consumers) /\ AsleepIn(Consumers)' = AsleepIn(Consumers)
      BY <1>1, <3>1, NoneMoves
    <3>3. count' = Capacity /\ count' = count /\ ~closed'
      BY <1>2 DEF Full, ring, PushBody
    <3> QED BY <3>2, <3>3, FiniteThreads, QueueAssumption DEF IInv, NoLostWakeup
  <2>6. Fifo!Call(p)
    BY <1>2, <2>3 DEF Fifo!Call, Fifo!Returns, Sleep, PushBody
  <2> QED BY <1>1, <2>2, <2>4, <2>5, <2>6 DEF IInv, Fifo!Next
<1>3. CASE closed /\ Leave(p, "refused") /\ UNCHANGED ring
  <2>1. pc' = [pc EXCEPT ![p] = "idle"]
    BY <1>3 DEF Leave
  <2>2. TypeOK'
    BY <1>1, <1>3, <2>1 DEF IInv, TypeOK, PushBody, ring
  <2>3. Contents' = Contents /\ Used' = Used
    BY <1>3 DEF Contents, Used, ring
  <2>4. RingIsWhole'
    BY <1>1, <1>3, <2>1, <2>3 DEF IInv, TypeOK, RingIsWhole, PushBody, ring
  <2>5. NoLostWakeup'
    BY <1>1, <1>3, <2>1 DEF IInv, TypeOK, NoLostWakeup, AsleepIn, PushBody, Threads
  <2>6. Fifo!PushRefused(p)
    BY <1>3, <2>3 DEF Fifo!PushRefused, Fifo!Returns, Leave, PushBody
  <2> QED BY <1>1, <2>2, <2>4, <2>5, <2>6 DEF IInv, Fifo!Next
<1>4. CASE ~closed /\ ~Full /\ Enqueue(p, packet) /\ UNCHANGED head
  <2>1. /\ pc' \in [Threads -> {"idle", "asleep", "woken"}] /\ pc'[p] = "idle"
        /\ \A u \in Threads \ Consumers : u # p => pc'[u] = pc[u]
        /\ AsleepIn(Consumers)' \subseteq AsleepIn(Consumers)
        /\ AsleepIn(Consumers)' # {} =>
              Cardinality(WokenIn(Consumers)') = Cardinality(WokenIn(Consumers)) + 1
    BY <1>1, <1>4, SignalWakesOne DEF IInv, Enqueue
  <2>2. TypeOK'
    <3>1. count' \in 0 .. Capacity /\ tail' \in Slots
      BY <1>4, FollowingValue, QueueAssumption DEF IInv, TypeOK, Enqueue, Full
    <3> QED BY <1>1, <1>4, <2>1, <3>1 DEF IInv, TypeOK, PushBody, Enqueue
  <2>3. /\ Contents' = Append(Contents, packet) /\ Len(Contents) < Capacity
        /\ tail' = (head' + count') % Capacity
        /\ \A i \in Slots : IF i \in Used' THEN items'[i] \in Packets ELSE items'[i] = NoPacket
    BY <1>4, <2>2, EnqueueAppends DEF IInv, Enqueue
  <2>4. RingIsWhole'
    <3>1. \A q \in Producers : pc'[q] # "idle" => hand'[q] \in Packets
      BY <1>1, <2>1, QueueAssumption DEF IInv, TypeOK, RingIsWhole, PushBody
    <3> QED BY <2>3, <3>1 DEF RingIsWhole
  <2>5. NoLostWakeup'
    <3>1. /\ Cardinality(WokenIn(Producers)') >= Cardinality(WokenIn(Producers)) - 1
          /\ AsleepIn(Producers)' = AsleepIn(Producers) \ {p}
      BY <1>1, <2>1, OneMoves, QueueAssumption
    <3>2. count' = count + 1 /\ ~closed' /\ count \in Nat /\ Capacity \in Nat
      BY <1>4, QueueAssumption DEF Enqueue, PushBody, IInv, TypeOK
    <3> QED BY <2>1, <3>1, <3>2, FiniteThreads DEF IInv, NoLostWakeup
  <2>6. Fifo!Push(p, packet)
    BY <1>4, <2>3 DEF Fifo!Push, Fifo!Returns, Enqueue, LeaveAndSignal, PushBody
  <2> QED BY <1>1, <2>2, <2>4, <2>5, <2>6 DEF IInv, Fifo!Next
<1> QED BY <1>2, <1>3, <1>4 DEF PushBody

LEMMA PopStep ==
  ASSUME IInv, NEW c \in Consumers, pc[c] # "asleep", PopBody(c)
  PROVE  IInv' /\ (Fifo!Next \/ UNCHANGED Fifo!vars)
<1> USE DEF Fifo!vars
<1>1. /\ c \in Threads /\ c \notin Producers
      /\ Consumers \subseteq Threads /\ Producers \subseteq Threads
  BY QueueAssumption DEF Threads
<1>2. Contents = <<>> <=> count = 0
  <2>1. Contents \in Seq(Values) /\ Len(Contents) = count
    BY ContentsSeq DEF IInv
  <2> QED BY <2>1, EmptySeq
<1>3. CASE ~closed /\ count = 0 /\ Sleep(c) /\ UNCHANGED <<ring, delivered>>
  <2>1. pc' = [pc EXCEPT ![c] = "asleep"]
    BY <1>3 DEF Sleep
  <2>2. TypeOK'
    BY <1>1, <1>3, <2>1 DEF IInv, TypeOK, PopBody, ring
  <2>3. Contents' = Contents /\ Used' = Used
    BY <1>3 DEF Contents, Used, ring
  <2>4. RingIsWhole'
    BY <1>1, <1>3, <2>1, <2>3 DEF IInv, TypeOK, RingIsWhole, PopBody, ring
  <2>5. NoLostWakeup'
    <3>1. \A u \in Threads : pc'[u] = IF u = c THEN "asleep" ELSE pc[u]
      BY <1>1, <2>1 DEF IInv, TypeOK
    <3>2. WokenIn(Producers)' = WokenIn(Producers) /\ AsleepIn(Producers)' = AsleepIn(Producers)
      BY <1>1, <3>1, NoneMoves
    <3>3. count' = 0 /\ count' = count /\ ~closed'
      BY <1>3 DEF ring, PopBody
    <3> QED BY <3>2, <3>3, FiniteThreads, QueueAssumption DEF IInv, NoLostWakeup
  <2>6. Fifo!Call(c)
    BY <1>3, <2>3 DEF Fifo!Call, Fifo!Returns, Sleep, PopBody
  <2> QED BY <1>1, <2>2, <2>4, <2>5, <2>6 DEF IInv, Fifo!Next
<1>4. CASE closed /\ count = 0 /\ Leave(c, "refused") /\ UNCHANGED <<ring, delivered>>
  <2>1. pc' = [pc EXCEPT ![c] = "idle"]
    BY <1>4 DEF Leave
  <2>2. TypeOK'
    BY <1>1, <1>4, <2>1 DEF IInv, TypeOK, PopBody, ring
  <2>3. Contents' = Contents /\ Used' = Used
    BY <1>4 DEF Contents, Used, ring
  <2>4. RingIsWhole'
    BY <1>1, <1>4, <2>1, <2>3 DEF IInv, TypeOK, RingIsWhole, PopBody, ring
  <2>5. NoLostWakeup'
    BY <1>1, <1>4, <2>1 DEF IInv, TypeOK, NoLostWakeup, AsleepIn, PopBody, Threads
  <2>6. Fifo!PopRefused(c)
    BY <1>2, <1>4, <2>3 DEF Fifo!PopRefused, Fifo!Returns, Leave, PopBody
  <2> QED BY <1>1, <2>2, <2>4, <2>5, <2>6 DEF IInv, Fifo!Next
<1>5. CASE count # 0 /\ Dequeue(c)
  <2>1. /\ pc' \in [Threads -> {"idle", "asleep", "woken"}] /\ pc'[c] = "idle"
        /\ \A u \in Threads \ Producers : u # c => pc'[u] = pc[u]
        /\ AsleepIn(Producers)' \subseteq AsleepIn(Producers)
        /\ AsleepIn(Producers)' # {} =>
              Cardinality(WokenIn(Producers)') = Cardinality(WokenIn(Producers)) + 1
    BY <1>1, <1>5, SignalWakesOne DEF IInv, Dequeue
  <2>2. TypeOK'
    <3>1. count' \in 0 .. Capacity /\ head' \in Slots
      BY <1>5, FollowingValue, QueueAssumption DEF IInv, TypeOK, Dequeue
    <3> QED BY <1>1, <1>5, <2>1, <3>1 DEF IInv, TypeOK, PopBody, Dequeue
  <2>3. /\ Contents # <<>> /\ items[head] = Head(Contents) /\ Contents' = Tail(Contents)
        /\ tail' = (head' + count') % Capacity
        /\ \A i \in Slots : IF i \in Used' THEN items'[i] \in Packets ELSE items'[i] = NoPacket
    BY <1>5, <2>2, DequeueTakesHead DEF IInv, Dequeue
  <2>4. RingIsWhole'
    <3>1. \A p \in Producers : pc'[p] # "idle" => pc[p] # "idle"
      BY <1>1, <1>5 DEF Dequeue, LeaveAndSignal, IInv, TypeOK, AsleepIn
    <3>2. hand' = hand
      BY DEF PopBody
    <3> QED BY <2>3, <3>1, <3>2 DEF IInv, RingIsWhole
  <2>5. NoLostWakeup'
    <3>1. /\ Cardinality(WokenIn(Consumers)') >= Cardinality(WokenIn(Consumers)) - 1
          /\ AsleepIn(Consumers)' = AsleepIn(Consumers) \ {c}
      BY <1>1, <2>1, OneMoves, QueueAssumption
    <3>2. count' = count - 1 /\ closed' = closed /\ count \in Nat /\ Capacity \in Nat
      BY <1>5, QueueAssumption DEF Dequeue, PopBody, IInv, TypeOK
    <3>3. AsleepIn(Threads)' \subseteq AsleepIn(Threads)
      BY <1>1, <2>1, <3>1 DEF AsleepIn, Threads
    <3> QED BY <2>1, <3>1, <3>2, <3>3, FiniteThreads DEF IInv, NoLostWakeup
  <2>6. Fifo!Pop(c)
    BY <1>5, <2>3 DEF Fifo!Pop, Fifo!Returns, Dequeue, LeaveAndSignal, PopBody
  <2> QED BY <1>1, <2>2, <2>4, <2>5, <2>6 DEF IInv, Fifo!Next
<1> QED BY <1>3, <1>4, <1>5 DEF PopBody

(* A close wakes every sleeper. *)
LEMMA CloseStep ==
  ASSUME IInv, Close
  PROVE  IInv' /\ Fifo!Close
<1>1. \A t \in Threads : pc'[t] \in {"idle", "woken"} /\ (pc'[t] # "idle" => pc[t] # "idle")
  BY DEF Close, IInv, TypeOK
<1>2. Contents' = Contents /\ Used' = Used
  BY DEF Close, Contents, Used, ring
<1>3. TypeOK'
  BY DEF Close, IInv, TypeOK, ring
<1>4. RingIsWhole'
  BY <1>1, <1>2 DEF Close, IInv, RingIsWhole, ring, Threads
<1>5. NoLostWakeup'
  BY <1>1 DEF NoLostWakeup, AsleepIn, Threads
<1> QED BY <1>2, <1>3, <1>4, <1>5 DEF IInv, Close, Fifo!Close

(* A wake-up without a signal only adds a thread to those that are woken.  *)
LEMMA SpuriousStep ==
  ASSUME IInv, NEW t \in Threads, SpuriousWake(t)
  PROVE  IInv' /\ UNCHANGED Fifo!vars
<1>1. \A u \in Threads : pc'[u] = IF u = t THEN "woken" ELSE pc[u]
  BY DEF SpuriousWake, IInv, TypeOK
<1>2. Contents' = Contents /\ Used' = Used
  BY DEF SpuriousWake, Contents, Used, ring
<1>3. TypeOK'
  BY DEF SpuriousWake, IInv, TypeOK, ring
<1>4. RingIsWhole'
  BY <1>1, <1>2 DEF SpuriousWake, IInv, RingIsWhole, ring, Threads
<1>5. ASSUME NEW who, who = Producers \/ who = Consumers
      PROVE  /\ AsleepIn(who)' \subseteq AsleepIn(who)
             /\ Cardinality(WokenIn(who)') >= Cardinality(WokenIn(who))
  <2>1. AsleepIn(who)' \subseteq AsleepIn(who) /\ WokenIn(who) \in SUBSET (WokenIn(who)')
    BY <1>1, <1>5 DEF AsleepIn, WokenIn, Threads
  <2> QED BY <1>5, <2>1, FiniteThreads, FS_Subset
<1>6. count' = count /\ closed' = closed /\ count \in Nat /\ Capacity \in Nat
  BY QueueAssumption DEF SpuriousWake, ring, IInv, TypeOK
<1>7. NoLostWakeup'
  BY <1>1, <1>5, <1>6, FiniteThreads DEF IInv, NoLostWakeup, AsleepIn
<1> QED BY <1>2, <1>3, <1>4, <1>7 DEF IInv, SpuriousWake, Fifo!vars

LEMMA InvInit == Init => IInv
<1> SUFFICES ASSUME Init PROVE IInv
  OBVIOUS
<1>1. Capacity \in Nat \ {0} /\ MaxPackets \in Nat
  BY QueueAssumption
<1>2. TypeOK
  <2>1. 0 \in Slots /\ 0 \in 0 .. Capacity /\ 0 \in 0 .. MaxPackets
    BY <1>1 DEF Slots
  <2> QED BY <2>1 DEF Init, TypeOK
<1>3. Used = {}
  BY <1>1 DEF Init, Used
<1>4. (head + count) % Capacity = 0
  BY <1>1, Remainder DEF Init
<1>5. RingIsWhole
  BY <1>3, <1>4 DEF Init, RingIsWhole, Threads
<1>6. AsleepIn(Threads) = {} /\ AsleepIn(Producers) = {} /\ AsleepIn(Consumers) = {}
  BY DEF Init, AsleepIn, Threads
<1> QED BY <1>2, <1>5, <1>6 DEF IInv, NoLostWakeup

(* Every step keeps the invariant and is a step of the closable queue, or   *)
(* none of its steps.                                                       *)
LEMMA QueueStep ==
  ASSUME IInv, [Next]_vars
  PROVE  IInv' /\ [Fifo!Next]_Fifo!vars
<1>1. ASSUME NEW p \in Producers, Push(p) PROVE IInv' /\ [Fifo!Next]_Fifo!vars
  <2>1. offered \in Packets /\ offered' \in 0 .. MaxPackets
    BY <1>1, QueueAssumption DEF Push, IInv, TypeOK, Packets
  <2> QED BY <1>1, <2>1, PushStep DEF Push
<1>2. ASSUME NEW p \in Producers, PushAgain(p) PROVE IInv' /\ [Fifo!Next]_Fifo!vars
  <2>1. hand[p] \in Packets /\ offered' \in 0 .. MaxPackets
    BY <1>2 DEF PushAgain, IInv, TypeOK, RingIsWhole
  <2> QED BY <1>2, <2>1, PushStep DEF PushAgain
<1>3. ASSUME NEW c \in Consumers, Pop(c) \/ PopAgain(c) PROVE IInv' /\ [Fifo!Next]_Fifo!vars
  BY <1>3, PopStep DEF Pop, PopAgain
<1>4. CASE Close
  BY <1>4, CloseStep DEF Fifo!Next
<1>5. ASSUME NEW t \in Threads, SpuriousWake(t) PROVE IInv' /\ [Fifo!Next]_Fifo!vars
  BY <1>5, SpuriousStep
<1>6. CASE UNCHANGED vars
  <2>1. Contents' = Contents /\ Used' = Used /\ UNCHANGED Fifo!vars
    BY <1>6 DEF vars, ring, Contents, Used, Fifo!vars
  <2>2. \A who : AsleepIn(who)' = AsleepIn(who) /\ WokenIn(who)' = WokenIn(who)
    BY <1>6 DEF vars, AsleepIn, WokenIn
  <2>3. TypeOK' /\ RingIsWhole'
    BY <1>6, <2>1 DEF IInv, TypeOK, RingIsWhole, vars, ring
  <2>4. NoLostWakeup'
    BY <1>6, <2>2 DEF IInv, NoLostWakeup, vars, ring
  <2> QED BY <2>1, <2>3, <2>4 DEF IInv
<1> QED BY <1>1, <1>2, <1>3, <1>4, <1>5, <1>6 DEF Next

(* IInv holds in every state: for any number of threads, capacity and      *)
(* packets.                                                                *)
THEOREM Inductive == Spec => []IInv
<1>1. IInv /\ [Next]_vars => IInv'
  BY QueueStep
<1> QED BY InvInit, <1>1, PTL DEF Spec

(* packet_queue_push and packet_queue_pop: one signal per packet or cell is *)
(* enough, however many producers and consumers sleep.                      *)
THEOREM NeverALostWakeup == Spec => []NoLostWakeup
<1>1. IInv => NoLostWakeup
  BY DEF IInv
<1> QED BY <1>1, Inductive, PTL

(* The ring of pipeline_runner.c is a closable first-in first-out queue:    *)
(* nothing is lost, repeated or overtaken, also across the wrap and after   *)
(* the close, and a call is refused only when the queue promises that.      *)
THEOREM QueueIsFifo == Spec => ImplementsFifo
<1>1. Init => Fifo!Init
  <2>1. ASSUME Init PROVE Contents = <<>>
    <3>1. TypeOK
      BY <2>1, InvInit DEF IInv
    <3>2. Contents \in Seq(Values) /\ Len(Contents) = 0
      BY <2>1, <3>1, ContentsSeq DEF Init
    <3> QED BY <3>2, EmptySeq
  <2> QED BY <2>1 DEF Init, Fifo!Init
<1>2. IInv /\ [Next]_vars => [Fifo!Next]_Fifo!vars
  BY QueueStep
<1> QED BY <1>1, <1>2, Inductive, PTL DEF Spec, ImplementsFifo, Fifo!Spec
=============================================================================

------------------------ MODULE DetectionBatchProofs ------------------------
(***************************************************************************)
(* For any number of workers and batches, any batch size and any video:    *)
(* IInv of DetectionBatchInv is inductive, and with it a batch has one     *)
(* owner, no surface is left at the end, a failure is reported, a batch    *)
(* that waits for its turn is not forgotten, and the pipeline implements   *)
(* InOrderRun.                                                             *)
(***************************************************************************)
EXTENDS DetectionBatchInv, FiniteSetTheorems, SequenceTheorems, TLAPS

-----------------------------------------------------------------------------
(* Queues: how a pop, a push and the length show in what a queue holds.    *)

(* What is taken from a sequence without repetition, and what is added. *)
LEMMA TailElements ==
  ASSUME NEW S, NEW s \in Seq(S), s # <<>>, Distinct(s)
  PROVE  /\ Head(s) \in S /\ Head(s) \in Elements(s)
         /\ Tail(s) \in Seq(S) /\ Len(Tail(s)) = Len(s) - 1
         /\ Distinct(Tail(s))
         /\ Elements(Tail(s)) = Elements(s) \ {Head(s)}
<1>1. Len(s) \in Nat \ {0} /\ Head(s) = s[1]
  BY EmptySeq
<1>2. /\ Head(s) \in S /\ Tail(s) \in Seq(S) /\ Len(Tail(s)) = Len(s) - 1
      /\ \A i \in 1 .. Len(Tail(s)) : Tail(s)[i] = s[i + 1]
  BY HeadTailProperties
<1>3. Distinct(Tail(s))
  <2> SUFFICES ASSUME NEW i \in 1 .. Len(Tail(s)), NEW j \in 1 .. Len(Tail(s)),
                      Tail(s)[i] = Tail(s)[j]
               PROVE  i = j
    BY DEF Distinct
  <2>1. i + 1 \in 1 .. Len(s) /\ j + 1 \in 1 .. Len(s) /\ s[i + 1] = s[j + 1]
    BY <1>1, <1>2
  <2>2. i + 1 = j + 1
    BY <2>1 DEF Distinct
  <2> QED BY <2>2
<1>4. \A i \in 2 .. Len(s) : s[i] # Head(s)
  BY <1>1 DEF Distinct
<1>5. Elements(Tail(s)) \subseteq Elements(s) \ {Head(s)}
  <2> SUFFICES ASSUME NEW i \in 1 .. Len(Tail(s))
               PROVE  Tail(s)[i] \in Elements(s) \ {Head(s)}
    BY DEF Elements
  <2>1. i + 1 \in 2 .. Len(s) /\ Tail(s)[i] = s[i + 1]
    BY <1>1, <1>2
  <2>2. i + 1 \in 1 .. Len(s)
    BY <2>1, <1>1
  <2> QED BY <2>1, <2>2, <1>4 DEF Elements
<1>6. Elements(s) \ {Head(s)} \subseteq Elements(Tail(s))
  <2> SUFFICES ASSUME NEW i \in 1 .. Len(s), s[i] # Head(s)
               PROVE  s[i] \in Elements(Tail(s))
    BY DEF Elements
  <2>1. i - 1 \in 1 .. Len(Tail(s)) /\ i - 1 + 1 = i
    BY <1>1, <1>2
  <2>2. Tail(s)[i - 1] = s[i]
    BY <1>2, <2>1
  <2> QED BY <2>1, <2>2 DEF Elements
<1>7. Head(s) \in Elements(s)
  BY <1>1 DEF Elements
<1> QED BY <1>2, <1>3, <1>5, <1>6, <1>7

LEMMA AppendElements ==
  ASSUME NEW S, NEW s \in Seq(S), NEW e \in S, Distinct(s), e \notin Elements(s)
  PROVE  /\ Append(s, e) \in Seq(S) /\ Len(Append(s, e)) = Len(s) + 1
         /\ Distinct(Append(s, e))
         /\ Elements(Append(s, e)) = Elements(s) \cup {e}
<1>1. Len(s) \in Nat
  BY LenProperties
<1>2. /\ Append(s, e) \in Seq(S) /\ Len(Append(s, e)) = Len(s) + 1
      /\ \A i \in 1 .. Len(s) : Append(s, e)[i] = s[i]
      /\ Append(s, e)[Len(s) + 1] = e
  BY <1>1, AppendProperties
<1>3. \A i \in 1 .. Len(s) + 1 : i \in 1 .. Len(s) \/ i = Len(s) + 1
  BY <1>1
<1>4. \A i \in 1 .. Len(s) : s[i] # e
  BY DEF Elements
<1>5. Distinct(Append(s, e))
  BY <1>1, <1>2, <1>3, <1>4 DEF Distinct
<1>6. Elements(Append(s, e)) = Elements(s) \cup {e}
  BY <1>1, <1>2, <1>3 DEF Elements
<1> QED BY <1>2, <1>5, <1>6

LEMMA EmptyElements ==
  ASSUME NEW S, NEW s \in Seq(S)
  PROVE  s = <<>> <=> Elements(s) = {}
<1>1. CASE s = <<>>
  BY <1>1, EmptySeq DEF Elements
<1>2. CASE s # <<>>
  <2>1. 1 \in 1 .. Len(s)
    BY <1>2, EmptySeq
  <2> QED BY <1>2, <2>1 DEF Elements
<1> QED BY <1>1, <1>2

(* A queue of n things without repetition holds n of them at most. *)
LEMMA DistinctIsShort ==
  ASSUME NEW n \in Nat, NEW s \in Seq(1 .. n), Distinct(s)
  PROVE  Len(s) <= n
<1>1. Len(s) \in Nat /\ s \in [1 .. Len(s) -> 1 .. n]
  BY LenProperties
<1>2. s \in Injection(1 .. Len(s), 1 .. n)
  BY <1>1 DEF Distinct, IsInjective, Injection
<1>3. \A m \in Nat : IsFiniteSet(1 .. m) /\ Cardinality(1 .. m) = m
  <2>1. SUFFICES ASSUME NEW m \in Nat PROVE IsFiniteSet(1 .. m) /\ Cardinality(1 .. m) = m
    OBVIOUS
  <2>2. IsFiniteSet(1 .. m) /\ Cardinality(1 .. m) = (IF 1 > m THEN 0 ELSE m - 1 + 1)
    BY FS_Interval
  <2> QED BY <2>2
<1> QED BY <1>1, <1>2, <1>3, FS_Injection DEF ExistsInjection

(* The threads are different ones. *)
LEMMA Apart ==
  /\ Decoder \in Threads /\ Main \in Threads /\ Decoder # Main
  /\ Decoder \in Stages /\ Main \notin Stages
  /\ Threads = Stages \cup {Main} /\ Stages = Workers \cup {Decoder}
  /\ \A w \in Workers : w \in Threads /\ w \in Stages /\ w # Decoder /\ w # Main
BY DetectionAssumption DEF Threads, Stages

(* What a step of thread t leaves alone of the others. *)
Keeps(u) == pc'[u] = pc[u] /\ resume'[u] = resume[u] /\ hand'[u] = hand[u]
OnlyMoves(t) == \A u \in Threads \ {t} : Keeps(u)

LEMMA FailMoves ==
  ASSUME TypeOK, NEW t \in Threads, HwFail(t)
  PROVE  /\ OnlyMoves(t) /\ resume' = resume /\ hand' = hand
         /\ UNCHANGED <<video, active, queue, frames, decoding, output>>
         /\ failed => failed'
         /\ closed \subseteq closed'
BY DEF TypeOK, LabelsOK, DataOK, HwFail, SetFailed, CloseStep, Goto, OnlyMoves, Keeps,
       decoding, output

LEMMA DecoderMoves ==
  ASSUME TypeOK, DecoderNext
  PROVE  /\ OnlyMoves(Decoder)
         /\ UNCHANGED <<video, active, output>>
         /\ failed => failed'
         /\ closed \subseteq closed'
<1> USE Apart DEF OnlyMoves, Keeps
<1>1. pc \in [Threads -> Labels] /\ hand \in [Threads -> Batches \cup {0}]
      /\ resume \in [Threads -> {"close", "finish", "cleanup", "recycleBroken", "reap", "done"}]
  BY DEF TypeOK, LabelsOK, DataOK
<1>2. CASE DecoderPop
  BY <1>1, <1>2 DEF DecoderPop, Goto, PopBatch, shared
<1>3. CASE DecoderCheck
  BY <1>1, <1>3 DEF DecoderCheck, Drop, Fail, Goto, shared
<1>4. CASE DecoderFill
  BY <1>1, <1>4 DEF DecoderFill, Goto, shared
<1>5. CASE DecoderReadFails
  BY <1>1, <1>5 DEF DecoderReadFails, Drop, Fail, Goto, shared
<1>6. CASE DecoderGiveBack
  BY <1>1, <1>6 DEF DecoderGiveBack, PushBatch, Drop, Goto, shared
<1>7. CASE DecoderPush
  BY <1>1, <1>7 DEF DecoderPush, PushBatch, Drop, Goto, shared
<1>8. CASE DecoderClose
  BY <1>1, <1>8 DEF DecoderClose, CloseStep, Goto
<1>9. CASE HwFail(Decoder)
  BY <1>9, FailMoves
<1> QED BY <1>2, <1>3, <1>4, <1>5, <1>6, <1>7, <1>8, <1>9 DEF DecoderNext

LEMMA WorkerMoves ==
  ASSUME TypeOK, NEW w \in Workers, WorkerNext(w)
  PROVE  /\ OnlyMoves(w)
         /\ UNCHANGED <<video, decoding, output>>
         /\ failed => failed'
         /\ closed \subseteq closed'
<1> USE Apart DEF OnlyMoves, Keeps
<1>1. pc \in [Threads -> Labels] /\ hand \in [Threads -> Batches \cup {0}]
      /\ resume \in [Threads -> {"close", "finish", "cleanup", "recycleBroken", "reap", "done"}]
  BY DEF TypeOK, LabelsOK, DataOK
<1>2. CASE WorkerPop(w)
  BY <1>1, <1>2 DEF WorkerPop, Goto, PopBatch, shared
<1>3. CASE WorkerCheck(w)
  BY <1>1, <1>3 DEF WorkerCheck, Abandon, Drop, Fail, Goto, shared
<1>4. CASE WorkerInfer(w)
  BY <1>1, <1>4 DEF WorkerInfer, Abandon, Drop, Fail, Goto, shared
<1>5. CASE WorkerPush(w)
  BY <1>1, <1>5 DEF WorkerPush, PushBatch, Drop, Goto, shared
<1>6. CASE WorkerRefused(w)
  BY <1>1, <1>6 DEF WorkerRefused, Fail, Goto, shared
<1>7. CASE WorkerFinish(w)
  BY <1>1, <1>7 DEF WorkerFinish, Goto
<1>8. CASE WorkerClose(w)
  BY <1>1, <1>8 DEF WorkerClose, CloseStep, Goto
<1>9. CASE HwFail(w)
  BY <1>9, FailMoves
<1> QED BY <1>2, <1>3, <1>4, <1>5, <1>6, <1>7, <1>8, <1>9 DEF WorkerNext

(* The main thread starts the others, and does nothing else to them. *)
Starts(s) == /\ pc[s] = "none" /\ pc'[s] = "pop"
             /\ pc[Main] = IF s = Decoder THEN "createDecoder" ELSE "createWorkers"
LEMMA MainMoves ==
  ASSUME TypeOK, Judged, MainNext
  PROVE  /\ \A s \in Stages : /\ pc'[s] = pc[s] \/ Starts(s)
                              /\ resume'[s] = resume[s] /\ hand'[s] = hand[s]
         /\ UNCHANGED <<video, active, decoding>>
         /\ failed => failed'
         /\ closed \subseteq closed'
<1> USE Apart DEF MainKeeps, shared
<1>1. pc \in [Threads -> Labels] /\ hand \in [Threads -> Batches \cup {0}]
      /\ resume \in [Threads -> {"close", "finish", "cleanup", "recycleBroken", "reap", "done"}]
  BY DEF TypeOK, LabelsOK, DataOK
<1>2. CASE CreateDecoder
  BY <1>1, <1>2 DEF CreateDecoder, CreateFails, Fail, Goto, Starts, Judged
<1>3. CASE CreateWorkers
  BY <1>1, <1>3 DEF CreateWorkers, CreateFails, Fail, Goto, Starts
<1>4. CASE MainPop
  BY <1>1, <1>4 DEF MainPop, PopBatch, Goto
<1>5. CASE OutputOrdered
  BY <1>1, <1>5 DEF OutputOrdered, Drop, Fail, Goto
<1>6. CASE OutputFrame
  BY <1>1, <1>6 DEF OutputFrame, Fail, Goto
<1>7. CASE Recycle \/ FreeBatch
  BY <1>1, <1>7 DEF Recycle, FreeBatch, PushBatch, Drop, Goto
<1>8. CASE TakePending
  BY <1>1, <1>8 DEF TakePending, Goto
<1>9. CASE RecycleBroken \/ Judge
  BY <1>1, <1>9 DEF RecycleBroken, Judge, Drop, Fail, Goto
<1>10. CASE Finish \/ Cleanup \/ Reap
  BY <1>1, <1>10 DEF Finish, Cleanup, Reap, Fail, Goto
<1>11. CASE HwFail(Main)
  BY <1>11, FailMoves DEF OnlyMoves, Keeps
<1> QED BY <1>2, <1>3, <1>4, <1>5, <1>6, <1>7, <1>8, <1>9, <1>10, <1>11 DEF MainNext

(* What no step takes back. *)
LEMMA Onward ==
  ASSUME IInv, [Next]_vars
  PROVE  /\ video' = video /\ Total' = Total
         /\ failed => failed'
         /\ closed \subseteq closed'
         /\ \A s \in Stages : pc[s] = "fail" /\ pc'[s] # "fail" => failed'
<1> USE Apart
<1>1. TypeOK /\ Judged
  BY DEF IInv
<1>2. CASE DecoderNext
  <2>1. pc[Decoder] = "fail" => HwFail(Decoder) \/ ~DecoderNext
    BY DEF DecoderNext, DecoderPop, DecoderCheck, DecoderFill, DecoderReadFails,
           DecoderGiveBack, DecoderPush, DecoderClose, CloseStep
  <2>2. HwFail(Decoder) /\ pc[Decoder] = "fail" => failed'
    BY DEF HwFail, SetFailed, CloseStep
  <2> QED BY <1>1, <1>2, <2>1, <2>2, DecoderMoves DEF OnlyMoves, Keeps, Total
<1>3. ASSUME NEW w \in Workers, WorkerNext(w)
      PROVE  /\ video' = video /\ Total' = Total
             /\ failed => failed'
             /\ closed \subseteq closed'
             /\ \A s \in Stages : pc[s] = "fail" /\ pc'[s] # "fail" => failed'
  <2>1. pc[w] = "fail" => HwFail(w) \/ ~WorkerNext(w)
    BY DEF WorkerNext, WorkerPop, WorkerCheck, WorkerInfer, WorkerPush, WorkerRefused,
           WorkerFinish, WorkerClose, CloseStep
  <2>2. HwFail(w) /\ pc[w] = "fail" => failed'
    BY DEF HwFail, SetFailed, CloseStep
  <2> QED BY <1>1, <1>3, <2>1, <2>2, WorkerMoves DEF OnlyMoves, Keeps, Total
<1>4. CASE MainNext
  BY <1>1, <1>4, MainMoves DEF Starts, Total
<1>5. CASE Returned \/ UNCHANGED vars
  BY <1>5 DEF Returned, vars, shared, Total
<1> QED BY <1>2, <1>3, <1>4, <1>5 DEF Next

(* A step that is nobody's step changes nothing. *)
LEMMA StepOf ==
  ASSUME [Next]_vars
  PROVE  DecoderNext \/ (\E w \in Workers : WorkerNext(w)) \/ MainNext \/ UNCHANGED vars
BY DEF Next, Returned

-----------------------------------------------------------------------------
(* Labels.                                                                 *)

LEMMA LabelsStep ==
  ASSUME IInv, [Next]_vars
  PROVE  LabelsOK'
<1> DEFINE Resumes == {"close", "finish", "cleanup", "recycleBroken", "reap", "done"}
<1> USE Apart DEF LabelsOK
<1>0. LabelsOK /\ TypeOK /\ Judged /\ Failing
  BY DEF IInv, TypeOK
<1>1. /\ DecoderLabels \subseteq Labels /\ WorkerLabels \subseteq Labels
      /\ MainLabels \subseteq Labels /\ FailLabels \subseteq DecoderLabels
      /\ FailLabels \subseteq WorkerLabels /\ FailLabels \subseteq MainLabels
  BY DEF Labels, DecoderLabels, WorkerLabels, MainLabels
<1>2. CASE DecoderNext
  <2>1. pc'[Decoder] \in DecoderLabels /\ resume'[Decoder] \in Resumes
    BY <1>0, <1>2 DEF DecoderNext, DecoderPop, DecoderCheck, DecoderFill, DecoderReadFails,
         DecoderGiveBack, DecoderPush, DecoderClose, HwFail, SetFailed, CloseStep, Goto, Fail,
         Failing, DecoderLabels, FailLabels, CloseLabels
  <2>2. \E l, r : pc' = [pc EXCEPT ![Decoder] = l] /\ (resume' = resume \/ resume' = [resume EXCEPT ![Decoder] = r])
    BY <1>2 DEF DecoderNext, DecoderPop, DecoderCheck, DecoderFill, DecoderReadFails,
         DecoderGiveBack, DecoderPush, DecoderClose, HwFail, SetFailed, CloseStep, Goto, Fail
  <2> QED BY <1>0, <1>1, <2>1, <2>2
<1>3. ASSUME NEW w \in Workers, WorkerNext(w) PROVE LabelsOK'
  <2>1. pc'[w] \in WorkerLabels /\ resume'[w] \in Resumes
    BY <1>0, <1>3 DEF WorkerNext, WorkerPop, WorkerCheck, WorkerInfer, WorkerPush,
         WorkerRefused, WorkerFinish, WorkerClose, Abandon, HwFail, SetFailed, CloseStep, Goto, Fail,
         Failing, WorkerLabels, FailLabels, CloseLabels
  <2>2. \E l, r : pc' = [pc EXCEPT ![w] = l] /\ (resume' = resume \/ resume' = [resume EXCEPT ![w] = r])
    BY <1>3 DEF WorkerNext, WorkerPop, WorkerCheck, WorkerInfer, WorkerPush,
         WorkerRefused, WorkerFinish, WorkerClose, Abandon, HwFail, SetFailed, CloseStep, Goto, Fail
  <2> QED BY <1>0, <1>1, <2>1, <2>2
<1>4. CASE MainNext
  <2>1. pc'[Main] \in MainLabels /\ resume'[Main] \in Resumes
    BY <1>0, <1>4 DEF MainNext, CreateDecoder, CreateWorkers, CreateFails, MainPop, OutputOrdered,
         OutputFrame, Recycle, FreeBatch, TakePending, RecycleBroken, Judge, Finish, Cleanup, Reap,
         HwFail, SetFailed, CloseStep, Goto, Fail, Failing, MainLabels, FailLabels, CloseLabels
  <2>2. \A s \in Stages : pc'[s] = pc[s] \/ pc'[s] = "pop"
    BY <1>0, <1>4, MainMoves DEF Starts
  <2>3. /\ pc' = [t \in Threads |-> pc'[t]] /\ resume' = [t \in Threads |-> resume'[t]]
        /\ \A s \in Stages : resume'[s] = resume[s]
    <3>1. /\ pc' = [t \in Threads |-> pc'[t]]
          /\ resume' = [t \in Threads |-> resume'[t]]
      BY <1>0, <1>4 DEF MainNext, CreateDecoder, CreateWorkers, CreateFails, MainPop, OutputOrdered,
         OutputFrame, Recycle, FreeBatch, TakePending, RecycleBroken, Judge, Finish, Cleanup, Reap,
         HwFail, SetFailed, CloseStep, Goto, Fail
    <3> QED BY <3>1, <1>0, <1>4, MainMoves
  <2>4. \A t \in Threads : pc'[t] \in Labels /\ resume'[t] \in Resumes
    BY <1>0, <1>1, <2>1, <2>2, <2>3 DEF DecoderLabels
  <2>5. pc' \in [Threads -> Labels] /\ resume' \in [Threads -> Resumes]
    BY <2>3, <2>4
  <2>6. pc'[Decoder] \in DecoderLabels /\ \A w \in Workers : pc'[w] \in WorkerLabels
    BY <1>0, <2>2 DEF DecoderLabels, WorkerLabels
  <2> QED BY <2>1, <2>5, <2>6
<1>5. CASE UNCHANGED vars
  BY <1>0, <1>5 DEF vars
<1> QED BY <1>2, <1>3, <1>4, <1>5, StepOf

-----------------------------------------------------------------------------
(* Queues, and who holds a batch.                                          *)

(* Thread t pops a batch, or pushes the one it holds. *)
LEMMA AfterPop ==
  ASSUME TypeOK, Owned, NEW t \in Threads, NEW q \in QueueNames, PopBatch(t, q)
  PROVE  /\ queue' \in [QueueNames -> Seq(Batches)]
         /\ hand' \in [Threads -> Batches \cup {0}]
         /\ hand'[t] \in InQueue(q) /\ hand'[t] \in Batches
         /\ \A u \in Threads \ {t} : hand'[u] = hand[u]
         /\ InQueue(q)' = InQueue(q) \ {hand'[t]}
         /\ Distinct(queue'[q]) /\ Len(queue'[q]) = Len(queue[q]) - 1
         /\ \A r \in QueueNames \ {q} : queue'[r] = queue[r] /\ InQueue(r)' = InQueue(r)
<1>1. queue \in [QueueNames -> Seq(Batches)] /\ hand \in [Threads -> Batches \cup {0}]
  BY DEF TypeOK, DataOK
<1>2. queue[q] \in Seq(Batches) /\ queue[q] # <<>> /\ Distinct(queue[q])
  BY <1>1 DEF Owned, PopBatch
<1>3. /\ queue'[q] = Tail(queue[q]) /\ hand'[t] = Head(queue[q])
      /\ \A r \in QueueNames \ {q} : queue'[r] = queue[r]
      /\ \A u \in Threads \ {t} : hand'[u] = hand[u]
      /\ queue' = [queue EXCEPT ![q] = Tail(@)] /\ hand' = [hand EXCEPT ![t] = Head(queue[q])]
  BY <1>1 DEF PopBatch
<1>4. /\ Head(queue[q]) \in Batches /\ Head(queue[q]) \in Elements(queue[q])
      /\ Tail(queue[q]) \in Seq(Batches) /\ Len(Tail(queue[q])) = Len(queue[q]) - 1
      /\ Distinct(Tail(queue[q]))
      /\ Elements(Tail(queue[q])) = Elements(queue[q]) \ {Head(queue[q])}
  BY <1>2, TailElements
<1>5. queue' \in [QueueNames -> Seq(Batches)] /\ hand' \in [Threads -> Batches \cup {0}]
  BY <1>1, <1>3, <1>4
<1> QED BY <1>3, <1>4, <1>5 DEF InQueue

LEMMA AfterPush ==
  ASSUME TypeOK, Owned, NEW t \in Threads, NEW q \in QueueNames, hand[t] # 0, PushBatch(t, q)
  PROVE  /\ queue' \in [QueueNames -> Seq(Batches)]
         /\ hand' \in [Threads -> Batches \cup {0}]
         /\ hand'[t] = 0 /\ hand[t] \in Batches
         /\ \A u \in Threads \ {t} : hand'[u] = hand[u]
         /\ InQueue(q)' = InQueue(q) \cup {hand[t]}
         /\ Distinct(queue'[q]) /\ queue'[q] # <<>>
         /\ \A r \in QueueNames \ {q} : queue'[r] = queue[r] /\ InQueue(r)' = InQueue(r)
<1>1. queue \in [QueueNames -> Seq(Batches)] /\ hand \in [Threads -> Batches \cup {0}]
  BY DEF TypeOK, DataOK
<1>2. /\ queue[q] \in Seq(Batches) /\ Distinct(queue[q])
      /\ hand[t] \in Batches /\ hand[t] \notin Elements(queue[q])
  BY <1>1 DEF Owned, InQueue
<1>3. /\ queue'[q] = Append(queue[q], hand[t]) /\ hand'[t] = 0
      /\ \A r \in QueueNames \ {q} : queue'[r] = queue[r]
      /\ \A u \in Threads \ {t} : hand'[u] = hand[u]
      /\ queue' = [queue EXCEPT ![q] = Append(@, hand[t])] /\ hand' = [hand EXCEPT ![t] = 0]
  BY <1>1 DEF PushBatch, Drop
<1>4. /\ Append(queue[q], hand[t]) \in Seq(Batches)
      /\ Distinct(Append(queue[q], hand[t]))
      /\ Elements(Append(queue[q], hand[t])) = Elements(queue[q]) \cup {hand[t]}
  BY <1>2, AppendElements
<1>5. queue' \in [QueueNames -> Seq(Batches)] /\ hand' \in [Threads -> Batches \cup {0}]
  BY <1>1, <1>3, <1>4
<1>6. queue'[q] # <<>>
  BY <1>2, <1>3, <1>4, <1>5, EmptyElements
<1> QED BY <1>2, <1>3, <1>4, <1>5, <1>6 DEF InQueue

-----------------------------------------------------------------------------
(* Frames in batches.                                                      *)

LEMMA TotalInNat == TypeOK => Total \in Nat /\ MaxFrames \in Nat /\ video \in Nat /\ BatchCapacity \in Nat \ {0}
BY DetectionAssumption DEF TypeOK, DataOK, Total

(* The decoder's next batch: the block of the video from decoded on. *)
LEMMA FillsBlock ==
  ASSUME TypeOK, Holding, DecoderFill
  PROVE  LET b == hand[Decoder]
             room == decoded' - decoded
         IN  /\ b \in Batches /\ room \in 0 .. BatchCapacity
             /\ decoded' \in Nat /\ decoded \in Nat /\ decoded' \in 0 .. Total
             /\ decoded <= decoded' /\ decoded' = decoded + room
             /\ frames' \in [Batches -> Seq(Nat)]
             /\ Len(frames'[b]) = room
             /\ \A i \in 1 .. room : frames'[b][i] = decoded + i - 1
             /\ \A c \in Batches \ {b} : frames'[c] = frames[c]
             /\ room = 0 <=> frames'[b] = <<>>
             /\ room > 0 => Head(frames'[b]) = decoded
             /\ room < BatchCapacity => decoded' = Total
             /\ atEnd' = (room < BatchCapacity)
             /\ pc'[Decoder] = IF room = 0 THEN "giveBack" ELSE "push"
<1> DEFINE b == hand[Decoder]
           left == Total - decoded
           room == IF left < BatchCapacity THEN left ELSE BatchCapacity
           block == [i \in 1 .. room |-> decoded + i - 1]
<1>1. /\ b \in Batches /\ Total \in Nat /\ decoded \in 0 .. Total /\ decoded \in Nat
      /\ BatchCapacity \in Nat \ {0} /\ frames \in [Batches -> Seq(Nat)]
      /\ pc \in [Threads -> Labels] /\ Decoder \in Threads
  <2>1. hand[Decoder] # 0 /\ hand[Decoder] \in Batches \cup {0}
    BY Apart DEF TypeOK, DataOK, Holding, DecoderFill
  <2> QED BY <2>1, TotalInNat, Apart DEF TypeOK, DataOK, LabelsOK
<1>2. room \in 0 .. BatchCapacity /\ room \in Nat /\ room <= left /\ left \in Nat
  BY <1>1
<1>3. /\ decoded' = decoded + room
      /\ frames' = [frames EXCEPT ![b] = block]
      /\ atEnd' = (room < BatchCapacity)
      /\ pc' = [pc EXCEPT ![Decoder] = IF room = 0 THEN "giveBack" ELSE "push"]
  BY DEF DecoderFill, Goto
<1>4. block \in Seq(Nat) /\ Len(block) = room /\ \A i \in 1 .. room : block[i] = decoded + i - 1
  <2>1. \A i \in 1 .. room : decoded + i - 1 \in Nat
    BY <1>1, <1>2
  <2>2. block \in [1 .. room -> Nat]
    BY <2>1
  <2> HIDE DEF room
  <2> QED BY <1>2, <2>2
<1>5. room = 0 <=> block = <<>>
  <2> HIDE DEF block, room
  <2> QED BY <1>2, <1>4, EmptySeq, SeqEqual
<1>6. room > 0 => Head(block) = decoded
  <2>1. room > 0 => 1 \in 1 .. room /\ block # <<>>
    BY <1>2, <1>5
  <2> HIDE DEF block, room
  <2> QED BY <1>1, <1>2, <1>4, <2>1, HeadTailProperties
<1>7. room < BatchCapacity => room = left
  BY <1>1
<1> HIDE DEF block, room, left
<1>8. left = Total - decoded
  BY DEF left
<1>9. decoded' - decoded = room /\ decoded' \in Nat /\ decoded' <= Total
  BY <1>1, <1>2, <1>3, <1>8
<1>10. frames'[b] = block /\ \A c \in Batches \ {b} : frames'[c] = frames[c]
  BY <1>1, <1>3
<1>11. frames' \in [Batches -> Seq(Nat)]
  BY <1>1, <1>3, <1>4
<1>12. pc'[Decoder] = IF room = 0 THEN "giveBack" ELSE "push"
  BY <1>1, <1>3
<1>13. room < BatchCapacity => decoded' = Total
  BY <1>1, <1>2, <1>3, <1>7, <1>8
<1>14. decoded' \in 0 .. Total
  BY <1>1, <1>9
<1> QED BY <1>1, <1>2, <1>3, <1>4, <1>5, <1>6, <1>9, <1>10, <1>11, <1>12, <1>13, <1>14

(* A thread changes only the batch it holds; but for the decoder's fill, a change  *)
(* is a release.                                                                    *)
OnlyInHand(t) == \A b \in Batches : b # hand[t] => frames'[b] = frames[b]
OnlyReleases == \A b \in Batches : frames'[b] = frames[b] \/ frames'[b] = <<>>
FramesTyped == frames' \in [Batches -> Seq(Nat)]

LEMMA ReleaseIs ==
  ASSUME TypeOK, NEW t \in Threads, Release(hand[t]) \/ frames' = frames
  PROVE  FramesTyped /\ OnlyInHand(t) /\ OnlyReleases
<1>1. frames \in [Batches -> Seq(Nat)] /\ <<>> \in Seq(Nat)
  BY EmptySeq DEF TypeOK, DataOK
<1> QED BY <1>1 DEF Release, FramesTyped, OnlyInHand, OnlyReleases

LEMMA DecoderFrames ==
  ASSUME IInv, DecoderNext
  PROVE  /\ FramesTyped /\ OnlyInHand(Decoder)
         /\ DecoderFill \/ (OnlyReleases /\ UNCHANGED decoding)
<1>1. TypeOK /\ Holding
  BY DEF IInv
<1>2. CASE DecoderFill
  BY <1>1, <1>2, FillsBlock DEF FramesTyped, OnlyInHand
<1>3. CASE ~DecoderFill
  <2>1. (Release(hand[Decoder]) \/ frames' = frames) /\ UNCHANGED decoding
    BY <1>3 DEF DecoderNext, DecoderPop, DecoderCheck, DecoderReadFails, DecoderGiveBack,
         DecoderPush, DecoderClose, HwFail, SetFailed, CloseStep
  <2> QED BY <1>1, <2>1, Apart, ReleaseIs
<1> QED BY <1>2, <1>3

LEMMA WorkerFrames ==
  ASSUME IInv, NEW w \in Workers, WorkerNext(w)
  PROVE  FramesTyped /\ OnlyInHand(w) /\ OnlyReleases
<1>1. TypeOK
  BY DEF IInv
<1>2. Release(hand[w]) \/ frames' = frames
  BY DEF WorkerNext, WorkerPop, WorkerCheck, WorkerInfer, WorkerPush, Abandon,
         WorkerRefused, WorkerFinish, WorkerClose, HwFail, SetFailed, CloseStep
<1> QED BY <1>1, <1>2, Apart, ReleaseIs

LEMMA MainFrames ==
  ASSUME IInv, MainNext
  PROVE  FramesTyped /\ (OnlyInHand(Main) \/ Reap) /\ OnlyReleases
<1>1. TypeOK
  BY DEF IInv
<1>2. CASE Reap
  <2>1. frames \in [Batches -> Seq(Nat)] /\ <<>> \in Seq(Nat)
    BY <1>1, EmptySeq DEF TypeOK, DataOK
  <2> QED BY <1>2, <2>1 DEF Reap, FramesTyped, OnlyReleases
<1>3. CASE ~Reap
  <2>1. Release(hand[Main]) \/ frames' = frames
    BY <1>3 DEF MainNext, CreateDecoder, CreateWorkers, MainPop, OutputOrdered, OutputFrame,
         Recycle, FreeBatch, TakePending, RecycleBroken, Judge, Finish, Cleanup,
         HwFail, SetFailed, CloseStep
  <2> QED BY <1>1, <2>1, Apart, ReleaseIs
<1> QED BY <1>2, <1>3

LEMMA FramesStep ==
  ASSUME IInv, [Next]_vars
  PROVE  FramesTyped /\ (OnlyReleases \/ DecoderFill)
<1>1. CASE UNCHANGED vars
  BY <1>1 DEF vars, IInv, TypeOK, DataOK, FramesTyped, OnlyReleases
<1> QED BY <1>1, StepOf, DecoderFrames, WorkerFrames, MainFrames

-----------------------------------------------------------------------------
(* What moves.                                                             *)

(* What a step of thread t can do with batches: nothing, a pop, a push, the loss   *)
(* of the one it holds, and for the main thread keeping one for later, taking it   *)
(* back, and the release of all at the end.  Only an empty one is lost or free.     *)
Nothing == UNCHANGED <<queue, hand, pending>>
Pops(t) == hand[t] = 0 /\ UNCHANGED pending /\ \E q \in QueueNames : PopBatch(t, q)
Pushes(t) == /\ hand[t] # 0 /\ UNCHANGED pending
             /\ \E q \in QueueNames : /\ PushBatch(t, q)
                                      /\ frames'[hand[t]] = <<>> <=> q = "free"
Loses(t) == /\ hand[t] # 0 /\ Drop(t) /\ UNCHANGED <<queue, pending>>
            /\ frames'[hand[t]] = <<>>
KeepsForLater(t) == /\ t = Main /\ hand[t] # 0 /\ Drop(t) /\ UNCHANGED queue
                    /\ pending' = pending \cup {hand[t]}
                    /\ frames'[hand[t]] # <<>>
TakesBack(t) == /\ t = Main /\ hand[t] = 0 /\ UNCHANGED queue
                /\ \E b \in pending : /\ pending' = pending \ {b}
                                      /\ hand' = [hand EXCEPT ![t] = b]
Empties(t) == /\ t = Main /\ UNCHANGED hand /\ pending' = {}
              /\ queue' = [q \in QueueNames |-> <<>>]
              /\ \A b \in Batches : \/ frames'[b] = <<>>
                                    \/ /\ frames'[b] = frames[b] /\ b \notin pending
                                       /\ \A q \in QueueNames : b \notin InQueue(q)
Moves(t) == \/ Nothing \/ Pops(t) \/ Pushes(t) \/ Loses(t)
            \/ KeepsForLater(t) \/ TakesBack(t) \/ Empties(t)

LEMMA DecoderMovesBatch ==
  ASSUME IInv, DecoderNext
  PROVE  Moves(Decoder)
<1> USE Apart DEF Moves
<1>1. /\ Holding /\ Filled /\ frames \in [Batches -> Seq(Nat)]
      /\ hand[Decoder] \in Batches \cup {0}
      /\ "free" \in QueueNames /\ "decoded" \in QueueNames
  BY DEF IInv, TypeOK, DataOK, QueueNames
<1>2. CASE DecoderPop
  BY <1>1, <1>2 DEF DecoderPop, Holding, Pops, Nothing, output
<1>3. CASE DecoderCheck
  BY <1>1, <1>3 DEF DecoderCheck, Holding, Filled, Loses, Nothing, output
<1>4. CASE DecoderFill
  BY <1>4 DEF DecoderFill, Nothing, output
<1>5. CASE DecoderReadFails
  BY <1>1, <1>5 DEF DecoderReadFails, Release, Holding, Loses, output
<1>6. CASE DecoderGiveBack
  BY <1>1, <1>6 DEF DecoderGiveBack, Holding, Filled, Pushes, Loses, output
<1>7. CASE DecoderPush
  BY <1>1, <1>7 DEF DecoderPush, Release, Holding, Filled, Pushes, Loses, output
<1>8. CASE DecoderClose
  BY <1>8 DEF DecoderClose, CloseStep, Nothing, output
<1>9. CASE HwFail(Decoder)
  BY <1>9 DEF HwFail, SetFailed, CloseStep, Nothing, output
<1> QED BY <1>2, <1>3, <1>4, <1>5, <1>6, <1>7, <1>8, <1>9 DEF DecoderNext

LEMMA WorkerMovesBatch ==
  ASSUME IInv, NEW w \in Workers, WorkerNext(w)
  PROVE  Moves(w)
<1> USE Apart DEF Moves
<1>1. /\ Holding /\ Filled /\ frames \in [Batches -> Seq(Nat)]
      /\ hand[w] \in Batches \cup {0}
      /\ "decoded" \in QueueNames /\ "completed" \in QueueNames
  BY DEF IInv, TypeOK, DataOK, QueueNames
<1>2. CASE WorkerPop(w)
  BY <1>1, <1>2 DEF WorkerPop, Holding, Pops, Nothing, output
<1>3. CASE WorkerCheck(w)
  BY <1>1, <1>3 DEF WorkerCheck, Abandon, Release, Holding, Loses, Nothing, output
<1>4. CASE WorkerInfer(w)
  BY <1>1, <1>4 DEF WorkerInfer, Abandon, Release, Holding, Loses, Nothing, output
<1>5. CASE WorkerPush(w)
  BY <1>1, <1>5 DEF WorkerPush, Release, Holding, Filled, Pushes, Loses, output
<1>6. CASE WorkerRefused(w) \/ WorkerFinish(w) \/ WorkerClose(w) \/ HwFail(w)
  BY <1>6 DEF WorkerRefused, WorkerFinish, WorkerClose, HwFail, SetFailed, CloseStep,
       Nothing, output
<1> QED BY <1>2, <1>3, <1>4, <1>5, <1>6 DEF WorkerNext

LEMMA ReapEmpties ==
  ASSUME IInv, Reap
  PROVE  Empties(Main)
<1>1. \A q \in QueueNames : InQueue(q) \subseteq Queued
  <2>1. \A q \in QueueNames : DOMAIN queue[q] = 1 .. Len(queue[q])
    BY LenProperties DEF IInv, TypeOK, DataOK
  <2> QED BY <2>1 DEF InQueue, Elements, Queued
<1> QED BY <1>1 DEF Reap, Empties

LEMMA MainMovesBatch ==
  ASSUME IInv, MainNext
  PROVE  Moves(Main)
<1> USE Apart DEF Moves
<1>1. /\ Holding /\ Filled /\ frames \in [Batches -> Seq(Nat)]
      /\ hand[Main] \in Batches \cup {0}
      /\ "free" \in QueueNames /\ "completed" \in QueueNames
  BY DEF IInv, TypeOK, DataOK, QueueNames
<1>2. CASE CreateDecoder \/ CreateWorkers \/ OutputFrame \/ Judge \/ Finish \/ Cleanup
  BY <1>2 DEF CreateDecoder, CreateWorkers, OutputFrame, Judge, Finish, Cleanup, Nothing, output
<1>3. CASE MainPop
  BY <1>1, <1>3 DEF MainPop, Holding, FailLabels, CloseLabels, Pops, Nothing, output
<1>4. CASE OutputOrdered
  BY <1>1, <1>4 DEF OutputOrdered, Holding, Filled, KeepsForLater, Nothing
<1>5. CASE Recycle
  BY <1>1, <1>5 DEF Recycle, Release, Holding, Loses, Nothing, output
<1>6. CASE FreeBatch
  BY <1>1, <1>6 DEF FreeBatch, Holding, Filled, Pushes, Loses, output
<1>7. CASE TakePending
  BY <1>1, <1>7 DEF TakePending, Holding, FailLabels, CloseLabels, TakesBack, Nothing
<1>8. CASE RecycleBroken
  BY <1>1, <1>8 DEF RecycleBroken, Release, Holding, Loses, output
<1>9. CASE Reap
  BY <1>9, ReapEmpties
<1>10. CASE HwFail(Main)
  BY <1>10 DEF HwFail, SetFailed, CloseStep, Nothing, output
<1> QED BY <1>2, <1>3, <1>4, <1>5, <1>6, <1>7, <1>8, <1>9, <1>10 DEF MainNext

LEMMA SomeoneMoves ==
  ASSUME IInv, [Next]_vars
  PROVE  \E t \in Threads : Moves(t) /\ (OnlyInHand(t) \/ Empties(t))
<1>1. CASE UNCHANGED vars
  BY <1>1, Apart DEF vars, output, Moves, Nothing, OnlyInHand
<1>2. CASE DecoderNext
  BY <1>2, Apart, DecoderMovesBatch, DecoderFrames
<1>3. ASSUME NEW w \in Workers, WorkerNext(w)
      PROVE  \E t \in Threads : Moves(t) /\ (OnlyInHand(t) \/ Empties(t))
  BY <1>3, Apart, WorkerMovesBatch, WorkerFrames
<1>4. CASE MainNext
  BY <1>4, Apart, MainMovesBatch, MainFrames, ReapEmpties
<1> QED BY <1>1, <1>2, <1>3, <1>4, StepOf

(* Owned, whatever t does. *)
LEMMA OwnedStep ==
  ASSUME IInv, [Next]_vars
  PROVE  /\ Owned'
         /\ queue' \in [QueueNames -> Seq(Batches)]
         /\ hand' \in [Threads -> Batches \cup {0}]
         /\ pending' \subseteq Batches
<1>0. /\ TypeOK /\ Owned
      /\ queue \in [QueueNames -> Seq(Batches)] /\ hand \in [Threads -> Batches \cup {0}]
      /\ pending \subseteq Batches /\ 0 \notin Batches
  BY DEF IInv, TypeOK, DataOK, Batches
<1> PICK t \in Threads : Moves(t)
  BY SomeoneMoves
<1> USE DEF Owned
<1>1. CASE Nothing
  <2>1. \A q \in QueueNames : queue'[q] = queue[q] /\ InQueue(q)' = InQueue(q)
    BY <1>1 DEF Nothing, InQueue
  <2> QED BY <1>0, <1>1, <2>1 DEF Nothing
<1>2. CASE Pops(t)
  <2> PICK q \in QueueNames : PopBatch(t, q)
    BY <1>2 DEF Pops
  <2>0. UNCHANGED pending
    BY <1>2 DEF Pops
  <2>1. /\ hand'[t] \in InQueue(q) /\ hand'[t] \in Batches
        /\ \A u \in Threads \ {t} : hand'[u] = hand[u]
        /\ InQueue(q)' = InQueue(q) \ {hand'[t]} /\ Distinct(queue'[q])
        /\ \A r \in QueueNames \ {q} : queue'[r] = queue[r] /\ InQueue(r)' = InQueue(r)
        /\ queue' \in [QueueNames -> Seq(Batches)] /\ hand' \in [Threads -> Batches \cup {0}]
    BY <1>0, AfterPop
  <2>2. \A r \in QueueNames : Distinct(queue'[r])
    <3> SUFFICES ASSUME NEW r \in QueueNames PROVE Distinct(queue'[r])
      OBVIOUS
    <3>1. CASE r = q
      BY <2>1, <3>1
    <3>2. CASE r # q
      <4>1. queue'[r] = queue[r] /\ Distinct(queue[r])
        BY <1>0, <2>1, <3>2
      <4> QED BY <4>1
    <3> QED BY <3>1, <3>2
  <2>3. \A r \in QueueNames : InQueue(r)' \subseteq InQueue(r) /\ hand'[t] \notin InQueue(r)'
    <3> SUFFICES ASSUME NEW r \in QueueNames
                 PROVE  InQueue(r)' \subseteq InQueue(r) /\ hand'[t] \notin InQueue(r)'
      OBVIOUS
    <3>1. CASE r = q
      <4>1. InQueue(r)' = InQueue(q) \ {hand'[t]} /\ InQueue(r) = InQueue(q)
        BY <2>1, <3>1
      <4> QED BY <4>1
    <3>2. CASE r # q
      <4>1. InQueue(r)' = InQueue(r) /\ InQueue(r) \cap InQueue(q) = {}
        BY <1>0, <2>1, <3>2
      <4> QED BY <2>1, <4>1
    <3> QED BY <3>1, <3>2
  <2>4. \A u \in Threads \ {t} : hand'[u] # hand'[t]
    BY <1>0, <2>1
  <2>5. hand'[t] \notin pending
    BY <1>0, <2>1
  <2> HIDE DEF QueueNames
  <2> QED BY <1>0, <2>0, <2>1, <2>2, <2>3, <2>4, <2>5
<1>3. CASE Pushes(t)
  <2> PICK q \in QueueNames : PushBatch(t, q)
    BY <1>3 DEF Pushes
  <2>0. UNCHANGED pending /\ hand[t] # 0
    BY <1>3 DEF Pushes
  <2>1. /\ hand'[t] = 0 /\ hand[t] \in Batches
        /\ \A u \in Threads \ {t} : hand'[u] = hand[u]
        /\ InQueue(q)' = InQueue(q) \cup {hand[t]} /\ Distinct(queue'[q])
        /\ \A r \in QueueNames \ {q} : queue'[r] = queue[r] /\ InQueue(r)' = InQueue(r)
        /\ queue' \in [QueueNames -> Seq(Batches)] /\ hand' \in [Threads -> Batches \cup {0}]
    BY <1>0, <2>0, AfterPush
  <2>2. \A r \in QueueNames : Distinct(queue'[r])
    <3> SUFFICES ASSUME NEW r \in QueueNames PROVE Distinct(queue'[r])
      OBVIOUS
    <3>1. CASE r = q
      BY <2>1, <3>1
    <3>2. CASE r # q
      <4>1. queue'[r] = queue[r] /\ Distinct(queue[r])
        BY <1>0, <2>1, <3>2
      <4> QED BY <4>1
    <3> QED BY <3>1, <3>2
  <2>3. \A r, o \in QueueNames : r # o => InQueue(r)' \cap InQueue(o)' = {}
    <3> SUFFICES ASSUME NEW r \in QueueNames, NEW o \in QueueNames, r # o
                 PROVE  InQueue(r)' \cap InQueue(o)' = {}
      OBVIOUS
    <3>1. InQueue(r) \cap InQueue(o) = {} /\ hand[t] \notin InQueue(r) /\ hand[t] \notin InQueue(o)
      BY <1>0
    <3>2. \A p \in QueueNames \ {q} : InQueue(p)' = InQueue(p)
      BY <2>1
    <3>3. CASE r = q
      <4>1. InQueue(r)' = InQueue(r) \cup {hand[t]} /\ InQueue(o)' = InQueue(o)
        BY <2>1, <3>2, <3>3
      <4> QED BY <3>1, <4>1
    <3>4. CASE o = q
      <4>1. InQueue(o)' = InQueue(o) \cup {hand[t]} /\ InQueue(r)' = InQueue(r)
        BY <2>1, <3>2, <3>4
      <4> QED BY <3>1, <4>1
    <3> QED BY <3>1, <3>2, <3>3, <3>4
  <2>4. \A u \in Threads : \A r \in QueueNames : hand'[u] \notin InQueue(r)'
    <3> SUFFICES ASSUME NEW u \in Threads, NEW r \in QueueNames, hand'[u] \in InQueue(r)'
                 PROVE  FALSE
      OBVIOUS
    <3>1. \A o \in QueueNames : 0 \notin InQueue(o)
      BY <1>0, ElementOfSeq DEF InQueue, Elements
    <3>2. CASE u = t
      BY <1>0, <2>0, <2>1, <3>1, <3>2
    <3>3. CASE u # t
      BY <1>0, <2>0, <2>1, <3>3
    <3> QED BY <3>2, <3>3
  <2>5. \A u \in Threads : hand'[u] \notin pending
    BY <1>0, <2>1
  <2>6. \A u, v \in Threads : hand'[u] # 0 /\ hand'[u] = hand'[v] => u = v
    BY <1>0, <2>1
  <2>7. \A r \in QueueNames : InQueue(r)' \cap pending = {}
    BY <1>0, <2>0, <2>1
  <2> QED BY <1>0, <2>0, <2>1, <2>2, <2>3, <2>4, <2>5, <2>6, <2>7
<1>4. CASE Loses(t) \/ KeepsForLater(t)
  <2>1. \A q \in QueueNames : queue'[q] = queue[q] /\ InQueue(q)' = InQueue(q)
    BY <1>4 DEF Loses, KeepsForLater, InQueue
  <2>2. queue' = queue /\ hand' = [hand EXCEPT ![t] = 0] /\ hand[t] # 0
        /\ pending' \subseteq pending \cup {hand[t]}
    BY <1>4 DEF Loses, KeepsForLater, Drop
  <2>3. hand'[t] = 0 /\ \A u \in Threads \ {t} : hand'[u] = hand[u]
    BY <1>0, <2>2
  <2>4. hand[t] \in Batches /\ \A q \in QueueNames : 0 \notin InQueue(q)
    BY <1>0, <2>2, ElementOfSeq DEF InQueue, Elements
  <2> QED BY <1>0, <2>1, <2>2, <2>3, <2>4
<1>5. CASE TakesBack(t)
  <2>1. \A q \in QueueNames : queue'[q] = queue[q] /\ InQueue(q)' = InQueue(q)
    BY <1>5 DEF TakesBack, InQueue
  <2> PICK b \in pending : pending' = pending \ {b} /\ hand' = [hand EXCEPT ![t] = b]
    BY <1>5 DEF TakesBack
  <2>2. hand'[t] = b /\ \A u \in Threads \ {t} : hand'[u] = hand[u]
    BY <1>0
  <2>3. queue' = queue
    BY <1>5 DEF TakesBack
  <2> QED BY <1>0, <2>1, <2>2, <2>3
<1>6. CASE Empties(t)
  <2>1. \A q \in QueueNames : queue'[q] = <<>>
    BY <1>6 DEF Empties
  <2>2. <<>> \in Seq(Batches) /\ Len(<<>>) = 0
    BY EmptySeq
  <2>3. \A q \in QueueNames : InQueue(q)' = {} /\ Distinct(queue'[q])
    BY <2>1, <2>2 DEF InQueue, Elements, Distinct
  <2>4. queue' \in [QueueNames -> Seq(Batches)]
    BY <1>6, <2>2 DEF Empties
  <2> QED BY <1>0, <1>6, <2>3, <2>4 DEF Empties
<1> QED BY <1>1, <1>2, <1>3, <1>4, <1>5, <1>6 DEF Moves

-----------------------------------------------------------------------------
(* The rest of the types.                                                  *)

(* The flag and the closed queues. *)
LEMMA FlagsStep ==
  ASSUME IInv, [Next]_vars
  PROVE  failed' \in BOOLEAN /\ closed' \subseteq QueueNames
<1>1. failed \in BOOLEAN /\ closed \subseteq QueueNames
  BY DEF IInv, TypeOK, DataOK
<1>2. CASE UNCHANGED <<failed, closed>>
  BY <1>1, <1>2
<1>3. ASSUME NEW t \in Threads, HwFail(t)
      PROVE  failed' \in BOOLEAN /\ closed' \subseteq QueueNames
  BY <1>1, <1>3 DEF HwFail, SetFailed, CloseStep, QueueNames
<1>4. CASE DecoderNext
  BY <1>1, <1>2, <1>3, <1>4, Apart DEF DecoderNext, DecoderPop, DecoderCheck, DecoderFill, DecoderReadFails,
         DecoderGiveBack, DecoderPush, DecoderClose, CloseStep, QueueNames, shared
<1>5. ASSUME NEW w \in Workers, WorkerNext(w)
      PROVE  failed' \in BOOLEAN /\ closed' \subseteq QueueNames
  BY <1>1, <1>2, <1>3, <1>5, Apart DEF WorkerNext, WorkerPop, WorkerCheck, WorkerInfer, WorkerPush,
         WorkerRefused, WorkerFinish, WorkerClose, CloseStep, QueueNames, shared
<1>6. CASE MainNext
  BY <1>1, <1>2, <1>3, <1>6, Apart DEF MainNext, CreateDecoder, CreateWorkers, MainPop, OutputOrdered, OutputFrame,
         Recycle, FreeBatch, TakePending, RecycleBroken, Judge, Finish, Cleanup, Reap, MainKeeps, shared
<1>7. CASE UNCHANGED vars
  BY <1>2, <1>7 DEF vars, shared
<1> QED BY <1>4, <1>5, <1>6, <1>7, StepOf

(* Who counts itself out was counted. *)
LEMMA ActiveStep ==
  ASSUME IInv, NEW w \in Workers, WorkerNext(w)
  PROVE  active' \in Nat
<1>1. active \in Nat /\ Counted
  BY DEF IInv, TypeOK, DataOK
<1>2. CASE WorkerFinish(w)
  <2> DEFINE Counting == {v \in Workers : pc[v] \notin {"closing", "done"}}
  <2>1. w \in Counting /\ active = Cardinality(Counting) /\ active' = active - 1
    BY <1>1, <1>2 DEF Counted, WorkerFinish
  <2>2. IsFiniteSet(Counting)
    BY DetectionAssumption, FS_Subset
  <2>3. Cardinality(Counting) # 0
    BY <2>1, <2>2, FS_EmptySet
  <2> QED BY <1>1, <2>1, <2>3
<1>3. CASE ~WorkerFinish(w)
  BY <1>1, <1>3 DEF WorkerNext, WorkerPop, WorkerCheck, WorkerInfer, WorkerPush,
         WorkerRefused, WorkerClose, CloseStep, HwFail, SetFailed, shared
<1> QED BY <1>2, <1>3

(* The frame the main thread writes next, and the batch it is in. *)
LEMMA AtOutput ==
  ASSUME IInv, pc[Main] = "output"
  PROVE  LET b == hand[Main]
         IN  /\ b \in Batches /\ frames[b] \in Seq(Nat) /\ frames[b] # <<>>
             /\ slot \in 1 .. Len(frames[b]) /\ Len(frames[b]) \in Nat \ {0}
             /\ frames[b][slot] = Len(rows) /\ Len(rows) \in Nat
             /\ Len(rows) = next + slot - 1 /\ next \in Nat /\ FirstOf(b) = next
             /\ next + Len(frames[b]) <= decoded /\ decoded \in 0 .. Total /\ Total \in Nat
<1> DEFINE b == hand[Main]
<1>1. b \in Batches /\ frames[b] # <<>>
  BY Apart DEF IInv, TypeOK, DataOK, Holding, Filled
<1>2. frames[b] \in Seq(Nat) /\ Len(frames[b]) \in Nat \ {0}
  <2>1. frames[b] \in Seq(Nat)
    BY <1>1 DEF IInv, TypeOK, DataOK
  <2> QED BY <1>1, <2>1, EmptySeq
<1>3. /\ Len(rows) \in Nat /\ next \in Nat /\ slot \in Nat \ {0} /\ decoded \in 0 .. Total
      /\ Total \in Nat
  <2>1. Total \in Nat /\ rows \in Seq(Nat)
    BY TotalInNat DEF IInv, TypeOK, DataOK
  <2> QED BY <2>1, LenProperties DEF IInv, TypeOK, DataOK
<1>4. FirstOf(b) = next /\ slot <= Len(frames[b]) /\ Len(rows) = next + slot - 1
  BY DEF IInv, RowsInOrder
<1>5. /\ After(b) <= decoded
      /\ \A i \in 1 .. Len(frames[b]) : frames[b][i] = FirstOf(b) + i - 1
  BY <1>1 DEF IInv, Blocks
<1>6. frames[b][slot] = next + slot - 1
  BY <1>2, <1>3, <1>4, <1>5
<1>7. next + Len(frames[b]) <= decoded
  BY <1>4, <1>5 DEF After
<1> QED BY <1>1, <1>2, <1>3, <1>4, <1>6, <1>7

LEMMA OutputTyped ==
  ASSUME IInv, MainNext
  PROVE  /\ next' \in 0 .. decoded' /\ slot' \in Nat \ {0} /\ rows' \in Seq(Nat)
         /\ result' \in {"none", "ok", "error"}
<1>1. /\ next \in 0 .. decoded /\ slot \in Nat \ {0} /\ rows \in Seq(Nat)
      /\ result \in {"none", "ok", "error"} /\ decoded' = decoded /\ decoded \in Nat
  <2>1. Total \in Nat
    BY TotalInNat DEF IInv
  <2> QED BY <2>1, MainMoves DEF IInv, TypeOK, DataOK, decoding
<1>2. CASE OutputFrame
  <2>1. pc[Main] = "output" /\ result' = result
    BY <1>2 DEF OutputFrame
  <2> DEFINE batch == frames[hand[Main]]
  <2>2. /\ batch[slot] \in Nat /\ slot + 1 \in Nat \ {0} /\ Len(batch) \in Nat
        /\ next + Len(batch) \in 0 .. decoded
    BY <1>1, <2>1, AtOutput
  <2>3. Append(rows, batch[slot]) \in Seq(Nat)
    BY <1>1, <2>2, AppendProperties
  <2>4. /\ rows' = rows \/ rows' = Append(rows, batch[slot])
        /\ slot' = slot \/ slot' = 1 \/ slot' = slot + 1
        /\ next' = next \/ next' = next + Len(batch)
    BY <1>2 DEF OutputFrame
  <2> HIDE DEF batch
  <2>5. next' \in 0 .. decoded'
    BY <1>1, <2>2, <2>4
  <2>6. slot' \in Nat \ {0}
    BY <1>1, <2>2, <2>4
  <2>7. rows' \in Seq(Nat)
    BY <1>1, <2>3, <2>4
  <2> QED BY <1>1, <2>1, <2>5, <2>6, <2>7
<1>3. CASE ~OutputFrame
  <2>1. /\ UNCHANGED <<next, slot, rows>>
        /\ result' = result \/ result' \in {"ok", "error"}
    BY <1>3 DEF MainNext, CreateDecoder, CreateWorkers, MainPop, OutputOrdered,
         Recycle, FreeBatch, TakePending, RecycleBroken, Judge, Finish, Cleanup, Reap,
         HwFail, SetFailed, CloseStep, output
  <2>2. next' \in 0 .. decoded'
    BY <1>1, <2>1
  <2>3. slot' \in Nat \ {0}
    BY <1>1, <2>1
  <2>4. rows' \in Seq(Nat)
    BY <1>1, <2>1
  <2>5. result' \in {"none", "ok", "error"}
    BY <1>1, <2>1
  <2> QED BY <2>2, <2>3, <2>4, <2>5
<1> QED BY <1>2, <1>3

LEMMA DecodingTyped ==
  ASSUME IInv, DecoderNext
  PROVE  decoded' \in 0 .. Total /\ atEnd' \in BOOLEAN /\ next \in 0 .. decoded'
<1>1. decoded \in 0 .. Total /\ atEnd \in BOOLEAN /\ next \in 0 .. decoded /\ Total \in Nat
  BY TotalInNat DEF IInv, TypeOK, DataOK
<1>2. CASE DecoderFill
  <2>1. /\ decoded <= decoded' /\ decoded' \in 0 .. Total
        /\ decoded' \in Nat /\ decoded \in Nat
    BY <1>2, TotalInNat, FillsBlock DEF IInv
  <2>2. atEnd' \in BOOLEAN
    BY <1>2 DEF DecoderFill
  <2>3. next \in Nat /\ next <= decoded
    BY <1>1, <2>1
  <2>4. next \in 0 .. decoded'
    BY <2>1, <2>3
  <2> QED BY <2>1, <2>2, <2>4
<1>3. CASE ~DecoderFill
  BY <1>1, <1>3, DecoderFrames DEF decoding
<1> QED BY <1>2, <1>3

LEMMA DataStep ==
  ASSUME IInv, [Next]_vars
  PROVE  DataOK'
<1>1. /\ queue' \in [QueueNames -> Seq(Batches)] /\ hand' \in [Threads -> Batches \cup {0}]
      /\ pending' \subseteq Batches /\ frames' \in [Batches -> Seq(Nat)]
      /\ failed' \in BOOLEAN /\ closed' \subseteq QueueNames
      /\ video' = video /\ Total' = Total
  BY OwnedStep, FramesStep, FlagsStep, Onward DEF FramesTyped
<1>2. DataOK /\ TypeOK /\ Judged
  BY DEF IInv, TypeOK
<1>3. CASE DecoderNext
  <2>1. UNCHANGED <<active, next, slot, rows, result>>
    BY <1>2, <1>3, DecoderMoves DEF output
  <2> QED BY <1>1, <1>2, <1>3, <2>1, DecodingTyped DEF DataOK
<1>4. ASSUME NEW w \in Workers, WorkerNext(w) PROVE DataOK'
  <2>1. UNCHANGED <<decoded, atEnd, next, slot, rows, result>>
    BY <1>2, <1>4, WorkerMoves DEF output, decoding
  <2> QED BY <1>1, <1>2, <1>4, <2>1, ActiveStep DEF DataOK
<1>5. CASE MainNext
  <2>1. UNCHANGED <<decoded, atEnd, active>>
    BY <1>2, <1>5, MainMoves DEF decoding
  <2> QED BY <1>1, <1>2, <1>5, <2>1, OutputTyped DEF DataOK
<1>6. CASE UNCHANGED vars
  BY <1>1, <1>2, <1>6 DEF DataOK, vars, shared, decoding, output
<1> QED BY <1>3, <1>4, <1>5, <1>6, StepOf

-----------------------------------------------------------------------------
(* Labels, flags and counts.                                               *)

LEMMA FailingStep ==
  ASSUME IInv, [Next]_vars
  PROVE  Failing'
<1> USE Apart DEF Failing
<1>0. /\ TypeOK /\ Judged /\ Failing /\ Ending
      /\ pc \in [Threads -> Labels]
      /\ resume \in [Threads -> {"close", "finish", "cleanup", "recycleBroken", "reap", "done"}]
      /\ failed => failed'
  BY Onward DEF IInv, TypeOK, LabelsOK
<1>1. ASSUME NEW t \in Threads, HwFail(t) PROVE Failing'
  BY <1>0, <1>1 DEF HwFail, SetFailed, CloseStep, Goto, FailLabels, CloseLabels
<1>2. CASE DecoderNext /\ ~HwFail(Decoder)
  <2>1. OnlyMoves(Decoder)
    BY <1>0, <1>2, DecoderMoves
  <2>2. pc'[Decoder] \notin CloseLabels /\ (pc'[Decoder] = "fail" => resume'[Decoder] = "close")
    BY <1>0, <1>2 DEF DecoderNext, DecoderPop, DecoderCheck, DecoderFill, DecoderReadFails,
         DecoderGiveBack, DecoderPush, DecoderClose, CloseStep, Goto, Fail, CloseLabels
  <2>3. closed' = closed \/ closed' = closed \cup {"decoded"}
    BY <1>2 DEF DecoderNext, DecoderPop, DecoderCheck, DecoderFill, DecoderReadFails,
         DecoderGiveBack, DecoderPush, DecoderClose, CloseStep, shared
  <2> QED BY <1>0, <2>1, <2>2, <2>3 DEF OnlyMoves, Keeps, FailLabels
<1>3. ASSUME NEW w \in Workers, WorkerNext(w), ~HwFail(w) PROVE Failing'
  <2>1. OnlyMoves(w)
    BY <1>0, <1>3, WorkerMoves
  <2>2. /\ pc'[w] \notin CloseLabels /\ (pc'[w] = "fail" => resume'[w] = "finish")
        /\ pc'[w] = "refused" => failed
    BY <1>0, <1>3 DEF WorkerNext, WorkerPop, WorkerCheck, WorkerInfer, WorkerPush, Abandon,
         WorkerRefused, WorkerFinish, WorkerClose, CloseStep, Goto, Fail, CloseLabels, Ending
  <2>3. closed' = closed \/ closed' = closed \cup {"completed"}
    BY <1>3 DEF WorkerNext, WorkerPop, WorkerCheck, WorkerInfer, WorkerPush, Abandon,
         WorkerRefused, WorkerFinish, WorkerClose, CloseStep, shared
  <2> QED BY <1>0, <2>1, <2>2, <2>3 DEF OnlyMoves, Keeps, FailLabels
<1>4. CASE MainNext /\ ~HwFail(Main)
  <2>1. \A s \in Stages : (pc'[s] = pc[s] \/ pc'[s] = "pop") /\ resume'[s] = resume[s]
    BY <1>0, <1>4, MainMoves DEF Starts
  <2>2. /\ pc'[Main] \notin CloseLabels /\ pc'[Main] # "recycleBroken"
        /\ pc'[Main] = "fail" => resume'[Main] \in {"cleanup", "recycleBroken", "reap"}
        /\ closed' = closed
    BY <1>0, <1>4 DEF MainNext, CreateDecoder, CreateWorkers, CreateFails, MainPop, OutputOrdered,
         OutputFrame, Recycle, FreeBatch, TakePending, RecycleBroken, Judge, Finish, Cleanup, Reap,
         Goto, Fail, CloseLabels, MainKeeps, shared
  <2> QED BY <1>0, <2>1, <2>2 DEF FailLabels, CloseLabels
<1>5. CASE UNCHANGED vars
  BY <1>0, <1>5 DEF vars, shared
<1> QED BY <1>1, <1>2, <1>3, <1>4, <1>5, StepOf DEF DecoderNext, WorkerNext, MainNext

LEMMA HoldingStep ==
  ASSUME IInv, [Next]_vars
  PROVE  Holding'
<1> USE Apart DEF Holding
<1>0. /\ TypeOK /\ Owned /\ Judged /\ Failing /\ Holding
      /\ pc \in [Threads -> Labels] /\ hand \in [Threads -> Batches \cup {0}]
      /\ resume \in [Threads -> {"close", "finish", "cleanup", "recycleBroken", "reap", "done"}]
      /\ pending \subseteq Batches /\ 0 \notin Batches
  BY DEF IInv, TypeOK, LabelsOK, DataOK, Batches
<1>1. ASSUME NEW t \in Threads, NEW q \in QueueNames, PopBatch(t, q) PROVE hand'[t] # 0
  BY <1>0, <1>1, AfterPop
<1>2. CASE DecoderNext
  <2>1. OnlyMoves(Decoder)
    BY <1>0, <1>2, DecoderMoves
  <2>2. hand'[Decoder] # 0 <=> pc'[Decoder] \in {"check", "fill", "giveBack", "push"}
    BY <1>0, <1>1, <1>2 DEF DecoderNext, DecoderPop, DecoderCheck, DecoderFill, DecoderReadFails,
         DecoderGiveBack, DecoderPush, DecoderClose, PushBatch, Drop, HwFail, SetFailed, CloseStep, Goto, Fail,
         CloseLabels, FailLabels, Failing, QueueNames
  <2> QED BY <1>0, <2>1, <2>2 DEF OnlyMoves, Keeps
<1>3. ASSUME NEW w \in Workers, WorkerNext(w) PROVE Holding'
  <2>1. OnlyMoves(w)
    BY <1>0, <1>3, WorkerMoves
  <2>2. hand'[w] # 0 <=> pc'[w] \in {"check", "infer", "push"}
    BY <1>0, <1>1, <1>3 DEF WorkerNext, WorkerPop, WorkerCheck, WorkerInfer, WorkerPush, Abandon,
         WorkerRefused, WorkerFinish, WorkerClose, PushBatch, Drop, HwFail, SetFailed, CloseStep, Goto, Fail,
         CloseLabels, FailLabels, Failing, QueueNames
  <2> QED BY <1>0, <2>1, <2>2 DEF OnlyMoves, Keeps
<1>4. CASE MainNext
  <2>1. \A s \in Stages : hand'[s] = hand[s]
    BY <1>0, <1>4, MainMoves
  <2>2. \A s \in Stages : pc'[s] = pc[s] \/ (pc[s] = "none" /\ pc'[s] = "pop")
    BY <1>0, <1>4, MainMoves DEF Starts
  <2>3. hand'[Main] # 0 <=> \/ pc'[Main] \in {"order", "output", "recycle", "free",
                                           "recycleBroken"}
                            \/ pc'[Main] \in FailLabels /\ resume'[Main] = "recycleBroken"
    <3>1. CASE CreateDecoder \/ CreateWorkers
      BY <1>0, <3>1 DEF CreateDecoder, CreateWorkers, CreateFails, Goto, Fail, FailLabels, CloseLabels
    <3>2. CASE MainPop \/ OutputOrdered \/ OutputFrame
      BY <1>0, <1>1, <3>2 DEF MainPop, OutputOrdered, OutputFrame, Drop, Goto, Fail, FailLabels, CloseLabels, QueueNames
    <3>3. CASE Recycle \/ FreeBatch \/ TakePending \/ RecycleBroken
      BY <1>0, <3>3 DEF Recycle, FreeBatch, TakePending, RecycleBroken, PushBatch, Drop, Goto, FailLabels, CloseLabels
    <3>4. CASE Judge \/ Finish \/ Cleanup \/ Reap
      BY <1>0, <3>4 DEF Judge, Finish, Cleanup, Reap, Goto, Fail, FailLabels, CloseLabels
    <3>5. CASE HwFail(Main)
      BY <1>0, <3>5 DEF HwFail, SetFailed, CloseStep, Goto, FailLabels, CloseLabels, Failing
    <3> QED BY <1>4, <3>1, <3>2, <3>3, <3>4, <3>5 DEF MainNext
  <2> QED BY <1>0, <2>1, <2>2, <2>3
<1>5. CASE UNCHANGED vars
  BY <1>0, <1>5 DEF vars
<1> QED BY <1>2, <1>3, <1>4, <1>5, StepOf

LEMMA CountedStep ==
  ASSUME IInv, [Next]_vars
  PROVE  Counted'
<1> DEFINE Counting == {w \in Workers : pc[w] \notin {"closing", "done"}}
<1> USE Apart
<1>0. /\ TypeOK /\ Judged /\ Failing /\ active = Cardinality(Counting) /\ active \in Nat
      /\ pc \in [Threads -> Labels]
      /\ \A w \in Workers : pc[w] = "closing" => \A v \in Workers \ {w} : pc[v] = "done"
  BY DEF IInv, TypeOK, LabelsOK, DataOK, Counted
<1>1. ASSUME \A w \in Workers : pc'[w] \in {"closing", "done"} <=> pc[w] \in {"closing", "done"},
             \A w \in Workers : pc'[w] = "closing" => pc[w] = "closing",
             active' = active
      PROVE  Counted'
  <2>1. Counting' = Counting
    BY <1>1
  <2>2. \A w \in Workers : pc'[w] = "closing" => \A v \in Workers \ {w} : pc'[v] = "done"
    BY <1>0, <1>1
  <2> QED BY <1>0, <1>1, <2>1, <2>2 DEF Counted
<1>2. CASE DecoderNext
  BY <1>0, <1>1, <1>2, DecoderMoves DEF OnlyMoves, Keeps
<1>3. ASSUME NEW w \in Workers, WorkerNext(w) PROVE Counted'
  <2>1. \A v \in Workers \ {w} : pc'[v] = pc[v]
    BY <1>0, <1>3, WorkerMoves DEF OnlyMoves, Keeps
  <2>2. CASE WorkerFinish(w)
    <3>1. w \in Counting /\ pc'[w] \in {"closing", "done"} /\ active' = active - 1
          /\ (pc'[w] = "closing" <=> active = 1)
      BY <1>0, <2>2 DEF WorkerFinish, Goto
    <3>2. Counting' = Counting \ {w}
      BY <2>1, <3>1
    <3>3. IsFiniteSet(Counting)
      BY DetectionAssumption, FS_Subset
    <3>4. Cardinality(Counting') = active'
      <4> HIDE DEF Counting
      <4>1. Cardinality(Counting \ {w}) = Cardinality(Counting) - 1
        BY <3>1, <3>3, FS_RemoveElement
      <4>2. Cardinality(Counting) = active
        BY <1>0
      <4> QED BY <3>1, <3>2, <4>1, <4>2
    <3>5. ASSUME active = 1 PROVE \A v \in Workers \ {w} : pc[v] = "done"
      <4> HIDE DEF Counting
      <4>0. Cardinality(Counting \ {w}) = Cardinality(Counting) - 1
            /\ IsFiniteSet(Counting \ {w})
        BY <3>1, <3>3, FS_RemoveElement
      <4>1. Cardinality(Counting) = 1
        BY <1>0, <3>5
      <4>5. Cardinality(Counting \ {w}) = 0 /\ IsFiniteSet(Counting \ {w})
        BY <4>0, <4>1
      <4>2. Counting \ {w} = {}
        BY <4>5, FS_EmptySet
      <4>3. \A v \in Workers \ {w} : pc[v] \in {"closing", "done"}
        BY <4>2 DEF Counting
      <4>4. pc[w] = "finish"
        BY <2>2 DEF WorkerFinish
      <4> QED BY <1>0, <4>3, <4>4
    <3>6. \A v \in Workers : pc'[v] = "closing" => \A u \in Workers \ {v} : pc'[u] = "done"
      BY <1>0, <2>1, <3>1, <3>5
    <3> QED BY <3>4, <3>6 DEF Counted
  <2>3. CASE ~WorkerFinish(w)
    <3>1. /\ pc'[w] \in {"closing", "done"} <=> pc[w] \in {"closing", "done"}
          /\ pc'[w] = "closing" => pc[w] = "closing"
          /\ active' = active
      BY <1>0, <1>3, <2>3 DEF WorkerNext, WorkerPop, WorkerCheck, WorkerInfer, WorkerPush, Abandon,
         WorkerRefused, WorkerClose, HwFail, SetFailed, CloseStep, Goto, Fail, shared, Failing,
         CloseLabels, FailLabels
    <3> QED BY <1>1, <2>1, <3>1
  <2> QED BY <2>2, <2>3
<1>4. CASE MainNext
  <2>1. active' = active /\ \A s \in Stages : pc'[s] = pc[s] \/ (pc[s] = "none" /\ pc'[s] = "pop")
    BY <1>0, <1>4, MainMoves DEF Starts
  <2> QED BY <1>1, <2>1
<1>5. CASE UNCHANGED vars
  BY <1>1, <1>5 DEF vars, shared
<1> QED BY <1>2, <1>3, <1>4, <1>5, StepOf

-----------------------------------------------------------------------------
(* Batches that have frames.                                               *)

(* The queues: empty batches in the free queue, filled ones elsewhere. *)
QueuesFilled ==
  /\ \A b \in InQueue("free") : frames[b] = <<>>
  /\ \A b \in InQueue("decoded") \cup InQueue("completed") \cup pending : frames[b] # <<>>

(* What the queues and the pending list hold after a step was there before, or in   *)
(* the hand of the thread that moved it.                                             *)
LEMMA QueuesGet ==
  ASSUME IInv, NEW t \in Threads, Moves(t)
  PROVE  /\ \A q \in QueueNames : \A b \in InQueue(q)' :
               \/ b \in InQueue(q)
               \/ Pushes(t) /\ b = hand[t] /\ (frames'[b] = <<>> <=> q = "free")
         /\ \A b \in pending' : \/ b \in pending
                                \/ b = hand[t] /\ frames'[b] # <<>>
<1>0. TypeOK /\ Owned
  BY DEF IInv
<1>1. CASE Nothing
  BY <1>1 DEF Nothing, InQueue
<1>2. CASE Pops(t)
  <2>1. PICK q \in QueueNames : PopBatch(t, q)
    BY <1>2 DEF Pops
  <2>2. /\ InQueue(q)' = InQueue(q) \ {hand'[t]}
        /\ \A r \in QueueNames \ {q} : InQueue(r)' = InQueue(r)
    BY <1>0, <2>1, AfterPop
  <2>3. \A r \in QueueNames : InQueue(r)' \subseteq InQueue(r)
    <3> TAKE r \in QueueNames
    <3>1. CASE r = q
      BY <2>2, <3>1
    <3>2. CASE r # q
      BY <2>2, <3>2
    <3> QED BY <3>1, <3>2
  <2> QED BY <1>2, <2>3 DEF Pops
<1>3. CASE Pushes(t)
  <2>1. PICK q \in QueueNames : PushBatch(t, q) /\ (frames'[hand[t]] = <<>> <=> q = "free")
    BY <1>3 DEF Pushes
  <2>2. /\ InQueue(q)' = InQueue(q) \cup {hand[t]}
        /\ \A r \in QueueNames \ {q} : InQueue(r)' = InQueue(r)
    BY <1>0, <1>3, <2>1, AfterPush DEF Pushes
  <2>3. \A r \in QueueNames : \A b \in InQueue(r)' :
               b \in InQueue(r) \/ (b = hand[t] /\ r = q)
    <3> TAKE r \in QueueNames
    <3>1. CASE r = q
      <4>1. InQueue(r)' = InQueue(r) \cup {hand[t]}
        BY <2>2, <3>1
      <4> QED BY <4>1, <3>1
    <3>2. CASE r # q
      BY <2>2, <3>2
    <3> QED BY <3>1, <3>2
  <2> QED BY <1>3, <2>1, <2>3 DEF Pushes
<1>4. CASE Loses(t) \/ KeepsForLater(t) \/ TakesBack(t)
  BY <1>4 DEF Loses, KeepsForLater, TakesBack, InQueue
<1>5. CASE Empties(t)
  <2>1. \A q \in QueueNames : InQueue(q)' = {}
    BY <1>5, EmptySeq DEF Empties, InQueue, Elements
  <2> QED BY <1>5, <2>1 DEF Empties
<1> QED BY <1>1, <1>2, <1>3, <1>4, <1>5 DEF Moves

(* What lies in a queue or in the pending list is in no hand. *)
LEMMA QueuesKeep ==
  ASSUME IInv, NEW t \in Threads, OnlyInHand(t)
  PROVE  /\ \A q \in QueueNames : \A b \in InQueue(q) : frames'[b] = frames[b]
         /\ \A b \in pending : frames'[b] = frames[b]
<1>1. Owned /\ queue \in [QueueNames -> Seq(Batches)] /\ pending \subseteq Batches
  BY DEF IInv, TypeOK, DataOK
<1>2. \A q \in QueueNames : InQueue(q) \subseteq Batches
  BY <1>1, ElementOfSeq DEF InQueue, Elements
<1> QED BY <1>1, <1>2 DEF Owned, OnlyInHand

LEMMA QueuesFilledStep ==
  ASSUME IInv, [Next]_vars
  PROVE  QueuesFilled'
<1> PICK t \in Threads : Moves(t) /\ (OnlyInHand(t) \/ Empties(t))
  BY SomeoneMoves
<1>0. Filled /\ "free" \in QueueNames /\ "decoded" \in QueueNames /\ "completed" \in QueueNames
  BY DEF IInv, QueueNames
<1>1. CASE OnlyInHand(t)
  <2>1. \A b \in InQueue("free")' : frames'[b] = <<>>
    BY <1>0, <1>1, QueuesGet, QueuesKeep DEF Filled
  <2>2. \A b \in InQueue("decoded")' : frames'[b] # <<>>
    BY <1>0, <1>1, QueuesGet, QueuesKeep DEF Filled
  <2>3. \A b \in InQueue("completed")' : frames'[b] # <<>>
    BY <1>0, <1>1, QueuesGet, QueuesKeep DEF Filled
  <2>4. \A b \in pending' : frames'[b] # <<>>
    BY <1>0, <1>1, QueuesGet, QueuesKeep DEF Filled
  <2> QED BY <2>1, <2>2, <2>3, <2>4 DEF QueuesFilled
<1>2. CASE Empties(t)
  <2>1. \A q \in QueueNames : InQueue(q)' = {}
    BY <1>2, EmptySeq DEF Empties, InQueue, Elements
  <2> QED BY <1>0, <1>2, <2>1 DEF Empties, QueuesFilled
<1> QED BY <1>1, <1>2

(* A batch with frames stays somewhere. *)
PlaceOf(b) == \/ b \in InQueue("decoded") \cup InQueue("completed") \cup pending
              \/ \E t \in Threads : hand[t] = b

LEMMA PlacedStep ==
  ASSUME IInv, [Next]_vars
  PROVE  Placed'
<1> SUFFICES ASSUME NEW b \in Batches, frames'[b] # <<>>
             PROVE  PlaceOf(b)'
  BY DEF Placed, PlaceOf
<1>0. /\ TypeOK /\ Owned /\ Holding /\ Filled
      /\ "free" \in QueueNames /\ "decoded" \in QueueNames /\ "completed" \in QueueNames
      /\ hand \in [Threads -> Batches \cup {0}] /\ b # 0
      /\ hand' \in [Threads -> Batches \cup {0}]
  BY OwnedStep DEF IInv, TypeOK, DataOK, Batches, QueueNames
<1>1. PlaceOf(b)
  <2>1. CASE frames[b] # <<>>
    BY <2>1 DEF IInv, Placed, PlaceOf
  <2>2. CASE frames[b] = <<>>
    <3>1. DecoderFill
      BY <2>2, FramesStep DEF OnlyReleases
    <3>2. b = hand[Decoder]
      BY <1>0, <2>2, <3>1, FillsBlock
    <3> QED BY <3>2, Apart DEF PlaceOf
  <2> QED BY <2>1, <2>2
<1> PICK t \in Threads : Moves(t) /\ (OnlyInHand(t) \/ Empties(t))
  BY SomeoneMoves
<1>2. CASE Nothing
  BY <1>1, <1>2 DEF Nothing, PlaceOf, InQueue
<1>3. CASE Pops(t)
  <2>1. PICK q \in QueueNames : PopBatch(t, q)
    BY <1>3 DEF Pops
  <2>2. /\ \A r \in QueueNames : \A c \in InQueue(r) : c \in InQueue(r)' \/ c = hand'[t]
        /\ \A u \in Threads \ {t} : hand'[u] = hand[u]
    <3>1. /\ InQueue(q)' = InQueue(q) \ {hand'[t]}
          /\ \A r \in QueueNames \ {q} : InQueue(r)' = InQueue(r)
          /\ \A u \in Threads \ {t} : hand'[u] = hand[u]
      BY <1>0, <2>1, AfterPop
    <3>2. ASSUME NEW r \in QueueNames, NEW c \in InQueue(r) PROVE c \in InQueue(r)' \/ c = hand'[t]
      <4>1. CASE r = q
        <5>1. InQueue(r)' = InQueue(r) \ {hand'[t]}
          BY <3>1, <4>1
        <5> QED BY <5>1
      <4>2. CASE r # q
        BY <3>1, <4>2
      <4> QED BY <4>1, <4>2
    <3> QED BY <3>1, <3>2
  <2> QED BY <1>0, <1>1, <1>3, <2>2 DEF Pops, PlaceOf
<1>4. CASE Pushes(t)
  <2>1. PICK q \in QueueNames : PushBatch(t, q) /\ (frames'[hand[t]] = <<>> <=> q = "free")
    BY <1>4 DEF Pushes
  <2>2. /\ hand'[t] = 0 /\ hand[t] \in InQueue(q)'
        /\ \A r \in QueueNames : InQueue(r) \subseteq InQueue(r)'
        /\ \A u \in Threads \ {t} : hand'[u] = hand[u]
    <3>1. /\ InQueue(q)' = InQueue(q) \cup {hand[t]} /\ hand'[t] = 0
          /\ \A r \in QueueNames \ {q} : InQueue(r)' = InQueue(r)
          /\ \A u \in Threads \ {t} : hand'[u] = hand[u]
      BY <1>0, <1>4, <2>1, AfterPush DEF Pushes
    <3>2. ASSUME NEW r \in QueueNames PROVE InQueue(r) \subseteq InQueue(r)'
      <4>1. CASE r = q
        <5>1. InQueue(r)' = InQueue(r) \cup {hand[t]}
          BY <3>1, <4>1
        <5> QED BY <5>1
      <4>2. CASE r # q
        BY <3>1, <4>2
      <4> QED BY <4>1, <4>2
    <3> QED BY <3>1, <3>2
  <2>3. b = hand[t] => q \in {"decoded", "completed"}
    BY <2>1 DEF QueueNames
  <2> QED BY <1>0, <1>1, <1>4, <2>2, <2>3 DEF Pushes, PlaceOf
<1>5. CASE Loses(t) \/ KeepsForLater(t)
  <2>1. \A r \in QueueNames : InQueue(r)' = InQueue(r)
    BY <1>5 DEF Loses, KeepsForLater, InQueue
  <2>2. \A u \in Threads \ {t} : hand'[u] = hand[u]
    BY <1>0, <1>5 DEF Loses, KeepsForLater, Drop
  <2>3. pending \subseteq pending' /\ (b = hand[t] => b \in pending')
    BY <1>5 DEF Loses, KeepsForLater
  <2> QED BY <1>0, <1>1, <2>1, <2>2, <2>3 DEF PlaceOf
<1>6. CASE TakesBack(t)
  <2>1. \A r \in QueueNames : InQueue(r)' = InQueue(r)
    BY <1>6 DEF TakesBack, InQueue
  <2>2. PICK c \in pending : pending' = pending \ {c} /\ hand' = [hand EXCEPT ![t] = c]
    BY <1>6 DEF TakesBack
  <2>3. hand'[t] = c /\ \A u \in Threads \ {t} : hand'[u] = hand[u]
    BY <1>0, <2>2
  <2>4. hand[t] = 0
    BY <1>6 DEF TakesBack
  <2> QED BY <1>0, <1>1, <2>1, <2>2, <2>3, <2>4 DEF PlaceOf
<1>7. CASE Empties(t)
  BY <1>0, <1>1, <1>7 DEF Empties, PlaceOf
<1> QED BY <1>2, <1>3, <1>4, <1>5, <1>6, <1>7 DEF Moves

(* Nobody touches a batch in another thread's hand. *)
LEMMA HandsKeep ==
  ASSUME IInv, NEW t \in Threads, NEW u \in Threads, t # u, OnlyInHand(t), hand[u] # 0
  PROVE  frames'[hand[u]] = frames[hand[u]]
<1>1. Owned /\ hand[u] \in Batches
  BY DEF IInv, TypeOK, DataOK
<1> QED BY <1>1 DEF Owned, OnlyInHand

LEMMA ReapsNobody ==
  ASSUME IInv, Reap
  PROVE  \A s \in Stages : pc[s] \in {"none", "done"} /\ pc'[s] = pc[s] /\ hand[s] = 0 /\ hand'[s] = 0
<1>1. \A s \in Stages : pc[s] \in {"none", "done"}
  BY DEF Reap, AllReturned, Started
<1>2. pc' = [pc EXCEPT ![Main] = "done"] /\ pc \in [Threads -> Labels] /\ hand' = hand
  BY DEF Reap, Goto, IInv, TypeOK, LabelsOK
<1>3. \A s \in Stages : pc'[s] = pc[s]
  BY <1>2, Apart
<1>4. \A s \in Stages : hand[s] = 0
  BY <1>1, Apart DEF IInv, Holding
<1> QED BY <1>1, <1>2, <1>3, <1>4

DecoderFilled == /\ pc[Decoder] \in {"check", "fill", "giveBack"} => frames[hand[Decoder]] = <<>>
                 /\ pc[Decoder] = "push" => frames[hand[Decoder]] # <<>>
WorkerFilled(w) == hand[w] # 0 => frames[hand[w]] # <<>>
MainFilled == /\ pc[Main] \in {"order", "output", "recycle"} => frames[hand[Main]] # <<>>
              /\ pc[Main] = "free" => frames[hand[Main]] = <<>>

LEMMA DecoderFilledStep ==
  ASSUME IInv, [Next]_vars
  PROVE  DecoderFilled'
<1> USE Apart
<1>0. /\ TypeOK /\ Owned /\ Judged /\ Holding /\ Filled /\ DecoderFilled
      /\ pc \in [Threads -> Labels] /\ hand \in [Threads -> Batches \cup {0}]
      /\ frames \in [Batches -> Seq(Nat)] /\ "free" \in QueueNames
      /\ resume \in [Threads -> {"close", "finish", "cleanup", "recycleBroken", "reap", "done"}]
  BY DEF IInv, TypeOK, LabelsOK, DataOK, Filled, DecoderFilled, QueueNames
<1>1. ASSUME NEW t \in Threads, t # Decoder, OnlyInHand(t), hand'[Decoder] = hand[Decoder],
             pc'[Decoder] = pc[Decoder] \/ pc'[Decoder] = "pop"
      PROVE  DecoderFilled'
  BY <1>0, <1>1, HandsKeep DEF Holding, DecoderFilled
<1>2. CASE DecoderNext
  <2>1. CASE DecoderPop
    <3>1. PopBatch(Decoder, "free") => frames[hand'[Decoder]] = <<>>
      BY <1>0, AfterPop DEF Filled
    <3> QED BY <1>0, <2>1, <3>1 DEF DecoderPop, Goto, DecoderFilled
  <2>2. CASE DecoderCheck
    BY <1>0, <2>2 DEF DecoderCheck, Fail, Drop, Goto, DecoderFilled
  <2>3. CASE DecoderFill
    <3>1. /\ (decoded' - decoded = 0) <=> (frames'[hand[Decoder]] = <<>>)
          /\ pc'[Decoder] = IF decoded' - decoded = 0 THEN "giveBack" ELSE "push"
      BY <1>0, <2>3, FillsBlock
    <3>2. hand' = hand
      BY <2>3 DEF DecoderFill
    <3> QED BY <3>1, <3>2 DEF DecoderFilled
  <2>4. CASE ~(DecoderPop \/ DecoderCheck \/ DecoderFill)
    <3>1. pc'[Decoder] \notin {"check", "fill", "giveBack", "push"}
      BY <1>0, <1>2, <2>4 DEF DecoderNext, DecoderReadFails, DecoderGiveBack, DecoderPush, DecoderClose,
           HwFail, SetFailed, CloseStep, Goto, Fail, IInv, Failing, CloseLabels, FailLabels
    <3> QED BY <3>1 DEF DecoderFilled
  <2> QED BY <2>1, <2>2, <2>3, <2>4
<1>3. ASSUME NEW w \in Workers, WorkerNext(w) PROVE DecoderFilled'
  BY <1>0, <1>1, <1>3, WorkerFrames, WorkerMoves DEF OnlyMoves, Keeps
<1>4. CASE MainNext
  <2>1. CASE Reap
    BY <2>1, ReapsNobody DEF DecoderFilled
  <2>2. CASE ~Reap
    BY <1>0, <1>1, <1>4, <2>2, MainFrames, MainMoves DEF Starts
  <2> QED BY <2>1, <2>2
<1>5. CASE UNCHANGED vars
  BY <1>0, <1>5 DEF vars, DecoderFilled
<1> QED BY <1>2, <1>3, <1>4, <1>5, StepOf

LEMMA WorkersFilledStep ==
  ASSUME IInv, [Next]_vars, NEW v \in Workers
  PROVE  WorkerFilled(v)'
<1> USE Apart
<1>0. /\ TypeOK /\ Owned /\ Judged /\ Holding /\ Filled /\ WorkerFilled(v)
      /\ hand \in [Threads -> Batches \cup {0}] /\ "decoded" \in QueueNames
      /\ frames \in [Batches -> Seq(Nat)]
  BY DEF IInv, TypeOK, DataOK, Filled, WorkerFilled, QueueNames
<1>1. ASSUME NEW t \in Threads, t # v, OnlyInHand(t), hand'[v] = hand[v]
      PROVE  WorkerFilled(v)'
  BY <1>0, <1>1, HandsKeep DEF WorkerFilled
<1>2. CASE DecoderNext
  BY <1>0, <1>1, <1>2, DecoderFrames, DecoderMoves DEF OnlyMoves, Keeps
<1>3. CASE WorkerNext(v)
  <2>1. CASE WorkerPop(v)
    <3>1. PopBatch(v, "decoded") => frames[hand'[v]] # <<>>
      BY <1>0, AfterPop DEF Filled
    <3> QED BY <1>0, <2>1, <3>1 DEF WorkerPop, WorkerFilled
  <2>2. CASE ~WorkerPop(v)
    <3>1. hand'[v] = 0 \/ (hand'[v] = hand[v] /\ frames' = frames)
      BY <1>0, <1>3, <2>2 DEF WorkerNext, WorkerCheck, WorkerInfer, WorkerPush, Abandon, PushBatch, Drop,
         WorkerRefused, WorkerFinish, WorkerClose, HwFail, SetFailed, CloseStep
    <3> QED BY <1>0, <3>1 DEF WorkerFilled
  <2> QED BY <2>1, <2>2
<1>4. ASSUME NEW w \in Workers, w # v, WorkerNext(w) PROVE WorkerFilled(v)'
  BY <1>0, <1>1, <1>4, WorkerFrames, WorkerMoves DEF OnlyMoves, Keeps
<1>5. CASE MainNext
  <2>1. CASE Reap
    BY <2>1, ReapsNobody DEF WorkerFilled
  <2>2. CASE ~Reap
    BY <1>0, <1>1, <1>5, <2>2, MainFrames, MainMoves
  <2> QED BY <2>1, <2>2
<1>6. CASE UNCHANGED vars
  BY <1>0, <1>6 DEF vars, WorkerFilled
<1> QED BY <1>2, <1>3, <1>4, <1>5, <1>6, StepOf

LEMMA MainFilledStep ==
  ASSUME IInv, [Next]_vars
  PROVE  MainFilled'
<1> USE Apart
<1>0. /\ TypeOK /\ Owned /\ Judged /\ Holding /\ Filled /\ MainFilled
      /\ pc \in [Threads -> Labels] /\ hand \in [Threads -> Batches \cup {0}]
      /\ frames \in [Batches -> Seq(Nat)] /\ "completed" \in QueueNames /\ pending \subseteq Batches
      /\ resume \in [Threads -> {"close", "finish", "cleanup", "recycleBroken", "reap", "done"}]
  BY DEF IInv, TypeOK, LabelsOK, DataOK, Filled, MainFilled, QueueNames
<1>1. ASSUME NEW t \in Threads, t # Main, OnlyInHand(t), hand'[Main] = hand[Main],
             pc'[Main] = pc[Main]
      PROVE  MainFilled'
  BY <1>0, <1>1, HandsKeep DEF Holding, MainFilled
<1>2. CASE DecoderNext
  BY <1>0, <1>1, <1>2, DecoderFrames, DecoderMoves DEF OnlyMoves, Keeps
<1>3. ASSUME NEW w \in Workers, WorkerNext(w) PROVE MainFilled'
  BY <1>0, <1>1, <1>3, WorkerFrames, WorkerMoves DEF OnlyMoves, Keeps
<1>4. CASE MainNext
  <2>1. CASE MainPop
    <3>1. PopBatch(Main, "completed") => frames[hand'[Main]] # <<>>
      BY <1>0, AfterPop DEF Filled
    <3> QED BY <1>0, <2>1, <3>1 DEF MainPop, Goto, MainFilled
  <2>2. CASE OutputOrdered \/ OutputFrame \/ TakePending
    BY <1>0, <2>2 DEF OutputOrdered, OutputFrame, TakePending, Goto, Fail, MainFilled, Filled
  <2>3. CASE Recycle
    <3>1. hand[Main] \in Batches
      BY <1>0, <2>3 DEF Recycle, Holding
    <3> QED BY <1>0, <2>3, <3>1 DEF Recycle, Release, Drop, Goto, MainFilled
  <2>4. CASE ~(MainPop \/ OutputOrdered \/ OutputFrame \/ TakePending \/ Recycle)
    <3>1. pc'[Main] \notin {"order", "output", "recycle", "free"}
      BY <1>0, <1>4, <2>4 DEF MainNext, CreateDecoder, CreateWorkers, CreateFails, FreeBatch, RecycleBroken,
           Judge, Finish, Cleanup, Reap, HwFail, SetFailed, CloseStep, Goto, Fail, IInv, Failing,
           CloseLabels, FailLabels
    <3> QED BY <3>1 DEF MainFilled
  <2> QED BY <2>1, <2>2, <2>3, <2>4
<1>5. CASE UNCHANGED vars
  BY <1>0, <1>5 DEF vars, MainFilled
<1> QED BY <1>2, <1>3, <1>4, <1>5, StepOf

LEMMA FilledStep ==
  ASSUME IInv, [Next]_vars
  PROVE  Filled'
<1>1. QueuesFilled' /\ DecoderFilled' /\ MainFilled'
  BY QueuesFilledStep, DecoderFilledStep, MainFilledStep
<1>2. \A w \in Workers : WorkerFilled(w)'
  BY WorkersFilledStep
<1> QED BY <1>1, <1>2 DEF Filled, QueuesFilled, DecoderFilled, WorkerFilled, MainFilled

-----------------------------------------------------------------------------
(* How a run without failure ends.                                         *)

(* Who closes a queue, unless something has failed. *)
LEMMA Closes ==
  ASSUME IInv, [Next]_vars, ~failed'
  PROVE  /\ ~failed /\ "free" \notin closed
         /\ "decoded" \in closed' => "decoded" \in closed \/ DecoderClose
         /\ "completed" \in closed' => "completed" \in closed \/ \E w \in Workers : WorkerClose(w)
         /\ \A t \in Threads : pc[t] \notin FailLabels \/ (pc'[t] = pc[t] /\ pc[t] = "fail")
<1> USE Apart
<1>0. TypeOK /\ Judged /\ Failing /\ ~failed
  BY Onward DEF IInv
<1>1. \A t \in Threads : pc[t] \notin CloseLabels
  BY <1>0 DEF Failing
<1>2. \A t \in Threads : ~HwFail(t)
  BY <1>1 DEF HwFail, SetFailed, CloseStep, CloseLabels
<1>3. /\ "decoded" \in closed' => "decoded" \in closed \/ DecoderClose
      /\ "completed" \in closed' => "completed" \in closed \/ \E w \in Workers : WorkerClose(w)
  <2>1. CASE DecoderNext
    BY <1>2, <2>1 DEF DecoderNext, DecoderPop, DecoderCheck, DecoderFill, DecoderReadFails,
         DecoderGiveBack, DecoderPush, DecoderClose, CloseStep, shared
  <2>2. ASSUME NEW w \in Workers, WorkerNext(w)
        PROVE  /\ "decoded" \in closed' => "decoded" \in closed
               /\ "completed" \in closed' => "completed" \in closed \/ WorkerClose(w)
    BY <1>2, <2>2 DEF WorkerNext, WorkerPop, WorkerCheck, WorkerInfer, WorkerPush,
         WorkerRefused, WorkerFinish, WorkerClose, CloseStep, shared
  <2>3. CASE MainNext
    BY <1>2, <2>3 DEF MainNext, CreateDecoder, CreateWorkers, MainPop, OutputOrdered, OutputFrame,
         Recycle, FreeBatch, TakePending, RecycleBroken, Judge, Finish, Cleanup, Reap, MainKeeps, shared
  <2>4. CASE UNCHANGED vars
    BY <2>4 DEF vars, shared
  <2> QED BY <2>1, <2>2, <2>3, <2>4, StepOf
<1>4. ASSUME NEW t \in Threads, pc[t] = "fail" PROVE pc'[t] = pc[t]
  <2>1. CASE DecoderNext
    <3>1. t # Decoder
      BY <1>2, <1>4, <2>1 DEF DecoderNext, DecoderPop, DecoderCheck, DecoderFill, DecoderReadFails,
         DecoderGiveBack, DecoderPush, DecoderClose, CloseStep
    <3> QED BY <1>0, <2>1, <3>1, DecoderMoves DEF OnlyMoves, Keeps
  <2>2. ASSUME NEW w \in Workers, WorkerNext(w) PROVE pc'[t] = pc[t]
    <3>1. t # w
      BY <1>2, <1>4, <2>2 DEF WorkerNext, WorkerPop, WorkerCheck, WorkerInfer, WorkerPush,
         WorkerRefused, WorkerFinish, WorkerClose, CloseStep
    <3> QED BY <1>0, <2>2, <3>1, WorkerMoves DEF OnlyMoves, Keeps
  <2>3. CASE MainNext
    <3>1. t # Main
      BY <1>2, <1>4, <2>3 DEF MainNext, CreateDecoder, CreateWorkers, MainPop, OutputOrdered, OutputFrame,
         Recycle, FreeBatch, TakePending, RecycleBroken, Judge, Finish, Cleanup, Reap
    <3> QED BY <1>0, <1>4, <2>3, <3>1, MainMoves DEF Starts
  <2>4. CASE UNCHANGED vars
    BY <2>4 DEF vars
  <2> QED BY <2>1, <2>2, <2>3, <2>4, StepOf
<1>5. "free" \notin closed
  BY <1>0 DEF Failing
<1> QED BY <1>0, <1>1, <1>3, <1>4, <1>5 DEF FailLabels

(* A queue that is closed and empty stays empty. *)
LEMMA EmptyStays ==
  ASSUME IInv, [Next]_vars, NEW q \in QueueNames, q \in closed, queue[q] = <<>>
  PROVE  queue'[q] = <<>>
<1> PICK t \in Threads : Moves(t)
  BY SomeoneMoves
<1>0. queue \in [QueueNames -> Seq(Batches)]
  BY DEF IInv, TypeOK, DataOK
<1> QED BY <1>0 DEF Moves, Nothing, Pops, Pushes, Loses, KeepsForLater, TakesBack, Empties,
      PopBatch, PushBatch

DecoderEnds == /\ pc[Decoder] = "giveBack" => decoded = Total
               /\ pc[Decoder] = "push" /\ atEnd => decoded = Total
               /\ ~failed /\ pc[Decoder] \in {"close", "done"} => decoded = Total
               /\ ~failed /\ "decoded" \in closed => pc[Decoder] = "done"

(* The decoder stops at max_frames with all of Total decoded. *)
LEMMA LimitIsTotal ==
  ASSUME TypeOK, LimitReached
  PROVE  decoded = Total
BY DetectionAssumption DEF TypeOK, DataOK, LimitReached, Total

LEMMA DecoderEndsStep ==
  ASSUME IInv, [Next]_vars
  PROVE  DecoderEnds'
<1> USE Apart
<1>0. /\ TypeOK /\ Judged /\ Failing /\ Holding /\ DecoderEnds /\ Total' = Total
      /\ pc \in [Threads -> Labels]
      /\ resume \in [Threads -> {"close", "finish", "cleanup", "recycleBroken", "reap", "done"}]
      /\ failed => failed'
  BY Onward DEF IInv, TypeOK, LabelsOK, Ending, DecoderEnds
<1>1. ASSUME pc'[Decoder] = pc[Decoder] \/ (pc[Decoder] = "none" /\ pc'[Decoder] = "pop"), UNCHANGED decoding,
             ~failed' => ~DecoderClose
      PROVE  DecoderEnds'
  BY <1>0, <1>1, Closes DEF DecoderEnds, decoding
<1>2. CASE DecoderNext
  <2>1. CASE DecoderFill
    <3>1. /\ pc'[Decoder] = IF decoded' - decoded = 0 THEN "giveBack" ELSE "push"
          /\ decoded' - decoded < BatchCapacity => decoded' = Total
          /\ atEnd' = (decoded' - decoded < BatchCapacity) /\ BatchCapacity \in Nat \ {0}
      BY <1>0, <2>1, FillsBlock, TotalInNat
    <3>2. pc'[Decoder] = "giveBack" => decoded' = Total'
      BY <1>0, <3>1
    <3>3. atEnd' => decoded' = Total'
      BY <1>0, <3>1
    <3>4. pc'[Decoder] \in {"giveBack", "push"}
      BY <3>1
    <3>5. closed' = closed /\ failed' = failed /\ pc[Decoder] = "fill"
      BY <2>1 DEF DecoderFill, shared
    <3> QED BY <1>0, <3>2, <3>3, <3>4, <3>5 DEF DecoderEnds
  <2>2. CASE DecoderClose
    BY <1>0, <2>2 DEF DecoderClose, CloseStep, Goto, DecoderEnds, decoding
  <2>3. CASE DecoderPop
    <3>1. UNCHANGED <<shared, decoding>>
      BY <2>3 DEF DecoderPop
    <3>2. pc'[Decoder] = "close" => decoded = Total \/ failed
      BY <1>0, <2>3, LimitIsTotal DEF DecoderPop, NoMoreBatches, Goto, Failing
    <3>3. pc[Decoder] = "pop" /\ pc'[Decoder] \in {"close", "check"}
      BY <1>0, <2>3 DEF DecoderPop, Goto
    <3> QED BY <1>0, <3>1, <3>2, <3>3 DEF DecoderEnds, shared, decoding
  <2>4. CASE DecoderCheck \/ DecoderReadFails
    BY <1>0, <2>4 DEF DecoderCheck, DecoderReadFails, Fail, Goto, DecoderEnds, shared, decoding
  <2>5. CASE DecoderGiveBack \/ DecoderPush
    BY <1>0, <2>5 DEF DecoderGiveBack, DecoderPush, Goto, DecoderEnds, shared, decoding
  <2>6. CASE HwFail(Decoder)
    <3>1. /\ UNCHANGED decoding /\ pc'[Decoder] \notin {"giveBack", "push"}
          /\ pc'[Decoder] = "closeFree" \/ pc[Decoder] \in CloseLabels
          /\ pc'[Decoder] = "closeFree" => failed'
      BY <1>0, <2>6 DEF HwFail, SetFailed, CloseStep, Goto, CloseLabels, FailLabels, Failing
    <3>2. failed'
      BY <1>0, <3>1 DEF Failing
    <3> QED BY <3>1, <3>2 DEF DecoderEnds
  <2> QED BY <1>2, <2>1, <2>2, <2>3, <2>4, <2>5, <2>6 DEF DecoderNext
<1>3. ASSUME NEW w \in Workers, WorkerNext(w) PROVE DecoderEnds'
  <2>1. pc'[Decoder] = pc[Decoder] /\ UNCHANGED decoding
    BY <1>0, <1>3, WorkerMoves DEF OnlyMoves, Keeps
  <2>2. ~DecoderClose
    <3>1. (pc'[Decoder] = "done" /\ pc[Decoder] = "close") \/ ~DecoderClose
      BY <1>0 DEF DecoderClose, CloseStep, Goto
    <3> QED BY <2>1, <3>1
  <2> QED BY <1>1, <2>1, <2>2
<1>4. CASE MainNext
  <2>1. UNCHANGED decoding /\ (pc'[Decoder] = pc[Decoder] \/ (pc[Decoder] = "none" /\ pc'[Decoder] = "pop"))
    BY <1>0, <1>4, MainMoves DEF Starts
  <2>2. ~DecoderClose
    <3>1. (pc'[Decoder] = "done" /\ pc[Decoder] = "close") \/ ~DecoderClose
      BY <1>0 DEF DecoderClose, CloseStep, Goto
    <3> QED BY <2>1, <3>1
  <2> QED BY <1>1, <2>1, <2>2
<1>5. CASE UNCHANGED vars
  BY <1>0, <1>5 DEF vars, shared, decoding, DecoderEnds
<1> QED BY <1>2, <1>3, <1>4, <1>5, StepOf

WorkersEnd == ~failed => /\ \A w \in Workers : pc[w] \in {"finish", "closing", "done"} =>
                               "decoded" \in closed /\ queue["decoded"] = <<>>
                         /\ "completed" \in closed => \A w \in Workers : pc[w] = "done"
MainEnds == ~failed /\ pc[Main] = "judge" => "completed" \in closed /\ queue["completed"] = <<>>

LEMMA WorkersEndStep ==
  ASSUME IInv, [Next]_vars
  PROVE  WorkersEnd'
<1> SUFFICES ASSUME ~failed' PROVE WorkersEnd'
  BY DEF WorkersEnd
<1> USE Apart
<1>0. /\ TypeOK /\ Judged /\ Failing /\ WorkersEnd /\ Counted /\ ~failed
      /\ pc \in [Threads -> Labels] /\ closed \subseteq closed'
      /\ "decoded" \in QueueNames
  BY Closes, Onward DEF IInv, TypeOK, LabelsOK, Ending, WorkersEnd, QueueNames
<1>1. "decoded" \in closed /\ queue["decoded"] = <<>> => "decoded" \in closed' /\ queue'["decoded"] = <<>>
  BY <1>0, EmptyStays
<1>2. ASSUME NEW v \in Workers, pc'[v] \in {"finish", "closing", "done"}
      PROVE  "decoded" \in closed' /\ queue'["decoded"] = <<>>
  <2>1. CASE pc[v] \in {"finish", "closing", "done"}
    BY <1>0, <1>1, <2>1 DEF WorkersEnd
  <2>2. CASE pc[v] \notin {"finish", "closing", "done"}
    <3>1. ~DecoderNext /\ ~UNCHANGED vars
      BY <1>0, <1>2, <2>2, DecoderMoves DEF OnlyMoves, Keeps, vars
    <3>2. ~MainNext
      BY <1>0, <1>2, <2>2, MainMoves DEF Starts
    <3>3. \A w \in Workers : w # v => ~WorkerNext(w)
      BY <1>0, <1>2, <2>2, WorkerMoves DEF OnlyMoves, Keeps
    <3>4. WorkerNext(v)
      BY <3>1, <3>2, <3>3, StepOf
    <3>5. NoMoreBatches("decoded")
      BY <1>0, <1>2, <2>2, <3>4 DEF WorkerNext, WorkerPop, WorkerCheck, WorkerInfer, WorkerPush, Abandon,
         WorkerRefused, WorkerFinish, WorkerClose, HwFail, SetFailed, CloseStep, Goto, Fail, Failing, CloseLabels
    <3> QED BY <1>1, <3>5 DEF NoMoreBatches
  <2> QED BY <2>1, <2>2
<1>3. ASSUME "completed" \in closed', NEW v \in Workers PROVE pc'[v] = "done"
  <2>1. CASE "completed" \in closed
    <3>1. pc[v] = "done"
      BY <1>0, <2>1 DEF WorkersEnd
    <3>2. ~WorkerNext(v)
      BY <3>1 DEF WorkerNext, WorkerPop, WorkerCheck, WorkerInfer, WorkerPush,
         WorkerRefused, WorkerFinish, WorkerClose, HwFail, SetFailed, CloseStep
    <3>3. pc'[v] = pc[v]
      <4>1. CASE DecoderNext
        BY <1>0, <4>1, DecoderMoves DEF OnlyMoves, Keeps
      <4>2. ASSUME NEW w \in Workers, WorkerNext(w) PROVE pc'[v] = pc[v]
        BY <1>0, <3>2, <4>2, WorkerMoves DEF OnlyMoves, Keeps
      <4>3. CASE MainNext
        BY <1>0, <3>1, <4>3, MainMoves DEF Starts
      <4> QED BY <4>1, <4>2, <4>3, StepOf DEF vars
    <3> QED BY <3>1, <3>3
  <2>2. CASE "completed" \notin closed
    <3>1. PICK w \in Workers : WorkerClose(w)
      BY <1>3, <2>2, Closes
    <3>2. pc[w] = "closing" /\ pc' = [pc EXCEPT ![w] = "done"]
      BY <3>1 DEF WorkerClose, CloseStep, Goto
    <3>3. \A u \in Workers \ {w} : pc[u] = "done"
      BY <1>0, <3>2 DEF Counted
    <3> QED BY <1>0, <3>2, <3>3
  <2> QED BY <2>1, <2>2
<1> QED BY <1>2, <1>3 DEF WorkersEnd

LEMMA MainEndsStep ==
  ASSUME IInv, [Next]_vars
  PROVE  MainEnds'
<1> SUFFICES ASSUME ~failed', pc'[Main] = "judge" PROVE "completed" \in closed' /\ queue'["completed"] = <<>>
  BY DEF MainEnds
<1> USE Apart
<1>0. /\ TypeOK /\ Judged /\ Failing /\ MainEnds /\ ~failed
      /\ pc \in [Threads -> Labels] /\ closed \subseteq closed'
      /\ "completed" \in QueueNames
  BY Closes, Onward DEF IInv, TypeOK, LabelsOK, Ending, MainEnds, QueueNames
<1>1. "completed" \in closed /\ queue["completed"] = <<>> => "completed" \in closed' /\ queue'["completed"] = <<>>
  BY <1>0, EmptyStays
<1>2. CASE pc[Main] = "judge"
  BY <1>0, <1>1, <1>2 DEF MainEnds
<1>3. CASE pc[Main] # "judge"
  <2>1. ~DecoderNext /\ ~UNCHANGED vars
    BY <1>0, <1>3, DecoderMoves DEF OnlyMoves, Keeps, vars
  <2>2. \A w \in Workers : ~WorkerNext(w)
    BY <1>0, <1>3, WorkerMoves DEF OnlyMoves, Keeps
  <2>3. MainNext
    BY <2>1, <2>2, StepOf
  <2>4. NoMoreBatches("completed")
    BY <1>0, <1>3, <2>3 DEF MainNext, CreateDecoder, CreateWorkers, CreateFails, MainPop, OutputOrdered,
         OutputFrame, Recycle, FreeBatch, TakePending, RecycleBroken, Judge, Finish, Cleanup, Reap,
         HwFail, SetFailed, CloseStep, Goto, Fail, Failing, FailLabels, CloseLabels
  <2> QED BY <1>1, <2>4 DEF NoMoreBatches
<1> QED BY <1>2, <1>3

LEMMA EndingStep ==
  ASSUME IInv, [Next]_vars
  PROVE  Ending'
<1>1. DecoderEnds' /\ WorkersEnd' /\ MainEnds'
  BY DecoderEndsStep, WorkersEndStep, MainEndsStep
<1> QED BY <1>1 DEF Ending, DecoderEnds, WorkersEnd, MainEnds

-----------------------------------------------------------------------------
(* Blocks of frames.                                                       *)

(* A batch with frames has a first one. *)
LEMMA Filledness ==
  ASSUME TypeOK, NEW b \in Batches, frames[b] # <<>>
  PROVE  /\ FirstOf(b) \in Nat /\ Len(frames[b]) \in Nat \ {0}
         /\ After(b) \in Nat /\ FirstOf(b) < After(b)
<1>1. frames[b] \in Seq(Nat)
  BY DEF TypeOK, DataOK
<1>2. Head(frames[b]) \in Nat /\ Len(frames[b]) \in Nat \ {0}
  BY <1>1, EmptySeq, HeadTailProperties
<1> QED BY <1>2 DEF FirstOf, After

LEMMA BlocksStep ==
  ASSUME IInv, [Next]_vars
  PROVE  Blocks'
<1>0. TypeOK /\ Holding /\ Blocks /\ Judged /\ decoded \in Nat
  BY TotalInNat DEF IInv, TypeOK, DataOK
<1>1. CASE OnlyReleases /\ UNCHANGED decoding
  <2>1. \A b \in Batches : frames'[b] # <<>> =>
            frames[b] # <<>> /\ frames'[b] = frames[b] /\ FirstOf(b)' = FirstOf(b) /\ After(b)' = After(b)
    BY <1>1 DEF OnlyReleases, FirstOf, After
  <2> QED BY <1>0, <1>1, <2>1 DEF Blocks, decoding
<1>2. CASE DecoderFill
  <2> PICK b : b = hand[Decoder]
    OBVIOUS
  <2> PICK room : room = decoded' - decoded
    OBVIOUS
  <2>1. /\ b \in Batches /\ room \in Nat /\ decoded' = decoded + room /\ decoded' \in Nat
        /\ Len(frames'[b]) = room
        /\ \A i \in 1 .. room : frames'[b][i] = decoded + i - 1
        /\ \A c \in Batches \ {b} : frames'[c] = frames[c]
        /\ room = 0 <=> frames'[b] = <<>>
        /\ room > 0 => Head(frames'[b]) = decoded
    BY <1>0, <1>2, FillsBlock, TotalInNat
  <2>2. frames'[b] # <<>> => FirstOf(b)' = decoded /\ After(b)' = decoded'
    BY <2>1 DEF FirstOf, After
  <2>3. \A c \in Batches \ {b} : frames'[c] = frames[c] /\ FirstOf(c)' = FirstOf(c) /\ After(c)' = After(c)
    BY <2>1 DEF FirstOf, After
  <2>4. \A c \in Batches : frames[c] # <<>> => After(c) \in Nat /\ After(c) <= decoded
    BY <1>0, Filledness DEF Blocks
  <2>5. ASSUME NEW c \in Batches, frames'[c] # <<>>
        PROVE  /\ After(c)' <= decoded'
               /\ \A i \in 1 .. Len(frames'[c]) : frames'[c][i] = FirstOf(c)' + i - 1
    <3>1. CASE c = b
      BY <2>1, <2>2, <2>5, <3>1
    <3>2. CASE c # b
      <4>1. After(c)' = After(c) /\ FirstOf(c)' = FirstOf(c) /\ frames'[c] = frames[c]
        BY <2>3, <3>2
      <4>2. After(c)' <= decoded'
        BY <1>0, <2>1, <2>4, <2>5, <4>1
      <4>3. \A i \in 1 .. Len(frames[c]) : frames[c][i] = FirstOf(c) + i - 1
        BY <1>0, <2>5, <4>1 DEF Blocks
      <4> QED BY <4>1, <4>2, <4>3
    <3> QED BY <3>1, <3>2
  <2>6. ASSUME NEW c \in Batches, NEW d \in Batches, c # d, frames'[c] # <<>>, frames'[d] # <<>>
        PROVE  After(c)' <= FirstOf(d)' \/ After(d)' <= FirstOf(c)'
    <3>1. CASE c = b
      BY <2>1, <2>2, <2>3, <2>4, <2>6, <3>1
    <3>2. CASE d = b
      BY <2>1, <2>2, <2>3, <2>4, <2>6, <3>2
    <3>3. CASE c # b /\ d # b
      BY <1>0, <2>3, <2>6, <3>3 DEF Blocks
    <3> QED BY <3>1, <3>2, <3>3
  <2> QED BY <2>5, <2>6 DEF Blocks
<1>3. (OnlyReleases /\ UNCHANGED decoding) \/ DecoderFill
  <2>1. CASE DecoderNext
    BY <2>1, DecoderFrames
  <2>2. ASSUME NEW w \in Workers, WorkerNext(w) PROVE OnlyReleases /\ UNCHANGED decoding
    BY <1>0, <2>2, WorkerFrames, WorkerMoves
  <2>3. CASE MainNext
    BY <1>0, <2>3, MainFrames, MainMoves
  <2>4. CASE UNCHANGED vars
    BY <2>4 DEF vars, OnlyReleases
  <2> QED BY <2>1, <2>2, <2>3, <2>4, StepOf
<1> QED BY <1>1, <1>2, <1>3

(* The last frame of a batch is written. *)
LastOutput == OutputFrame /\ pc'[Main] = "recycle"

LEMMA LastOutputIs ==
  ASSUME IInv, LastOutput
  PROVE  /\ pc[Main] = "output" /\ hand' = hand /\ frames' = frames /\ decoded' = decoded
         /\ next' = After(hand[Main]) /\ FirstOf(hand[Main]) = next /\ hand[Main] \in Live
         /\ \A s \in Stages : pc'[s] = pc[s]
         /\ failed' = failed
<1>1. pc[Main] = "output" /\ pc \in [Threads -> Labels]
  BY DEF LastOutput, OutputFrame, IInv, TypeOK, LabelsOK
<1>2. hand[Main] \in Batches /\ frames[hand[Main]] # <<>> /\ FirstOf(hand[Main]) = next
  BY <1>1, AtOutput
<1>3. /\ hand' = hand /\ frames' = frames /\ decoded' = decoded /\ failed' = failed
      /\ \E l : pc' = [pc EXCEPT ![Main] = l]
      /\ next' = next + Len(frames[hand[Main]])
  BY <1>1, Apart DEF LastOutput, OutputFrame, Goto, Fail, MainKeeps, shared, decoding
<1>4. \A s \in Stages : pc'[s] = pc[s]
  BY <1>1, <1>3, Apart
<1> QED BY <1>1, <1>2, <1>3, <1>4 DEF Live, After

(* Only the decoder's fill and the end of a batch change what is to come, until     *)
(* something fails; and a failure only takes batches away.                           *)
LEMMA LiveStays ==
  ASSUME IInv, [Next]_vars, ~DecoderFill, ~LastOutput
  PROVE  /\ next' = next /\ decoded' = decoded
         /\ Live' \subseteq Live
         /\ \A b \in Live' : frames'[b] = frames[b]
         /\ Unfailed' /\ pc'[Main] # "done" => /\ Unfailed /\ pc[Main] # "done"
                                               /\ Live \subseteq Live'
<1> USE Apart
<1>0. /\ TypeOK /\ Judged /\ Failing /\ Holding /\ Filled /\ Ending /\ Owned
      /\ pc \in [Threads -> Labels] /\ hand \in [Threads -> Batches \cup {0}]
      /\ frames \in [Batches -> Seq(Nat)]
      /\ resume \in [Threads -> {"close", "finish", "cleanup", "recycleBroken", "reap", "done"}]
  BY DEF IInv, TypeOK, LabelsOK, DataOK
<1>1. ASSUME NEW t \in Stages, OnlyMoves(t), UNCHANGED <<output, decoding>>, OnlyReleases, OnlyInHand(t),
             \/ frames' = frames
             \/ hand[t] # 0 /\ frames[hand[t]] = <<>>
             \/ failed
             \/ pc'[t] = "fail"
             \/ failed'
      PROVE  /\ next' = next /\ decoded' = decoded
             /\ Live' \subseteq Live
             /\ \A b \in Live' : frames'[b] = frames[b]
             /\ Unfailed' /\ pc'[Main] # "done" => /\ pc[Main] # "done"
                                                   /\ Live \subseteq Live'
  <2>1. pc'[Main] = pc[Main] /\ hand'[Main] = hand[Main]
    BY <1>1 DEF OnlyMoves, Keeps
  <2>2. UNCHANGED <<next, decoded>>
    BY <1>1 DEF output, decoding
  <2>3. Live' \subseteq Live /\ \A b \in Live' : frames'[b] = frames[b]
    BY <1>1, <2>1 DEF Live, OnlyReleases
  <2>4. Unfailed' => Live \subseteq Live'
    <3>1. CASE frames' = frames
      BY <2>1, <3>1 DEF Live
    <3>2. CASE hand[t] # 0 /\ frames[hand[t]] = <<>>
      BY <1>1, <2>1, <3>2 DEF Live, OnlyInHand
    <3>3. CASE failed \/ failed'
      BY <3>3, Onward DEF Unfailed
    <3>4. CASE pc'[t] = "fail"
      BY <3>4 DEF Unfailed
    <3> QED BY <1>1, <3>1, <3>2, <3>3, <3>4
  <2> QED BY <2>1, <2>2, <2>3, <2>4
<1>2. Unfailed' => Unfailed
  BY Onward DEF Unfailed
<1>3. CASE DecoderNext
  <2>1. \/ frames' = frames
        \/ hand[Decoder] # 0 /\ frames[hand[Decoder]] = <<>>
        \/ failed
    BY <1>0, <1>3 DEF DecoderNext, DecoderPop, DecoderCheck, DecoderReadFails, DecoderGiveBack,
         DecoderPush, DecoderClose, HwFail, SetFailed, CloseStep, Holding, Filled, Ending
  <2> QED BY <1>0, <1>1, <1>2, <1>3, <2>1, DecoderMoves, DecoderFrames
<1>4. ASSUME NEW w \in Workers, WorkerNext(w)
      PROVE  /\ next' = next /\ decoded' = decoded
             /\ Live' \subseteq Live
             /\ \A b \in Live' : frames'[b] = frames[b]
             /\ Unfailed' /\ pc'[Main] # "done" => /\ pc[Main] # "done"
                                                   /\ Live \subseteq Live'
  <2>1. frames' = frames \/ failed \/ pc'[w] = "fail"
    BY <1>0, <1>4 DEF WorkerNext, WorkerPop, WorkerCheck, WorkerInfer, WorkerPush, Abandon, Goto, Fail,
         WorkerRefused, WorkerFinish, WorkerClose, HwFail, SetFailed, CloseStep, Ending
  <2> QED BY <1>0, <1>1, <1>4, <2>1, WorkerMoves, WorkerFrames
<1>5. CASE MainNext
  <2>1. next' = next /\ decoded' = decoded
    <3>1. next' = next \/ (OutputFrame /\ pc'[Main] = "recycle")
      BY <1>0, <1>5 DEF MainNext, CreateDecoder, CreateWorkers, MainPop, OutputOrdered, OutputFrame, Goto,
         Recycle, FreeBatch, TakePending, RecycleBroken, Judge, Finish, Cleanup, Reap,
         HwFail, SetFailed, CloseStep, output
    <3> QED BY <1>0, <1>5, <3>1, MainMoves DEF LastOutput, decoding
  <2>2. OnlyReleases
    BY <1>5, MainFrames
  <2>3. pc[Main] = "recycle" => Recycle
    BY <1>5 DEF MainNext, CreateDecoder, CreateWorkers, MainPop, OutputOrdered, OutputFrame, Goto,
         FreeBatch, TakePending, RecycleBroken, Judge, Finish, Cleanup, Reap,
         HwFail, SetFailed, CloseStep
  <2>4. Recycle => hand[Main] \in Batches /\ frames'[hand[Main]] = <<>>
    BY <1>0 DEF Recycle, Release, Holding
  <2>5. Live' \subseteq Live /\ \A b \in Live' : frames'[b] = frames[b]
    BY <2>2, <2>3, <2>4 DEF Live, OnlyReleases
  <2>6. pc'[Main] # "recycle"
    BY <1>0, <1>5 DEF MainNext, CreateDecoder, CreateWorkers, CreateFails, MainPop, OutputOrdered, OutputFrame, Goto, Fail,
         Recycle, FreeBatch, TakePending, RecycleBroken, Judge, Finish, Cleanup, Reap,
         HwFail, SetFailed, CloseStep, LastOutput, CloseLabels, FailLabels, Failing
  <2>7. pc[Main] # "done"
    BY <1>0, <1>5 DEF MainNext, CreateDecoder, CreateWorkers, CreateFails, MainPop, OutputOrdered, OutputFrame,
         Recycle, FreeBatch, TakePending, RecycleBroken, Judge, Finish, Cleanup, Reap,
         HwFail, SetFailed, CloseStep
  <2>8. ASSUME Unfailed', pc'[Main] # "done" PROVE Live \subseteq Live'
    <3>1. CASE Recycle
      <4>1. \A b \in Batches : b # hand[Main] => frames'[b] = frames[b]
        BY <1>0, <3>1 DEF Recycle, Release
      <4>2. pc[Main] = "recycle"
        BY <3>1 DEF Recycle
      <4> QED BY <2>6, <4>1, <4>2 DEF Live
    <3>2. CASE RecycleBroken
      BY <1>0, <1>2, <2>8, <3>2 DEF RecycleBroken, Failing, Unfailed
    <3>3. CASE Reap
      BY <1>0, <2>8, <3>3 DEF Reap, Goto
    <3>4. CASE ~(Recycle \/ RecycleBroken \/ Reap)
      <4>1. frames' = frames
        BY <1>5, <3>4 DEF MainNext, CreateDecoder, CreateWorkers, MainPop, OutputOrdered, OutputFrame,
         FreeBatch, TakePending, Judge, Finish, Cleanup, HwFail, SetFailed, CloseStep
      <4> QED BY <2>6, <4>1 DEF Live
    <3> QED BY <3>1, <3>2, <3>3, <3>4
  <2> QED BY <1>2, <2>1, <2>5, <2>7, <2>8
<1>6. CASE UNCHANGED vars
  BY <1>2, <1>6 DEF vars, shared, output, decoding, Live
<1> QED BY <1>2, <1>3, <1>4, <1>5, <1>6, StepOf

(* The fill adds one batch to those that are to come. *)
LEMMA LiveFill ==
  ASSUME IInv, DecoderFill, NEW b, b = hand[Decoder]
  PROVE  /\ b \in Batches /\ b \notin Live /\ next' = next
         /\ pc'[Main] = pc[Main] /\ hand' = hand
         /\ decoded' \in Nat /\ decoded \in Nat /\ decoded <= decoded'
         /\ \A c \in Live : frames'[c] = frames[c] /\ FirstOf(c)' = FirstOf(c) /\ After(c)' = After(c)
         /\ IF decoded' = decoded THEN Live' = Live
            ELSE Live' = Live \cup {b} /\ FirstOf(b)' = decoded /\ After(b)' = decoded'
         /\ Unfailed' <=> Unfailed
<1> USE Apart
<1>1. /\ TypeOK /\ Holding /\ Filled /\ Owned /\ pc \in [Threads -> Labels]
      /\ hand[Decoder] # 0
  BY DEF IInv, TypeOK, LabelsOK, DecoderFill, Holding
<1>2. PICK room : room = decoded' - decoded
  OBVIOUS
<1>3. room \in Nat /\ decoded' = decoded + room /\ decoded' \in Nat /\ decoded \in Nat
  <2>1. BatchCapacity \in Nat
    BY <1>1, TotalInNat
  <2> QED BY <1>1, <1>2, <2>1, FillsBlock
<1>4. decoded <= decoded' /\ (room # 0 => room > 0) /\ (room = 0 <=> decoded' = decoded)
  BY <1>3
<1>5. /\ b \in Batches
      /\ \A c \in Batches \ {b} : frames'[c] = frames[c]
      /\ pc'[Decoder] # "fail"
  BY <1>1, FillsBlock
<1>6. Len(frames'[b]) = room
  BY <1>1, <1>2, FillsBlock
<1>7. room # 0 <=> frames'[b] # <<>>
  BY <1>1, <1>2, FillsBlock
<1>8. room > 0 => Head(frames'[b]) = decoded
  BY <1>1, <1>2, FillsBlock
<1>9. frames[b] = <<>>
  BY <1>1 DEF DecoderFill, Filled
<1>10. hand' = hand /\ UNCHANGED <<next, shared>> /\ OnlyMoves(Decoder)
  BY <1>1, DecoderMoves DEF DecoderFill, DecoderNext, output
<1>11. pc'[Main] = pc[Main] /\ hand[Main] # b
  BY <1>1, <1>10 DEF OnlyMoves, Keeps, Owned
<1>12. b \notin Live
  BY <1>9 DEF Live
<1>13. Live' = IF room = 0 THEN Live ELSE Live \cup {b}
  BY <1>5, <1>7, <1>9, <1>10, <1>11 DEF Live
<1>14. \A c \in Live : frames'[c] = frames[c] /\ FirstOf(c)' = FirstOf(c) /\ After(c)' = After(c)
  BY <1>5, <1>12 DEF Live, FirstOf, After
<1>15. room # 0 => FirstOf(b)' = decoded /\ After(b)' = decoded'
  <2>1. room # 0 => FirstOf(b)' = decoded /\ After(b)' = decoded + room
    BY <1>4, <1>6, <1>8 DEF FirstOf, After
  <2> QED BY <1>3, <2>1
<1>16. Unfailed' <=> Unfailed
  <2>1. \A s \in Stages \ {Decoder} : pc'[s] = pc[s]
    BY <1>10 DEF OnlyMoves, Keeps
  <2>2. pc[Decoder] = "fill" /\ failed' = failed
    BY <1>10 DEF DecoderFill, shared
  <2> QED BY <1>5, <2>1, <2>2 DEF Unfailed
<1> QED BY <1>3, <1>4, <1>5, <1>10, <1>11, <1>12, <1>13, <1>14, <1>15, <1>16

(* What is live has frames, and they end later than they begin. *)
LEMMA LiveBlocks ==
  ASSUME IInv, NEW b \in Live
  PROVE  /\ b \in Batches /\ frames[b] # <<>>
         /\ FirstOf(b) \in Nat /\ After(b) \in Nat /\ FirstOf(b) < After(b)
         /\ next <= FirstOf(b) /\ next \in Nat /\ After(b) <= decoded /\ decoded \in Nat
<1>1. b \in Batches /\ frames[b] # <<>>
  BY DEF Live
<1>2. TypeOK /\ decoded \in Nat /\ next \in Nat
  BY TotalInNat DEF IInv, TypeOK, DataOK
<1>3. After(b) <= decoded
  BY <1>1 DEF IInv, Blocks
<1>4. FirstOf(b) >= next
  BY DEF IInv, StillToCome
<1> QED BY <1>1, <1>2, <1>3, <1>4, Filledness

LEMMA LiveLast ==
  ASSUME IInv, LastOutput
  PROVE  Live' = Live \ {hand[Main]}
<1>1. /\ pc[Main] = "output" /\ hand' = hand /\ frames' = frames /\ pc'[Main] = "recycle"
  BY LastOutputIs DEF LastOutput
<1> QED BY <1>1 DEF Live

LEMMA StillToComeStep ==
  ASSUME IInv, [Next]_vars
  PROVE  StillToCome'
<1>1. CASE DecoderFill
  <2> PICK b : b = hand[Decoder]
    OBVIOUS
  <2>1. next \in Nat /\ next <= decoded
    BY TotalInNat DEF IInv, TypeOK, DataOK
  <2>2. \A c \in Live' : FirstOf(c)' >= next
    BY <1>1, <2>1, LiveFill, LiveBlocks
  <2>3. next' = next
    BY <1>1, LiveFill
  <2> QED BY <2>2, <2>3 DEF StillToCome
<1>2. CASE LastOutput
  <2> PICK b : b = hand[Main]
    OBVIOUS
  <2>1. /\ b \in Live /\ FirstOf(b) = next /\ next' = After(b) /\ Live' = Live \ {b}
        /\ frames' = frames
    BY <1>2, LastOutputIs, LiveLast
  <2>2. ASSUME NEW c \in Live \ {b} PROVE After(b) <= FirstOf(c)
    <3>1. c \in Batches /\ b \in Batches /\ frames[c] # <<>> /\ frames[b] # <<>>
      BY <2>1, LiveBlocks
    <3>2. After(b) <= FirstOf(c) \/ After(c) <= FirstOf(b)
      BY <3>1, <2>2 DEF IInv, Blocks
    <3>3. next <= FirstOf(c) /\ FirstOf(c) < After(c) /\ FirstOf(c) \in Nat /\ After(c) \in Nat
          /\ next \in Nat /\ After(b) \in Nat
      BY <2>1, LiveBlocks
    <3> QED BY <2>1, <3>2, <3>3
  <2>3. \A c \in Live' : FirstOf(c)' = FirstOf(c)
    BY <2>1 DEF FirstOf
  <2>4. After(b) \in Nat /\ \A c \in Live : FirstOf(c) \in Nat
    BY <2>1, LiveBlocks
  <2> QED BY <2>1, <2>2, <2>3, <2>4 DEF StillToCome
<1>3. CASE ~DecoderFill /\ ~LastOutput
  <2>1. /\ next' = next /\ Live' \subseteq Live
        /\ \A b \in Live' : FirstOf(b)' = FirstOf(b)
    BY <1>3, LiveStays DEF FirstOf
  <2> QED BY <2>1 DEF StillToCome, IInv
<1> QED BY <1>1, <1>2, <1>3

LEMMA NoGapStep ==
  ASSUME IInv, [Next]_vars
  PROVE  NoGap'
<1> SUFFICES ASSUME Unfailed', pc'[Main] # "done"
             PROVE  /\ FollowedAt(next)'
                    /\ \A b \in Live' : FollowedAt(After(b))'
  BY DEF NoGap
<1>0. NoGap
  BY DEF IInv
<1>1. CASE DecoderFill
  <2> PICK b : b = hand[Decoder]
    OBVIOUS
  <2>1. /\ next' = next /\ pc'[Main] = pc[Main] /\ Unfailed
        /\ decoded' \in Nat /\ decoded \in Nat
        /\ \A c \in Live : FirstOf(c)' = FirstOf(c) /\ After(c)' = After(c)
        /\ IF decoded' = decoded THEN Live' = Live
            ELSE Live' = Live \cup {b} /\ FirstOf(b)' = decoded /\ After(b)' = decoded'
    BY <1>1, LiveFill
  <2>2. FollowedAt(next) /\ \A c \in Live : FollowedAt(After(c))
    BY <1>0, <2>1 DEF NoGap
  <2>3. ASSUME NEW n, FollowedAt(n) PROVE n = decoded' \/ \E c \in Live' : FirstOf(c)' = n
    BY <2>1, <2>3 DEF FollowedAt
  <2>4. \A c \in Live : After(c)' = decoded' \/ \E d \in Live' : FirstOf(d)' = After(c)'
    BY <2>1, <2>2, <2>3
  <2>5. \A c \in Live' : After(c)' = decoded' \/ \E d \in Live' : FirstOf(d)' = After(c)'
    BY <2>1, <2>4
  <2>6. next' = decoded' \/ \E c \in Live' : FirstOf(c)' = next'
    BY <2>1, <2>2, <2>3
  <2> QED BY <2>5, <2>6 DEF FollowedAt
<1>2. CASE LastOutput
  <2> PICK b : b = hand[Main]
    OBVIOUS
  <2>1. /\ b \in Live /\ FirstOf(b) = next /\ next' = After(b) /\ Live' = Live \ {b}
        /\ frames' = frames /\ decoded' = decoded /\ pc[Main] # "done" /\ failed' = failed
        /\ \A s \in Stages : pc'[s] = pc[s]
    BY <1>2, LastOutputIs, LiveLast
  <2>2. Unfailed
    BY <2>1 DEF Unfailed
  <2>3. \A c \in Live : FollowedAt(After(c))
    BY <1>0, <2>1, <2>2 DEF NoGap
  <2>4. \A c \in Live : FirstOf(c)' = FirstOf(c) /\ After(c)' = After(c)
    BY <2>1 DEF FirstOf, After
  <2>5. ASSUME NEW c \in Live PROVE After(c) = decoded' \/ \E d \in Live' : FirstOf(d)' = After(c)
    <3>1. CASE After(c) = decoded
      BY <2>1, <3>1
    <3>2. CASE After(c) # decoded
      <4>1. PICK d \in Live : FirstOf(d) = After(c)
        BY <2>3, <3>2 DEF FollowedAt
      <4>2. next <= FirstOf(c) /\ FirstOf(c) < After(c) /\ FirstOf(c) \in Nat /\ After(c) \in Nat
            /\ next \in Nat
        BY LiveBlocks
      <4>3. d # b
        BY <2>1, <4>1, <4>2
      <4> QED BY <2>1, <2>4, <4>1, <4>3
    <3> QED BY <3>1, <3>2
  <2>6. next' = decoded' \/ \E d \in Live' : FirstOf(d)' = next'
    BY <2>1, <2>5
  <2>7. \A c \in Live' : After(c)' = decoded' \/ \E d \in Live' : FirstOf(d)' = After(c)'
    BY <2>1, <2>4, <2>5
  <2> QED BY <2>6, <2>7 DEF FollowedAt
<1>3. CASE ~DecoderFill /\ ~LastOutput
  <2>1. /\ next' = next /\ decoded' = decoded /\ Live' = Live
        /\ \A b \in Live : FirstOf(b)' = FirstOf(b) /\ After(b)' = After(b)
        /\ Unfailed /\ pc[Main] # "done"
    BY <1>3, LiveStays DEF FirstOf, After
  <2>2. FollowedAt(next) /\ \A b \in Live : FollowedAt(After(b))
    BY <1>0, <2>1 DEF NoGap
  <2> QED BY <2>1, <2>2 DEF FollowedAt
<1> QED BY <1>1, <1>2, <1>3

(* Whose turn it is to be written: nobody's in the pending list. *)
LEMMA NoneMissedStep ==
  ASSUME IInv, [Next]_vars
  PROVE  NoneMissed'
<1> DEFINE Asking == {"createDecoder", "createWorkers", "pop", "order", "judge"}
<1> USE Apart
<1>0. /\ TypeOK /\ Owned /\ Judged /\ NoneMissed /\ Failing
      /\ pc \in [Threads -> Labels]
      /\ resume \in [Threads -> {"close", "finish", "cleanup", "recycleBroken", "reap", "done"}]
  BY DEF IInv, TypeOK, LabelsOK
<1>1. ASSUME NEW t \in Threads, OnlyInHand(t), next' = next, pending' = pending,
             pc'[Main] \in Asking => pc[Main] \in Asking
      PROVE  NoneMissed'
  <2>1. \A b \in pending : frames'[b] = frames[b]
    BY <1>1, QueuesKeep
  <2> QED BY <1>0, <1>1, <2>1 DEF NoneMissed, Turn
<1>2. CASE DecoderNext
  <2>1. pc'[Main] = pc[Main] /\ next' = next /\ pending' = pending
    BY <1>0, <1>2, DecoderMoves DEF OnlyMoves, Keeps, output
  <2> QED BY <1>1, <1>2, <2>1, DecoderFrames
<1>3. ASSUME NEW w \in Workers, WorkerNext(w) PROVE NoneMissed'
  <2>1. pc'[Main] = pc[Main] /\ next' = next /\ pending' = pending
    BY <1>0, <1>3, WorkerMoves DEF OnlyMoves, Keeps, output
  <2> QED BY <1>1, <1>3, <2>1, WorkerFrames
<1>4. CASE MainNext
  <2>1. CASE CreateDecoder \/ CreateWorkers \/ MainPop
    <3>1. /\ next' = next /\ pending' = pending /\ frames' = frames /\ pc[Main] \in Asking
      BY <2>1 DEF CreateDecoder, CreateWorkers, MainPop, output
    <3> QED BY <1>0, <3>1 DEF NoneMissed, Turn
  <2>2. CASE OutputOrdered
    <3>1. pc[Main] = "order" /\ next' = next /\ frames' = frames
      BY <2>2 DEF OutputOrdered
    <3>2. \A b \in pending : ~Turn(b)
      BY <1>0, <3>1 DEF NoneMissed
    <3>3. \A b \in pending' : ~Turn(b) \/ pc'[Main] \notin Asking
      BY <1>0, <2>2, <3>2 DEF OutputOrdered, Goto, Fail
    <3> QED BY <3>1, <3>3 DEF NoneMissed, Turn
  <2>3. CASE TakePending
    BY <1>0, <2>3 DEF TakePending, Goto, NoneMissed, Turn
  <2>4. CASE ~(CreateDecoder \/ CreateWorkers \/ MainPop \/ OutputOrdered \/ TakePending)
    <3>1. pc'[Main] \notin Asking
      BY <1>0, <1>4, <2>4 DEF MainNext, OutputFrame, Recycle, FreeBatch, RecycleBroken,
           Judge, Finish, Cleanup, Reap, HwFail, SetFailed, CloseStep, Goto, Fail, Failing,
           CloseLabels, FailLabels
    <3> QED BY <3>1 DEF NoneMissed
  <2> QED BY <2>1, <2>2, <2>3, <2>4
<1>5. CASE UNCHANGED vars
  BY <1>0, <1>5 DEF vars, output, NoneMissed, Turn
<1> QED BY <1>2, <1>3, <1>4, <1>5, StepOf

-----------------------------------------------------------------------------
(* The rows, and the return.                                               *)

AtRest == {"createDecoder", "createWorkers", "pop", "order", "recycle", "free",
           "take", "judge", "join"}

LEMMA RowsAppend ==
  ASSUME NEW r \in Seq(Nat), NEW n, n = Len(r), \A i \in 1 .. Len(r) : r[i] = i - 1
  PROVE  /\ Len(Append(r, n)) = Len(r) + 1
         /\ \A i \in 1 .. Len(Append(r, n)) : Append(r, n)[i] = i - 1
<1>1. n \in Nat /\ Len(r) \in Nat
  BY LenProperties
<1>2. /\ Len(Append(r, n)) = Len(r) + 1
      /\ \A i \in 1 .. Len(r) : Append(r, n)[i] = r[i]
      /\ Append(r, n)[Len(r) + 1] = n
  BY <1>1, AppendProperties
<1>3. ASSUME NEW i \in 1 .. Len(r) + 1 PROVE Append(r, n)[i] = i - 1
  <2>1. CASE i \in 1 .. Len(r)
    BY <1>2, <2>1
  <2>2. CASE i = Len(r) + 1
    BY <1>1, <1>2, <2>2
  <2> QED BY <1>1, <2>1, <2>2
<1> QED BY <1>2, <1>3

LEMMA OutputStep ==
  ASSUME IInv, OutputFrame
  PROVE  RowsInOrder'
<1> USE Apart
<1> PICK b : b = hand[Main]
  OBVIOUS
<1>0. /\ pc[Main] = "output" /\ pc \in [Threads -> Labels] /\ rows \in Seq(Nat)
      /\ \A i \in 1 .. Len(rows) : rows[i] = i - 1
      /\ hand' = hand /\ frames' = frames
  BY DEF IInv, TypeOK, LabelsOK, DataOK, RowsInOrder, OutputFrame
<1>1. /\ slot \in 1 .. Len(frames[b]) /\ Len(frames[b]) \in Nat \ {0}
      /\ frames[b][slot] = Len(rows) /\ Len(rows) \in Nat
      /\ Len(rows) = next + slot - 1 /\ next \in Nat /\ FirstOf(b) = next
  BY <1>0, AtOutput
<1>2. /\ Len(Append(rows, frames[b][slot])) = Len(rows) + 1
      /\ \A i \in 1 .. Len(Append(rows, frames[b][slot])) : Append(rows, frames[b][slot])[i] = i - 1
  BY <1>0, <1>1, RowsAppend
<1>3. rows' = rows \/ rows' = Append(rows, frames[b][slot])
  BY DEF OutputFrame
<1>4. \A i \in 1 .. Len(rows') : rows'[i] = i - 1
  BY <1>0, <1>2, <1>3
<1>5. CASE pc'[Main] \notin {"output", "recycle"}
  <2>1. pc'[Main] = "fail"
    BY <1>0, <1>5 DEF OutputFrame, Goto, Fail
  <2> QED BY <1>4, <2>1 DEF RowsInOrder
<1>6. CASE pc'[Main] \in {"output", "recycle"}
  <2>1. /\ rows' = Append(rows, frames[b][slot])
        /\ slot' = IF slot = Len(frames[b]) THEN 1 ELSE slot + 1
        /\ next' = IF slot = Len(frames[b]) THEN next + Len(frames[b]) ELSE next
        /\ pc'[Main] = IF slot = Len(frames[b]) THEN "recycle" ELSE "output"
    BY <1>0, <1>6 DEF OutputFrame, Goto, Fail
  <2>2. Len(rows') = Len(rows) + 1
    BY <1>2, <2>1
  <2>3. CASE slot = Len(frames[b])
    <3>1. slot' = 1 /\ next' = next + Len(frames[b]) /\ pc'[Main] = "recycle"
      BY <2>1, <2>3
    <3>2. Len(rows') = next'
      BY <1>1, <2>2, <2>3, <3>1
    <3> QED BY <1>4, <3>1, <3>2 DEF RowsInOrder
  <2>4. CASE slot # Len(frames[b])
    <3>1. slot' = slot + 1 /\ next' = next /\ pc'[Main] = "output"
      BY <2>1, <2>4
    <3>2. /\ FirstOf(hand[Main])' = next' /\ slot' <= Len(frames'[hand'[Main]])
      <4>1. FirstOf(hand[Main])' = FirstOf(hand[Main])
        BY <1>0 DEF FirstOf
      <4>2. slot' <= Len(frames[b])
        BY <1>1, <2>4, <3>1
      <4> QED BY <1>0, <1>1, <3>1, <4>1, <4>2
    <3>3. Len(rows') = next' + slot' - 1
      BY <1>1, <2>2, <3>1
    <3> QED BY <1>4, <3>1, <3>2, <3>3 DEF RowsInOrder
  <2> QED BY <2>3, <2>4
<1> QED BY <1>5, <1>6

(* A batch whose turn it is begins at next_frame_id. *)
LEMMA BeginsOutput ==
  ASSUME IInv, [Next]_vars, UNCHANGED <<frames, next, slot, rows>>,
         pc[Main] \in {"order", "take"}, pc'[Main] = "output",
         hand'[Main] \in Batches, frames[hand'[Main]] # <<>>, Head(frames[hand'[Main]]) = next
  PROVE  RowsInOrder'
<1>1. slot = 1 /\ Len(rows) = next /\ \A i \in 1 .. Len(rows) : rows[i] = i - 1
  BY DEF IInv, RowsInOrder
<1>2. Len(frames[hand'[Main]]) \in Nat \ {0}
  <2>1. frames[hand'[Main]] \in Seq(Nat)
    BY DEF IInv, TypeOK, DataOK
  <2> QED BY <2>1, EmptySeq
<1>3. next \in Nat
  BY TotalInNat DEF IInv, TypeOK, DataOK
<1>4. FirstOf(hand[Main])' = next'
  BY DEF FirstOf
<1>5. slot' <= Len(frames'[hand'[Main]])
  BY <1>1, <1>2
<1>6. Len(rows') = next' + slot' - 1
  BY <1>1, <1>3
<1> QED BY <1>1, <1>4, <1>5, <1>6 DEF RowsInOrder

LEMMA RowsInOrderStep ==
  ASSUME IInv, [Next]_vars
  PROVE  RowsInOrder'
<1> USE Apart
<1>0. /\ TypeOK /\ Owned /\ Judged /\ RowsInOrder /\ Failing /\ Holding /\ Filled
      /\ pc \in [Threads -> Labels] /\ hand \in [Threads -> Batches \cup {0}]
      /\ resume \in [Threads -> {"close", "finish", "cleanup", "recycleBroken", "reap", "done"}]
      /\ pending \subseteq Batches
  BY DEF IInv, TypeOK, LabelsOK, DataOK
<1>1. ASSUME NEW t \in Threads, t # Main, OnlyInHand(t), UNCHANGED <<next, slot, rows>>,
             pc'[Main] = pc[Main], hand'[Main] = hand[Main]
      PROVE  RowsInOrder'
  <2>1. pc[Main] = "output" => frames'[hand[Main]] = frames[hand[Main]]
    BY <1>0, <1>1, HandsKeep DEF Holding
  <2>2. pc[Main] = "output" => FirstOf(hand[Main])' = FirstOf(hand[Main])
    BY <1>1, <2>1 DEF FirstOf
  <2> QED BY <1>0, <1>1, <2>1, <2>2 DEF RowsInOrder
<1>2. CASE DecoderNext
  <2>1. pc'[Main] = pc[Main] /\ hand'[Main] = hand[Main] /\ UNCHANGED <<next, slot, rows>>
    BY <1>0, <1>2, DecoderMoves DEF OnlyMoves, Keeps, output
  <2> QED BY <1>1, <1>2, <2>1, DecoderFrames
<1>3. ASSUME NEW w \in Workers, WorkerNext(w) PROVE RowsInOrder'
  <2>1. pc'[Main] = pc[Main] /\ hand'[Main] = hand[Main] /\ UNCHANGED <<next, slot, rows>>
    BY <1>0, <1>3, WorkerMoves DEF OnlyMoves, Keeps, output
  <2> QED BY <1>1, <1>3, <2>1, WorkerFrames
<1>4. CASE MainNext
  <2>1. CASE OutputFrame
    BY <2>1, OutputStep
  <2>2. CASE OutputOrdered /\ pc'[Main] = "output"
    <3>1. hand' = hand /\ pc[Main] = "order" /\ Turn(hand[Main]) /\ UNCHANGED <<frames, next, slot, rows>>
      BY <1>0, <2>2 DEF OutputOrdered, Goto, Fail
    <3>2. hand[Main] \in Batches /\ frames[hand[Main]] # <<>>
      BY <1>0, <3>1 DEF Holding, Filled
    <3> QED BY <2>2, <3>1, <3>2, BeginsOutput DEF Turn
  <2>3. CASE TakePending /\ pc'[Main] = "output"
    <3>1. PICK b \in pending : Turn(b) /\ hand' = [hand EXCEPT ![Main] = b]
      BY <1>0, <2>3 DEF TakePending, Goto
    <3>2. /\ pc[Main] = "take" /\ hand'[Main] = b /\ b \in Batches
          /\ frames[b] # <<>> /\ UNCHANGED <<frames, next, slot, rows>>
      BY <1>0, <2>3, <3>1 DEF TakePending, Filled
    <3> QED BY <2>3, <3>1, <3>2, BeginsOutput DEF Turn
  <2>4. CASE ~OutputFrame /\ ~(OutputOrdered /\ pc'[Main] = "output") /\ ~(TakePending /\ pc'[Main] = "output")
    <3>1. /\ UNCHANGED <<next, slot, rows>> /\ pc'[Main] # "output"
          /\ pc'[Main] \in AtRest => pc[Main] \in AtRest
      BY <1>0, <1>4, <2>4 DEF MainNext, CreateDecoder, CreateWorkers, CreateFails, MainPop, OutputOrdered,
         Recycle, FreeBatch, TakePending, RecycleBroken, Judge, Finish, Cleanup, Reap,
         HwFail, SetFailed, CloseStep, Goto, Fail, Failing, FailLabels, CloseLabels, output, AtRest
    <3> QED BY <1>0, <3>1 DEF RowsInOrder, AtRest
  <2> QED BY <2>1, <2>2, <2>3, <2>4
<1>5. CASE UNCHANGED vars
  BY <1>0, <1>5 DEF vars, output, RowsInOrder, FirstOf
<1> QED BY <1>2, <1>3, <1>4, <1>5, StepOf

(* A thread that was not started, or has ended, takes no step. *)
LEMMA Idle ==
  /\ DecoderNext => pc[Decoder] \notin {"none", "done"}
  /\ \A w \in Workers : WorkerNext(w) => pc[w] \notin {"none", "done"}
  /\ MainNext => pc[Main] # "done"
<1>1. DecoderNext => pc[Decoder] \notin {"none", "done"}
  BY DEF DecoderNext, DecoderPop, DecoderCheck, DecoderFill, DecoderReadFails,
         DecoderGiveBack, DecoderPush, DecoderClose, HwFail, SetFailed, CloseStep
<1>2. \A w \in Workers : WorkerNext(w) => pc[w] \notin {"none", "done"}
  BY DEF WorkerNext, WorkerPop, WorkerCheck, WorkerInfer, WorkerPush,
         WorkerRefused, WorkerFinish, WorkerClose, HwFail, SetFailed, CloseStep
<1>3. MainNext => pc[Main] # "done"
  BY DEF MainNext, CreateDecoder, CreateWorkers, MainPop, OutputOrdered, OutputFrame,
         Recycle, FreeBatch, TakePending, RecycleBroken, Judge, Finish, Cleanup, Reap,
         HwFail, SetFailed, CloseStep
<1> QED BY <1>1, <1>2, <1>3

(* When the main thread finds the completed queue closed and empty, no failure and  *)
(* nothing in the pending list, the stages have ended and every row is written.      *)
LEMMA JudgedComplete ==
  ASSUME IInv, pc[Main] = "judge", ~failed, pending = {}
  PROVE  Len(rows) = Total /\ \A s \in Stages : pc[s] = "done"
<1> USE Apart
<1>0. /\ TypeOK /\ Holding /\ Ending /\ RowsInOrder /\ NoGap /\ Placed
      /\ queue \in [QueueNames -> Seq(Batches)] /\ hand \in [Threads -> Batches \cup {0}]
  BY DEF IInv, TypeOK, DataOK
<1>1. "completed" \in closed /\ queue["completed"] = <<>>
  BY <1>0 DEF Ending
<1>2. \A w \in Workers : pc[w] = "done"
  BY <1>0, <1>1 DEF Ending
<1>3. "decoded" \in closed /\ queue["decoded"] = <<>>
  BY <1>0, <1>2, DetectionAssumption DEF Ending
<1>4. pc[Decoder] = "done" /\ decoded = Total
  BY <1>0, <1>3 DEF Ending
<1>5. \A s \in Stages : pc[s] = "done"
  BY <1>2, <1>4
<1>6. \A t \in Threads : hand[t] = 0
  BY <1>0, <1>5 DEF Holding, FailLabels, CloseLabels
<1>7. InQueue("decoded") = {} /\ InQueue("completed") = {}
  BY <1>1, <1>3, EmptySeq DEF InQueue, Elements
<1>8. Live = {}
  BY <1>0, <1>6, <1>7 DEF Live, Placed, Batches
<1>9. next = decoded
  BY <1>0, <1>5, <1>8 DEF NoGap, Unfailed, FollowedAt
<1>10. Len(rows) = next
  BY <1>0 DEF RowsInOrder
<1> QED BY <1>4, <1>5, <1>9, <1>10

LEMMA ReapedEmpty ==
  ASSUME IInv, Reap
  PROVE  \A b \in Batches : frames'[b] = <<>>
<1> USE Apart
<1>0. Holding /\ Placed /\ Owned /\ hand \in [Threads -> Batches \cup {0}] /\ pc[Main] = "reap"
  BY DEF IInv, TypeOK, DataOK, Reap
<1>1. Empties(Main)
  BY ReapEmpties
<1>2. \A t \in Threads : hand[t] = 0
  BY <1>0, ReapsNobody DEF Holding, FailLabels, CloseLabels
<1>3. ASSUME NEW b \in Batches, frames'[b] # <<>> PROVE FALSE
  <2>1. /\ frames[b] # <<>> /\ b \notin pending
        /\ b \notin InQueue("decoded") /\ b \notin InQueue("completed")
    BY <1>1, <1>3 DEF Empties, QueueNames
  <2> QED BY <1>0, <1>2, <2>1 DEF Placed, Batches
<1> QED BY <1>3

LEMMA JudgedStep ==
  ASSUME IInv, [Next]_vars
  PROVE  Judged'
<1> USE Apart
<1>0. /\ TypeOK /\ Judged /\ Failing /\ Total' = Total
      /\ pc \in [Threads -> Labels]
      /\ resume \in [Threads -> {"close", "finish", "cleanup", "recycleBroken", "reap", "done"}]
      /\ result \in {"none", "ok", "error"}
  BY Onward DEF IInv, TypeOK, LabelsOK, DataOK
<1>1. ASSUME NEW t \in Stages, pc[t] \notin {"none", "done"}, OnlyMoves(t), UNCHANGED output
      PROVE  Judged'
  <2>1. pc[Main] \notin {"join", "createDecoder", "done"} /\ result # "ok"
    BY <1>0, <1>1 DEF Judged
  <2>2. pc'[Main] = pc[Main] /\ resume'[Main] = resume[Main] /\ result' = result
    BY <1>1 DEF OnlyMoves, Keeps, output
  <2> QED BY <1>0, <2>1, <2>2 DEF Judged
<1>2. CASE DecoderNext
  BY <1>0, <1>1, <1>2, Idle, DecoderMoves
<1>3. ASSUME NEW w \in Workers, WorkerNext(w) PROVE Judged'
  BY <1>0, <1>1, <1>3, Idle, WorkerMoves
<1>4. CASE MainNext
  <2>0. \A s \in Stages : pc[s] = "done" => pc'[s] = "done"
    BY <1>0, <1>4, MainMoves DEF Starts
  <2>1. CASE Judge
    <3>1. pc'[Main] = "join" => ~failed /\ pending = {} /\ pc[Main] = "judge"
      BY <1>0, <2>1 DEF Judge, Goto, Fail
    <3>2. pc'[Main] \in {"join", "cleanup", "fail"} /\ result # "ok"
      BY <1>0, <2>1 DEF Judge, Goto, Fail, Judged
    <3>3. result' = result /\ rows' = rows /\ failed' = failed
          /\ (pc'[Main] = "fail" => resume'[Main] = "cleanup")
      BY <1>0, <2>1 DEF Judge, MainKeeps, output, shared, Goto, Fail
    <3> QED BY <1>0, <2>0, <3>1, <3>2, <3>3, JudgedComplete DEF Judged, FailLabels, CloseLabels
  <2>2. CASE Finish
    <3>1. /\ pc[Main] = "join" /\ pc'[Main] = "reap" /\ result' \in {"ok", "error"}
          /\ rows' = rows /\ failed' = failed
      BY <1>0, <2>2 DEF Finish, Goto, MainKeeps, shared
    <3> QED BY <1>0, <2>0, <3>1 DEF Judged, FailLabels, CloseLabels
  <2>3. CASE Cleanup
    <3>1. /\ pc'[Main] \in {"reap", "fail"} /\ result' = "error"
      BY <1>0, <2>3 DEF Cleanup, Goto, Fail
    <3> QED BY <3>1 DEF Judged
  <2>4. CASE Reap
    <3>1. /\ pc[Main] = "reap" /\ pc'[Main] = "done" /\ result' = result
          /\ rows' = rows /\ failed' = failed
      BY <1>0, <2>4 DEF Reap, Goto, MainKeeps, shared
    <3>2. \A s \in Stages : pc'[s] \in {"none", "done"}
      BY <2>4, ReapsNobody
    <3> QED BY <1>0, <2>0, <2>4, <3>1, <3>2, ReapedEmpty DEF Judged, FailLabels, CloseLabels
  <2>5. CASE ~(Judge \/ Finish \/ Cleanup \/ Reap)
    <3>1. /\ pc'[Main] \notin {"join", "done", "createDecoder"} /\ result' = result
          /\ pc[Main] \notin {"reap", "done"}
          /\ pc'[Main] = "reap" => pc[Main] \in FailLabels /\ resume[Main] = "reap"
          /\ pc'[Main] \in FailLabels /\ resume'[Main] = "reap" =>
               pc[Main] \in FailLabels /\ resume[Main] = "reap"
      BY <1>0, <1>4, <2>5 DEF MainNext, CreateDecoder, CreateWorkers, CreateFails, MainPop, OutputOrdered,
         OutputFrame, Recycle, FreeBatch, TakePending, RecycleBroken,
         HwFail, SetFailed, CloseStep, Goto, Fail, Failing, FailLabels, CloseLabels, output
    <3> QED BY <1>0, <3>1 DEF Judged
  <2> QED BY <2>1, <2>2, <2>3, <2>4, <2>5
<1>5. CASE UNCHANGED vars
  BY <1>0, <1>5 DEF vars, shared, output, Judged
<1> QED BY <1>2, <1>3, <1>4, <1>5, StepOf

-----------------------------------------------------------------------------
(* The theorems.                                                           *)

LEMMA Begin == Init => IInv
<1> SUFFICES ASSUME Init PROVE IInv
  OBVIOUS
<1> USE Apart, DetectionAssumption
<1>1. /\ \A s \in Stages : pc[s] = "none"
      /\ pc[Main] = "createDecoder" /\ \A t \in Threads : hand[t] = 0 /\ resume[t] = "done"
      /\ failed = FALSE /\ closed = {} /\ pending = {} /\ next = 0 /\ slot = 1
      /\ rows = <<>> /\ result = "none" /\ decoded = 0 /\ atEnd = FALSE
      /\ \A b \in Batches : frames[b] = <<>>
      /\ \A q \in QueueNames : queue[q] = IF q = "free" THEN [i \in Batches |-> i] ELSE <<>>
  BY DEF Init
<1>2. video \in Nat /\ Total \in Nat /\ active \in Nat
  <2>1. video \in Nat /\ active \in Nat
    BY FS_CardinalityType DEF Init
  <2> QED BY <2>1 DEF Total
<1>3. [i \in Batches |-> i] \in Seq(Batches) /\ Len([i \in Batches |-> i]) = ActiveBatches
  BY DEF Batches
<1>4. <<>> \in Seq(Batches) /\ <<>> \in Seq(Nat) /\ Len(<<>>) = 0
  BY EmptySeq
<1>5. TypeOK
  <2>1. LabelsOK
    BY DEF Init, LabelsOK, Labels, DecoderLabels, WorkerLabels, MainLabels
  <2>2. DataOK
    <3>1. queue \in [QueueNames -> Seq(Batches)]
      BY <1>3, <1>4 DEF Init
    <3>2. frames \in [Batches -> Seq(Nat)] /\ hand \in [Threads -> Batches \cup {0}]
      BY <1>4 DEF Init
    <3>3. decoded \in 0 .. Total /\ next \in 0 .. decoded
      BY <1>1, <1>2
    <3>4. /\ failed \in BOOLEAN /\ closed \subseteq QueueNames /\ atEnd \in BOOLEAN
          /\ pending \subseteq Batches
          /\ result \in {"none", "ok", "error"}
      BY <1>1
    <3>5. slot \in Nat \ {0} /\ rows \in Seq(Nat)
      BY <1>4 DEF Init
    <3> QED BY <1>2, <3>1, <3>2, <3>3, <3>4, <3>5 DEF DataOK
  <2> QED BY <2>1, <2>2 DEF TypeOK
<1>6. \A q \in QueueNames : /\ Distinct(queue[q])
                            /\ q # "free" => InQueue(q) = {}
  <2>1. Distinct([i \in Batches |-> i])
    BY <1>3 DEF Distinct, Batches
  <2>2. Distinct(<<>>) /\ Elements(<<>>) = {}
    BY <1>4 DEF Distinct, Elements
  <2> QED BY <1>1, <2>1, <2>2 DEF InQueue
<1>7. InQueue("free") \subseteq Batches
  BY <1>5, ElementOfSeq DEF TypeOK, DataOK, InQueue, Elements, QueueNames
<1>8. Owned
  <2>1. \A q \in QueueNames : 0 \notin InQueue(q)
    BY <1>6, <1>7 DEF Batches
  <2> QED BY <1>1, <1>6, <2>1 DEF Owned
<1>9. Failing /\ Holding
  BY <1>1 DEF Failing, Holding, FailLabels, CloseLabels
<1>10. Filled /\ Placed
  BY <1>1, <1>6, <1>7 DEF Filled, Placed, QueueNames
<1>11. Counted
  <2>1. {w \in Workers : pc[w] \notin {"closing", "done"}} = Workers
    BY <1>1
  <2> QED BY <1>1, <2>1 DEF Counted, Init
<1>12. Ending /\ Blocks
  BY <1>1 DEF Ending, Blocks
<1>13. Live = {}
  BY <1>1 DEF Live
<1>14. StillToCome /\ NoGap /\ NoneMissed
  BY <1>1, <1>13 DEF StillToCome, NoGap, FollowedAt, NoneMissed
<1>15. RowsInOrder /\ Judged
  BY <1>1, <1>4 DEF RowsInOrder, Judged, FailLabels, CloseLabels
<1> QED BY <1>5, <1>8, <1>9, <1>10, <1>11, <1>12, <1>14, <1>15 DEF IInv

LEMMA Step == IInv /\ [Next]_vars => IInv'
<1> SUFFICES ASSUME IInv, [Next]_vars PROVE IInv'
  OBVIOUS
<1>1. TypeOK'
  BY LabelsStep, DataStep DEF TypeOK
<1>2. Failing' /\ Holding' /\ Owned' /\ Filled' /\ Placed'
  BY FailingStep, HoldingStep, OwnedStep, FilledStep, PlacedStep
<1>3. Counted' /\ Ending' /\ Blocks' /\ StillToCome' /\ NoGap'
  BY CountedStep, EndingStep, BlocksStep, StillToComeStep, NoGapStep
<1>4. NoneMissed' /\ RowsInOrder' /\ Judged'
  BY NoneMissedStep, RowsInOrderStep, JudgedStep
<1> QED BY <1>1, <1>2, <1>3, <1>4 DEF IInv

(* The inductive invariant: who holds which batch, which frames are in it, and how   *)
(* far the stages of run_detection_pipeline_nvdec_cuda_blocking have got.            *)
THEOREM Inductive == Spec => []IInv
BY Begin, Step, PTL DEF Spec

(* A queue without repetition is no longer than there are batches. *)
LEMMA SlotsAreFew ==
  ASSUME IInv, NEW q \in QueueNames
  PROVE  1 .. Len(queue[q]) \subseteq Batches
<1>1. queue[q] \in Seq(1 .. ActiveBatches) /\ Distinct(queue[q]) /\ ActiveBatches \in Nat
  BY DetectionAssumption DEF IInv, TypeOK, DataOK, Owned, Batches
<1>2. Len(queue[q]) <= ActiveBatches /\ Len(queue[q]) \in Nat
  BY <1>1, DistinctIsShort, LenProperties
<1> QED BY <1>1, <1>2 DEF Batches

(* Two places of a batch are one. *)
LEMMA OnePlace ==
  ASSUME IInv, NEW b \in Batches, NEW x \in Places(b), NEW y \in Places(b)
  PROVE  x = y
<1>0. /\ Owned /\ b # 0
      /\ \A q \in QueueNames : Distinct(queue[q]) /\ DOMAIN queue[q] = 1 .. Len(queue[q])
  BY LenProperties DEF IInv, TypeOK, DataOK, Owned, Batches
<1> DEFINE InSlot(p) == p \in QueueNames \X Batches /\ p[2] \in DOMAIN queue[p[1]] /\ queue[p[1]][p[2]] = b
           InHand(p) == \E t \in Threads : hand[t] = b /\ p = <<t, 0>>
           Waits(p) == b \in pending /\ p = <<"pending", 0>>
<1>1. \A p \in Places(b) : InSlot(p) \/ InHand(p) \/ Waits(p)
  BY DEF Places
<1>2. \A p : InSlot(p) => b \in InQueue(p[1]) /\ p[1] \in QueueNames
  BY <1>0 DEF InQueue, Elements
<1>3. CASE InSlot(x) /\ InSlot(y)
  <2>1. x[1] = y[1]
    BY <1>0, <1>2, <1>3 DEF Owned
  <2>2. x[2] = y[2]
    <3>1. /\ x[1] \in QueueNames /\ x[2] \in 1 .. Len(queue[x[1]]) /\ y[2] \in 1 .. Len(queue[x[1]])
          /\ queue[x[1]][x[2]] = queue[x[1]][y[2]]
      BY <1>0, <1>3, <2>1
    <3> QED BY <1>0, <3>1 DEF Distinct
  <2> QED BY <1>3, <2>1, <2>2
<1>4. CASE InHand(x) /\ InHand(y)
  BY <1>0, <1>4 DEF Owned
<1>5. CASE Waits(x) /\ Waits(y)
  BY <1>5
<1>6. ~(\E p, r : InSlot(p) /\ (InHand(r) \/ Waits(r))) /\ ~(\E p, r : InHand(p) /\ Waits(r))
  BY <1>0, <1>2 DEF Owned
<1> QED BY <1>1, <1>3, <1>4, <1>5, <1>6

(* A batch is in one place at most, and one with surfaces of the hardware decoder is *)
(* in one: no two threads work on it and no failure path forgets it.                 *)
THEOREM BatchesHaveOneOwner == Spec => []EveryBatchOwned
<1>1. ASSUME IInv, NEW b \in Batches PROVE Cardinality(Places(b)) <= 1
  <2>1. CASE Places(b) = {}
    BY <2>1, FS_EmptySet
  <2>2. CASE Places(b) # {}
    <3>1. PICK x : x \in Places(b)
      BY <2>2
    <3>2. Places(b) = {x}
      BY <1>1, <3>1, OnePlace
    <3> QED BY <3>2, FS_Singleton
  <2> QED BY <2>1, <2>2
<1>2. ASSUME IInv, NEW b \in Batches, frames[b] # <<>> PROVE Places(b) # {}
  <2>1. /\ Placed /\ queue \in [QueueNames -> Seq(Batches)]
        /\ "decoded" \in QueueNames /\ "completed" \in QueueNames
    BY <1>2 DEF IInv, TypeOK, DataOK, QueueNames
  <2>2. ASSUME NEW q \in QueueNames, b \in InQueue(q) PROVE Places(b) # {}
    <3>1. PICK i \in 1 .. Len(queue[q]) : queue[q][i] = b
      BY <2>2 DEF InQueue, Elements
    <3>2. DOMAIN queue[q] = 1 .. Len(queue[q])
      BY <2>1, LenProperties
    <3>3. i \in Batches
      BY <1>2, <2>2, <3>1, SlotsAreFew DEF IInv
    <3>4. <<q, i>> \in Places(b)
      BY <3>1, <3>2, <3>3 DEF Places
    <3> QED BY <3>4
  <2>3. ASSUME b \in pending PROVE Places(b) # {}
    BY <2>3 DEF Places
  <2>4. ASSUME NEW t \in Threads, hand[t] = b PROVE Places(b) # {}
    BY <2>4 DEF Places
  <2> QED BY <1>2, <2>1, <2>2, <2>3, <2>4 DEF Placed
<1>3. IInv => EveryBatchOwned
  BY <1>1, <1>2 DEF EveryBatchOwned
<1> QED BY <1>3, Inductive, PTL

(* Whatever fails and when, every surface of the hardware decoder is released before *)
(* run_detection_pipeline_nvdec_cuda_blocking returns.                               *)
THEOREM SurfacesAreReleased == Spec => []NoSurfaceLeft
<1>1. IInv => NoSurfaceLeft
  BY DEF IInv, Judged, NoSurfaceLeft
<1> QED BY <1>1, Inductive, PTL

(* ctx->failed is looked at once, after the last batch and before the joins: that    *)
(* is enough, no run in which a thread has failed returns 0.                         *)
THEOREM FailuresAreReported == Spec => []FailureIsReported
<1>1. IInv => FailureIsReported
  BY DEF IInv, Judged, TypeOK, DataOK, FailureIsReported
<1> QED BY <1>1, Inductive, PTL

(* As long as nothing fails, whenever batches wait in the pending list, the batch    *)
(* whose turn it is is on its way to the main thread.                                *)
THEOREM EarlyBatchesFollowed == Spec => []EarlyBatchesAreFollowed
<1>1. ASSUME IInv, pc[Main] \in {"pop", "judge"}, pending # {}, ~failed,
             \A s \in Stages : pc[s] # "fail"
      PROVE  \E b \in Batches \ pending : frames[b] # <<>> /\ Turn(b)
  <2>1. FollowedAt(next)
    BY <1>1 DEF IInv, NoGap, Unfailed
  <2>2. PICK c : c \in pending
    BY <1>1
  <2>3. c \in Live
    BY <1>1, <2>2 DEF IInv, Filled, TypeOK, DataOK, Live
  <2>4. next # decoded
    BY <1>1, <2>3, LiveBlocks
  <2>5. PICK b \in Live : FirstOf(b) = next
    BY <2>1, <2>4 DEF FollowedAt
  <2>6. b \notin pending
    BY <1>1, <2>5 DEF IInv, NoneMissed, Turn, FirstOf
  <2> QED BY <2>5, <2>6 DEF Live, Turn, FirstOf
<1>2. IInv => EarlyBatchesAreFollowed
  BY <1>1 DEF EarlyBatchesAreFollowed
<1> QED BY <1>2, Inductive, PTL

(* Every step of the pipeline is a step of the promise or leaves it alone. *)
LEMMA RunStep == IInv /\ IInv' /\ [Next]_vars => [Run!Next]_Run!vars
<1> SUFFICES ASSUME IInv, IInv', [Next]_vars PROVE [Run!Next]_Run!vars
  OBVIOUS
<1> USE Apart
<1>0. /\ TypeOK /\ Judged /\ Failing /\ pc \in [Threads -> Labels] /\ Total' = Total
      /\ resume \in [Threads -> {"close", "finish", "cleanup", "recycleBroken", "reap", "done"}]
  BY Onward DEF IInv, TypeOK, LabelsOK
<1>1. ASSUME rows' = rows, result' = result, (pc'[Main] = "done") <=> (pc[Main] = "done")
      PROVE  [Run!Next]_Run!vars
  BY <1>0, <1>1 DEF Run!vars
<1>2. CASE DecoderNext
  BY <1>0, <1>1, <1>2, DecoderMoves DEF OnlyMoves, Keeps, output
<1>3. ASSUME NEW w \in Workers, WorkerNext(w) PROVE [Run!Next]_Run!vars
  BY <1>0, <1>1, <1>3, WorkerMoves DEF OnlyMoves, Keeps, output
<1>4. CASE MainNext
  <2>0. pc[Main] # "done"
    BY <1>4, Idle
  <2>1. CASE OutputFrame
    <3>1. pc[Main] = "output" /\ pc'[Main] # "done" /\ result' = result
      BY <1>0, <2>1 DEF OutputFrame, Goto, Fail
    <3>2. CASE rows' = rows
      BY <1>1, <2>0, <3>1, <3>2
    <3>3. CASE rows' # rows
      <4>1. rows' = Append(rows, frames[hand[Main]][slot])
        BY <2>1, <3>3 DEF OutputFrame
      <4>2. frames[hand[Main]][slot] = Len(rows) /\ Len(rows) < Total
        <5> PICK b : b = hand[Main]
          OBVIOUS
        <5>1. /\ slot \in 1 .. Len(frames[b]) /\ Len(frames[b]) \in Nat
              /\ frames[b][slot] = Len(rows) /\ Len(rows) \in Nat
              /\ Len(rows) = next + slot - 1 /\ next \in Nat
              /\ next + Len(frames[b]) <= decoded /\ decoded \in 0 .. Total /\ Total \in Nat
          BY <3>1, AtOutput
        <5> QED BY <5>1
      <4> QED BY <1>0, <2>0, <3>1, <4>1, <4>2 DEF Run!Next, Run!Deliver
    <3> QED BY <3>2, <3>3
  <2>2. CASE Reap
    <3>1. /\ pc[Main] = "reap" /\ pc'[Main] = "done" /\ rows' = rows /\ result' = result
      BY <1>0, <2>2 DEF Reap, Goto
    <3>2. result \in {"ok", "error"} /\ (result = "ok" => Len(rows) = Total)
      BY <1>0, <3>1 DEF Judged, TypeOK, DataOK
    <3> QED BY <1>0, <3>1, <3>2 DEF Run!Next, Run!Succeed, Run!Break
  <2>3. CASE ~OutputFrame /\ ~Reap
    <3>1. rows' = rows /\ pc'[Main] # "done"
      BY <1>0, <1>4, <2>3 DEF MainNext, CreateDecoder, CreateWorkers, CreateFails, MainPop, OutputOrdered,
         Recycle, FreeBatch, TakePending, RecycleBroken, Judge, Finish, Cleanup,
         HwFail, SetFailed, CloseStep, Goto, Fail, Failing, FailLabels, CloseLabels, output
    <3> QED BY <1>0, <2>0, <3>1 DEF Run!vars
  <2> QED BY <2>1, <2>2, <2>3
<1>5. CASE UNCHANGED vars
  BY <1>0, <1>1, <1>5 DEF vars, output
<1> QED BY <1>2, <1>3, <1>4, <1>5, StepOf

(* run_detection_pipeline_nvdec_cuda_blocking keeps the promise of InOrderRun: the   *)
(* detections of the frames are written in order and without a gap, none after the   *)
(* return, and 0 is returned only when all up to max_frames were.                    *)
THEOREM BatchImplementsRun == Spec => ImplementsRun
<1>1. Init => Run!Init
  <2>1. Init => Total \in Nat
    BY Begin, TotalInNat DEF IInv
  <2>2. Init => pc[Main] = "createDecoder" /\ rows = <<>>
    BY Apart DEF Init
  <2> QED BY <2>1, <2>2 DEF Run!Init
<1> QED BY <1>1, Begin, Step, RunStep, PTL DEF Spec, ImplementsRun, Run!Spec
=============================================================================

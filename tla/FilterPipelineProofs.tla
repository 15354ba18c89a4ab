------------------------ MODULE FilterPipelineProofs ------------------------
(***************************************************************************)
(* What the runs check of FilterPipeline on a few frames and workers holds *)
(* for every number of frames, slots and workers.  CoreInv of              *)
(* FilterPipelineInv is inductive, and the order of the output, the meaning*)
(* of a successful return and the place of the flush follow from it.  IInv *)
(* adds what the rest needs: each frame is in one place, no buffer leaks,  *)
(* the decoder never waits for one, the joins keep ctx alive, and the      *)
(* pipeline implements InOrderRun.  The last section takes one processor,  *)
(* as the GPU path has, and shows that it never waits for a buffer.        *)
(*                                                                         *)
(* Each conjunct of CoreInv has a lemma, XStep, that says no step breaks   *)
(* it; its proof has a case for the decoder, a worker, the encoder and the *)
(* main thread, and under each of them one for every action that needs     *)
(* facts of its own.  A frame may be counted twice only if an insert into  *)
(* the pending list finds it there already.  InsertIsNew excludes it by    *)
(* counting: the places would then hold fewer ids than the decoder has     *)
(* numbered.                                                               *)
(***************************************************************************)
EXTENDS FilterPipelineInv, FiniteSetTheorems, SequenceTheorems, TLAPS

-----------------------------------------------------------------------------

(* There is at least one worker. *)
LEMMA CardinalityOfWorkers == Cardinality(Workers) \in Nat /\ Cardinality(Workers) > 0
BY FS_CardinalityType, FS_EmptySet, FilterAssumption

(* Counting workers: removing or adding one changes the count by one. *)
LEMMA SubsetOfWorkers ==
  ASSUME NEW S, S \subseteq Workers
  PROVE  /\ IsFiniteSet(S) /\ Cardinality(S) \in Nat
         /\ Cardinality(S) <= Cardinality(Workers)
         /\ Cardinality(S) = 0 <=> S = {}
         /\ \A w \in S : Cardinality(S \ {w}) = Cardinality(S) - 1
         /\ \A w \in Workers \ S : Cardinality(S \cup {w}) = Cardinality(S) + 1
BY FS_Subset, FS_CardinalityType, FS_EmptySet, FS_RemoveElement, FS_AddElement,
       FilterAssumption

(* The number of frames to be written is a natural number. *)
LEMMA TotalInNat == Total \in Nat
BY FilterAssumption DEF Total

(* Frame ids are natural numbers, so the sequences of them are of Nat. *)
LEMMA FramesAreNat ==
  ASSUME FramesOK
  PROVE  /\ rawQueue \in Seq(Nat) /\ processedQueue \in Seq(Nat) /\ written \in Seq(Nat)
         /\ decoded \in Nat /\ next \in Nat
<1>1. FrameIds \subseteq Nat BY TotalInNat DEF FrameIds
<1>2. /\ rawQueue \in Seq(FrameIds) /\ processedQueue \in Seq(FrameIds) /\ written \in Seq(FrameIds)
      /\ decoded \in Nat /\ next \in Nat
  BY TotalInNat DEF FramesOK
<1> QED BY <1>1, <1>2, SeqMonotonic

(* A push adds the pushed id to those of a queue. *)
LEMMA IdsOfAppend ==
  ASSUME NEW S, NEW q \in Seq(S), NEW e \in S
  PROVE  IdsIn(Append(q, e)) = IdsIn(q) \cup {e}
<1> DEFINE r == Append(q, e)
<1>1. /\ r \in Seq(S) /\ Len(r) = Len(q) + 1 /\ Len(q) \in Nat
      /\ \A i \in 1 .. Len(q) : r[i] = q[i]
      /\ r[Len(q) + 1] = e
  BY AppendProperties, LenProperties
<1>2. 1 .. Len(r) = (1 .. Len(q)) \cup {Len(q) + 1}
  BY <1>1
<1> HIDE DEF r
<1> QED BY <1>1, <1>2 DEF IdsIn, r

(* A pop takes the popped id from those of a queue. *)
LEMMA IdsOfTail ==
  ASSUME NEW S, NEW q \in Seq(S), q # <<>>
  PROVE  IdsIn(q) = IdsIn(Tail(q)) \cup {Head(q)}
<1>1. /\ Len(q) \in Nat /\ Len(q) > 0 /\ Len(Tail(q)) = Len(q) - 1
      /\ \A i \in 1 .. Len(Tail(q)) : Tail(q)[i] = q[i + 1]
      /\ Head(q) = q[1]
  BY HeadTailProperties, LenProperties, EmptySeq
<1>2. ASSUME NEW i \in 1 .. Len(q) PROVE q[i] \in IdsIn(Tail(q)) \cup {Head(q)}
  <2>1. CASE i = 1 BY <1>1, <2>1
  <2>2. CASE i # 1
    <3>1. i - 1 \in 1 .. Len(Tail(q)) /\ q[i] = Tail(q)[i - 1] BY <1>1, <2>2
    <3> QED BY <3>1 DEF IdsIn
  <2> QED BY <2>1, <2>2
<1>3. ASSUME NEW i \in 1 .. Len(Tail(q)) PROVE Tail(q)[i] \in IdsIn(q)
  <2>1. i + 1 \in 1 .. Len(q) /\ Tail(q)[i] = q[i + 1] BY <1>1
  <2> QED BY <2>1 DEF IdsIn
<1>4. Head(q) \in IdsIn(q)
  BY <1>1 DEF IdsIn
<1> QED BY <1>2, <1>3, <1>4 DEF IdsIn

-----------------------------------------------------------------------------
(* The labels, the flags and the order in which the stages start and end.  *)

(* Every thread stays at its own labels. *)
LEMMA LabelsStep == CoreInv /\ [Next]_vars => LabelsOK'
<1> SUFFICES ASSUME CoreInv, [Next]_vars PROVE LabelsOK'
  OBVIOUS
<1> USE FilterAssumption DEF CoreInv, TypeOK, LabelsOK, Labels, Threads, Stages,
        Goto, Fail, FailLabels, DecoderLabels, WorkerLabels, EncoderLabels,
        MainLabels, global, queues, pools, output, CloseLabels, Resumes
<1>1. CASE DecoderNext
  BY <1>1 DEF Failing, DecoderNext, DecoderAcquire, DecoderRead, DecoderCheck,
         DecoderPush, DecoderDrop, DecoderClose, PipelineFail, CloseStep,
         SetFailed
<1>2. ASSUME NEW w \in Workers, WorkerNext(w) PROVE LabelsOK'
  <2>1. CASE WorkerPop(w)
    BY <2>1 DEF Failing, WorkerPop
  <2>2. CASE WorkerReleaseInput(w)
    BY <2>2 DEF Failing, WorkerReleaseInput, AfterInput
  <2>3. CASE PipelineFail(w)
    BY <2>3 DEF Failing, PipelineFail, SetFailed, CloseStep
  <2> QED
    BY <1>2, <2>1, <2>2, <2>3 DEF Failing, WorkerNext, WorkerCheck,
           WorkerAcquire, WorkerProcess, WorkerKernel, WorkerPush,
           WorkerReleaseOutput, WorkerFinish
<1>3. CASE EncoderNext
  <2>1. CASE EncoderWrite
    BY <2>1 DEF Failing, EncoderWrite, WriteLoop
  <2> QED
    BY <1>3, <2>1 DEF Failing, EncoderNext, EncoderPop, EncoderCheck,
           EncoderInsert, EncoderGiveBack, EncoderDrain, EncoderLeftovers,
           EncoderDiscard, EncoderFlush, PipelineFail, SetFailed, CloseStep
<1>4. CASE MainNext
  BY <1>4 DEF Failing, MainNext, MainCreateDecoder, MainCreateEncoder,
         MainCreateEncoderOnly, MainCreateWorker, MainCreated, MainJoin,
         MainReturn, PipelineFail, Create, CreateFails, Entry, SetFailed,
         CloseStep
<1>5. CASE UNCHANGED vars
  BY <1>5 DEF Failing, vars
<1> QED BY <1>1, <1>2, <1>3, <1>4, <1>5 DEF Next, Stutter

(* The flags and the results keep their types. *)
LEMMA FlagsStep == CoreInv /\ [Next]_vars => FlagsOK'
<1> SUFFICES ASSUME CoreInv, [Next]_vars PROVE FlagsOK'
  OBVIOUS
<1> USE DEF CoreInv, TypeOK, FlagsOK, Shared, global, queues, pools, output
<1>1. CASE DecoderNext
  BY <1>1 DEF DecoderNext, DecoderAcquire, DecoderRead, DecoderCheck, DecoderPush,
         DecoderDrop, DecoderClose, CloseStep, PipelineFail, SetFailed
<1>2. ASSUME NEW w \in Workers, WorkerNext(w) PROVE FlagsOK'
  BY <1>2 DEF WorkerNext, WorkerPop, WorkerCheck, WorkerAcquire, WorkerProcess,
         WorkerReleaseInput, WorkerKernel, WorkerPush, WorkerReleaseOutput,
         WorkerFinish, CloseStep, PipelineFail, SetFailed
<1>3. CASE EncoderNext
  BY <1>3 DEF EncoderNext, EncoderPop, EncoderCheck, EncoderInsert, EncoderWrite,
         EncoderGiveBack, EncoderDrain, EncoderLeftovers, EncoderDiscard,
         EncoderFlush, CloseStep, PipelineFail, SetFailed
<1>4. CASE MainNext
  BY <1>4 DEF MainNext, MainCreateDecoder, MainCreateEncoder, MainCreateEncoderOnly,
         MainCreateWorker, MainCreated, MainJoin, MainReturn, Create, CreateFails,
         CloseStep, PipelineFail, SetFailed
<1>5. CASE UNCHANGED vars
  BY <1>5 DEF vars
<1> QED BY <1>1, <1>2, <1>3, <1>4, <1>5 DEF Next, Stutter

(* The closes come after the flag, and the ways out that need a closed pool or a refused
   push come after a failure. *)
LEMMA FailingStep == CoreInv /\ [Next]_vars => Failing'
<1> SUFFICES ASSUME CoreInv, [Next]_vars PROVE Failing'
  OBVIOUS
<1> USE FilterAssumption DEF CoreInv, TypeOK, LabelsOK, Labels, Threads, Stages,
        Goto, Fail, FailLabels, DecoderLabels, WorkerLabels, EncoderLabels,
        MainLabels, global, queues, pools, output, CloseLabels
<1>1. CASE DecoderNext
  BY <1>1 DEF Failing, DecoderNext, DecoderAcquire, DecoderRead, DecoderCheck,
         DecoderPush, DecoderDrop, DecoderClose, PipelineFail, CloseStep,
         SetFailed
<1>2. ASSUME NEW w \in Workers, WorkerNext(w) PROVE Failing'
  <2>1. CASE WorkerPop(w)
    BY <2>1 DEF Failing, WorkerPop
  <2>2. CASE WorkerCheck(w)
    BY <2>2 DEF Failing, WorkerCheck
  <2>3. CASE WorkerAcquire(w)
    BY <2>3 DEF Failing, WorkerAcquire, IsClosed
  <2>4. CASE WorkerProcess(w)
    BY <2>4 DEF Failing, WorkerProcess
  <2>5. CASE WorkerReleaseInput(w)
    BY <2>5 DEF Failing, WorkerReleaseInput, AfterInput
  <2>6. CASE WorkerKernel(w)
    BY <2>6 DEF Failing, WorkerKernel
  <2>7. CASE WorkerPush(w)
    BY <2>7 DEF Failing, WorkerPush, IsClosed, Ending
  <2>8. CASE WorkerReleaseOutput(w)
    BY <2>8 DEF Failing, WorkerReleaseOutput
  <2>9. CASE WorkerFinish(w)
    BY <2>9 DEF Failing, WorkerFinish
  <2>10. CASE PipelineFail(w)
    BY <2>10 DEF Failing, PipelineFail, SetFailed, CloseStep
  <2> QED
    BY <1>2, <2>1, <2>2, <2>3, <2>4, <2>5, <2>6, <2>7, <2>8, <2>9, <2>10 DEF
           Failing, WorkerNext
<1>3. CASE EncoderNext
  <2>1. CASE EncoderPop
    BY <2>1 DEF Failing, EncoderPop
  <2>2. CASE EncoderCheck
    BY <2>2 DEF Failing, EncoderCheck
  <2>3. CASE EncoderInsert
    BY <2>3 DEF Failing, EncoderInsert
  <2>4. CASE EncoderWrite
    BY <2>4 DEF Failing, EncoderWrite, WriteLoop
  <2>5. CASE EncoderGiveBack
    BY <2>5 DEF Failing, EncoderGiveBack
  <2>6. CASE EncoderDrain
    BY <2>6 DEF Failing, EncoderDrain
  <2>7. CASE EncoderLeftovers
    BY <2>7 DEF Failing, EncoderLeftovers
  <2>8. CASE EncoderDiscard
    BY <2>8 DEF Failing, EncoderDiscard
  <2>9. CASE EncoderFlush
    BY <2>9 DEF Failing, EncoderFlush
  <2>10. CASE PipelineFail(Encoder)
    BY <2>10 DEF Failing, PipelineFail, SetFailed, CloseStep
  <2> QED
    BY <1>3, <2>1, <2>2, <2>3, <2>4, <2>5, <2>6, <2>7, <2>8, <2>9, <2>10 DEF
           Failing, EncoderNext
<1>4. CASE MainNext
  BY <1>4 DEF Failing, MainNext, MainCreateDecoder, MainCreateEncoder,
         MainCreateEncoderOnly, MainCreateWorker, MainCreated, MainJoin,
         MainReturn, PipelineFail, Create, CreateFails, Entry, SetFailed,
         CloseStep
<1>5. CASE UNCHANGED vars
  BY <1>5 DEF Failing, vars
<1> QED BY <1>1, <1>2, <1>3, <1>4, <1>5 DEF Next, Stutter

(* The decoder reads no frame at the limit and numbers none beyond the video. *)
LEMMA InRangeStep == CoreInv /\ [Next]_vars => DecoderInRange'
<1> SUFFICES ASSUME CoreInv, [Next]_vars PROVE DecoderInRange'
  OBVIOUS
<1> USE FilterAssumption DEF CoreInv, TypeOK, LabelsOK, Labels, Threads, Stages,
        Goto, Fail, FailLabels, DecoderLabels, WorkerLabels, EncoderLabels,
        MainLabels, global, queues, pools, output, FramesOK
<1>1. CASE DecoderNext
  BY <1>1 DEF DecoderInRange, AtLimit, Total, Failing, DecoderNext,
         DecoderAcquire, DecoderRead, DecoderCheck, DecoderPush, DecoderDrop,
         DecoderClose, PipelineFail, CloseStep, SetFailed
<1>2. ASSUME NEW w \in Workers, WorkerNext(w) PROVE DecoderInRange'
  BY <1>2 DEF DecoderInRange, AtLimit, Total, Failing, WorkerNext, WorkerPop,
         WorkerCheck, WorkerAcquire, WorkerProcess, WorkerReleaseInput,
         WorkerKernel, WorkerPush, WorkerReleaseOutput, WorkerFinish,
         PipelineFail, AfterInput, SetFailed, CloseStep
<1>3. CASE EncoderNext
  BY <1>3 DEF DecoderInRange, AtLimit, Total, Failing, EncoderNext, EncoderPop,
         EncoderCheck, EncoderInsert, EncoderWrite, EncoderGiveBack,
         EncoderDrain, EncoderLeftovers, EncoderDiscard, EncoderFlush,
         PipelineFail, WriteLoop, SetFailed, CloseStep
<1>4. CASE MainNext
  BY <1>4 DEF DecoderInRange, AtLimit, Total, Failing, MainNext,
         MainCreateDecoder, MainCreateEncoder, MainCreateEncoderOnly,
         MainCreateWorker, MainCreated, MainJoin, MainReturn, PipelineFail,
         Create, CreateFails, Entry, SetFailed, CloseStep
<1>5. CASE UNCHANGED vars
  BY <1>5 DEF DecoderInRange, AtLimit, Total,
         Failing, vars
<1> QED BY <1>1, <1>2, <1>3, <1>4, <1>5 DEF Next, Stutter

(* What a worker or the encoder holds is a frame of the video. *)
LEMMA HeldIdsStep == CoreInv /\ [Next]_vars => HeldIds'
<1> SUFFICES ASSUME CoreInv, [Next]_vars PROVE HeldIds'
  OBVIOUS
<1> USE FilterAssumption DEF CoreInv, TypeOK, LabelsOK, Labels, Threads, Stages,
        Goto, Fail, FailLabels, DecoderLabels, WorkerLabels, EncoderLabels,
        MainLabels, global, queues, pools, output, FramesOK
<1>1. CASE DecoderNext
  BY <1>1 DEF HeldIds, HoldsInput, HoldsOutput, Failing, DecoderNext,
         DecoderAcquire, DecoderRead, DecoderCheck, DecoderPush, DecoderDrop,
         DecoderClose, PipelineFail, CloseStep, SetFailed
<1>2. ASSUME NEW w \in Workers, WorkerNext(w) PROVE HeldIds'
  <2>1. CASE WorkerPop(w)
    BY <2>1 DEF HeldIds, HoldsInput, HoldsOutput, Failing, WorkerPop
  <2>2. CASE WorkerCheck(w)
    BY <2>2 DEF HeldIds, HoldsInput, HoldsOutput, Failing, WorkerCheck
  <2>3. CASE WorkerAcquire(w)
    BY <2>3 DEF HeldIds, HoldsInput, HoldsOutput, Failing, WorkerAcquire
  <2>4. CASE WorkerProcess(w)
    BY <2>4 DEF HeldIds, HoldsInput, HoldsOutput, Failing, WorkerProcess
  <2>5. CASE WorkerReleaseInput(w)
    BY <2>5 DEF HeldIds, HoldsInput, HoldsOutput, Failing, WorkerReleaseInput,
           AfterInput
  <2>6. CASE WorkerKernel(w)
    BY <2>6 DEF HeldIds, HoldsInput, HoldsOutput, Failing, WorkerKernel
  <2>7. CASE WorkerPush(w)
    BY <2>7 DEF HeldIds, HoldsInput, HoldsOutput, Failing, WorkerPush
  <2>8. CASE WorkerReleaseOutput(w)
    BY <2>8 DEF HeldIds, HoldsInput, HoldsOutput, Failing, WorkerReleaseOutput
  <2>9. CASE WorkerFinish(w)
    BY <2>9 DEF HeldIds, HoldsInput, HoldsOutput, Failing, WorkerFinish
  <2>10. CASE PipelineFail(w)
    BY <2>10 DEF HeldIds, HoldsInput, HoldsOutput, Failing, PipelineFail,
           SetFailed, CloseStep
  <2> QED
    BY <1>2, <2>1, <2>2, <2>3, <2>4, <2>5, <2>6, <2>7, <2>8, <2>9, <2>10 DEF
           HeldIds, HoldsInput, HoldsOutput, Failing, WorkerNext
<1>3. CASE EncoderNext
  <2>1. CASE EncoderPop
    BY <2>1 DEF HeldIds, HoldsInput, HoldsOutput, Failing, EncoderPop
  <2>2. CASE EncoderCheck
    BY <2>2 DEF HeldIds, HoldsInput, HoldsOutput, Failing, EncoderCheck
  <2>3. CASE EncoderInsert
    BY <2>3 DEF HeldIds, HoldsInput, HoldsOutput, Failing, EncoderInsert
  <2>4. CASE EncoderWrite
    BY <2>4 DEF HeldIds, HoldsInput, HoldsOutput, Failing, EncoderWrite,
           WriteLoop
  <2>5. CASE EncoderGiveBack
    BY <2>5 DEF HeldIds, HoldsInput, HoldsOutput, Failing, EncoderGiveBack
  <2>6. CASE EncoderDrain
    BY <2>6 DEF HeldIds, HoldsInput, HoldsOutput, Failing, EncoderDrain
  <2>7. CASE EncoderLeftovers
    BY <2>7 DEF HeldIds, HoldsInput, HoldsOutput, Failing, EncoderLeftovers
  <2>8. CASE EncoderDiscard
    BY <2>8 DEF HeldIds, HoldsInput, HoldsOutput, Failing, EncoderDiscard
  <2>9. CASE EncoderFlush
    BY <2>9 DEF HeldIds, HoldsInput, HoldsOutput, Failing, EncoderFlush
  <2>10. CASE PipelineFail(Encoder)
    BY <2>10 DEF HeldIds, HoldsInput, HoldsOutput, Failing, PipelineFail,
           SetFailed, CloseStep
  <2> QED
    BY <1>3, <2>1, <2>2, <2>3, <2>4, <2>5, <2>6, <2>7, <2>8, <2>9, <2>10 DEF
           HeldIds, HoldsInput, HoldsOutput, Failing, EncoderNext
<1>4. CASE MainNext
  BY <1>4 DEF HeldIds, HoldsInput, HoldsOutput, Failing, MainNext,
         MainCreateDecoder, MainCreateEncoder, MainCreateEncoderOnly,
         MainCreateWorker, MainCreated, MainJoin, MainReturn, PipelineFail,
         Create, CreateFails, Entry, SetFailed, CloseStep
<1>5. CASE UNCHANGED vars
  BY <1>5 DEF HeldIds, HoldsInput, HoldsOutput,
         Failing, vars
<1> QED BY <1>1, <1>2, <1>3, <1>4, <1>5 DEF Next, Stutter

(* What is queued, pending and written are frames of the video. *)
LEMMA FramesStep == CoreInv /\ [Next]_vars => FramesOK'
<1> SUFFICES ASSUME CoreInv, [Next]_vars PROVE FramesOK'
  OBVIOUS
<1> USE FilterAssumption, TotalInNat DEF CoreInv, TypeOK, LabelsOK, Threads, Stages,
       Goto, Fail, global, queues, pools, output
<1>1. CASE DecoderNext
  <2>1. CASE DecoderCheck
    BY <2>1 DEF FramesOK, DecoderCheck, DecoderInRange, FrameIds
  <2>2. CASE DecoderPush
    <3>1. pc[Decoder] = "push" BY <2>2 DEF DecoderPush
    <3>2. decoded - 1 \in FrameIds
      BY <3>1 DEF DecoderInRange, FramesOK, FrameIds
    <3>3. rawQueue' = Append(rawQueue, decoded - 1) => rawQueue' \in Seq(FrameIds)
      BY <3>2 DEF FramesOK
    <3> QED BY <2>2, <3>3 DEF FramesOK, DecoderPush
  <2> QED
    BY <1>1, <2>1, <2>2 DEF FramesOK, DecoderNext, DecoderAcquire, DecoderRead,
           DecoderDrop, DecoderClose, CloseStep, PipelineFail, SetFailed
<1>2. ASSUME NEW w \in Workers, WorkerNext(w) PROVE FramesOK'
  <2>1. CASE WorkerPop(w)
    <3>1. rawQueue # <<>> => Head(rawQueue) \in FrameIds /\ Tail(rawQueue) \in Seq(FrameIds)
      BY HeadTailProperties DEF FramesOK
    <3>2. rawQueue' \in Seq(FrameIds)
      BY <2>1, <3>1 DEF WorkerPop, FramesOK
    <3>3. \/ current' = current
          \/ \E f \in Nat : current' = [current EXCEPT ![w] = f]
      BY <2>1, <3>1 DEF WorkerPop, FrameIds
    <3>4. current' \in [Workers \cup {Encoder} -> Nat]
      BY <3>3 DEF FramesOK
    <3> QED BY <2>1, <3>2, <3>4 DEF FramesOK, WorkerPop
  <2>2. CASE WorkerPush(w)
    <3>1. w \in HoldsInput \cup HoldsOutput
      BY <2>2 DEF WorkerPush, HoldsOutput
    <3>2. current[w] \in FrameIds
      BY <3>1 DEF HeldIds
    <3>3. processedQueue' = Append(processedQueue, current[w]) => processedQueue' \in Seq(FrameIds)
      BY <3>2 DEF FramesOK
    <3> QED BY <2>2, <3>3 DEF FramesOK, WorkerPush
  <2> QED
    BY <1>2, <2>1, <2>2 DEF FramesOK, WorkerNext, WorkerCheck, WorkerAcquire,
           WorkerProcess, WorkerReleaseInput, AfterInput, WorkerKernel,
           WorkerReleaseOutput, WorkerFinish, CloseStep, PipelineFail, SetFailed
<1>3. CASE EncoderNext
  <2>1. CASE EncoderPop
    <3>1. processedQueue # <<>> =>
            Head(processedQueue) \in FrameIds /\ Tail(processedQueue) \in Seq(FrameIds)
      BY HeadTailProperties DEF FramesOK
    <3>2. processedQueue' \in Seq(FrameIds)
      BY <2>1, <3>1 DEF EncoderPop, FramesOK
    <3>3. \/ current' = current
          \/ \E f \in Nat : current' = [current EXCEPT ![Encoder] = f]
      BY <2>1, <3>1 DEF EncoderPop, FrameIds
    <3>4. current' \in [Workers \cup {Encoder} -> Nat]
      BY <3>3 DEF FramesOK
    <3> QED BY <2>1, <3>2, <3>4 DEF FramesOK, EncoderPop
  <2>2. CASE EncoderInsert
    BY <2>2 DEF FramesOK, HeldIds, EncoderInsert
  <2>3. CASE EncoderWrite
    <3>1. written' = Append(written, next) /\ next \in FrameIds => written' \in Seq(FrameIds)
      BY DEF FramesOK
    <3> QED BY <2>3, <3>1 DEF FramesOK, EncoderWrite, WriteLoop
  <2>4. CASE EncoderGiveBack
    BY <2>4 DEF FramesOK, HeldIds, FrameIds, EncoderGiveBack
  <2> QED
    BY <1>3, <2>1, <2>2, <2>3, <2>4 DEF FramesOK, EncoderNext, EncoderCheck,
           EncoderDrain, EncoderLeftovers, EncoderDiscard, EncoderFlush, CloseStep,
           PipelineFail, SetFailed
<1>4. CASE MainNext
  BY <1>4 DEF FramesOK, MainNext, MainCreateDecoder, MainCreateEncoder,
         MainCreateEncoderOnly, MainCreateWorker, MainCreated, MainJoin, MainReturn,
         Create, CreateFails, CloseStep, PipelineFail, SetFailed
<1>5. CASE UNCHANGED vars
  BY <1>5 DEF FramesOK, vars
<1> QED BY <1>1, <1>2, <1>3, <1>4, <1>5 DEF Next, Stutter

(* processor_finished: the count is zero only when every processor is done. *)
LEMMA FinishStep ==
  ASSUME CoreInv, NEW w \in Workers, WorkerFinish(w)
  PROVE  Counted' /\ (active' = 0 => \A v \in Workers : pc'[v] = "done")
<1> DEFINE S == {v \in Workers : pc[v] # "done"}
           T == {v \in Workers : pc'[v] # "done"}
<1>1. w \in S /\ T = S \ {w}
  BY DEF CoreInv, TypeOK, LabelsOK, WorkerFinish, Goto, Threads, Stages
<1>2. active = Cardinality(S) /\ active' = active - 1
  BY DEF CoreInv, Counted, WorkerFinish
<1>3. active' = Cardinality(T)
  BY <1>1, <1>2, SubsetOfWorkers
<1>4. active' = 0 => T = {}
  BY <1>3, SubsetOfWorkers
<1> QED BY <1>3, <1>4 DEF Counted

(* No other step changes who is done. *)
LEMMA CountedStep ==
  ASSUME CoreInv, [Next]_vars, ~ \E w \in Workers : WorkerFinish(w)
  PROVE  Counted'
<1> USE FilterAssumption DEF CoreInv, TypeOK, LabelsOK, Threads, Stages, Goto, Fail,
       FailLabels, CloseLabels, global, queues, pools, output
<1>0. SUFFICES active' = active /\ \A v \in Workers : pc'[v] = "done" <=> pc[v] = "done"
  <2> SUFFICES ASSUME active' = active, \A v \in Workers : pc'[v] = "done" <=> pc[v] = "done"
               PROVE  Counted'
    OBVIOUS
  <2>1. {v \in Workers : pc'[v] # "done"} = {v \in Workers : pc[v] # "done"}
    OBVIOUS
  <2> QED BY <2>1 DEF Counted
<1>1. CASE DecoderNext
  BY <1>1 DEF DecoderNext, DecoderAcquire, DecoderRead, DecoderCheck, DecoderPush,
         DecoderDrop, DecoderClose, CloseStep, PipelineFail, SetFailed
<1>2. ASSUME NEW w \in Workers, WorkerNext(w) PROVE active' = active /\ \A v \in Workers : pc'[v] = "done" <=> pc[v] = "done"
  BY <1>2 DEF Failing, WorkerNext, WorkerPop, WorkerCheck, WorkerAcquire,
         WorkerProcess, WorkerReleaseInput, AfterInput, WorkerKernel, WorkerPush,
         WorkerReleaseOutput, CloseStep, PipelineFail, SetFailed
<1>3. CASE EncoderNext
  BY <1>3 DEF EncoderNext, EncoderPop, EncoderCheck, EncoderInsert, EncoderWrite,
         WriteLoop, EncoderGiveBack, EncoderDrain, EncoderLeftovers, EncoderDiscard,
         EncoderFlush, CloseStep, PipelineFail, SetFailed
<1>4. CASE MainNext
  BY <1>4 DEF MainNext, MainCreateDecoder, MainCreateEncoder, MainCreateEncoderOnly,
         MainCreateWorker, MainCreated, MainJoin, MainReturn, Create, CreateFails,
         Entry, CloseStep, PipelineFail, SetFailed
<1>5. CASE UNCHANGED vars
  BY <1>5 DEF vars
<1> QED BY <1>1, <1>2, <1>3, <1>4, <1>5 DEF Next, Stutter

(* A thread that is not created yet has done nothing. *)
LEMMA NotStartedStep == CoreInv /\ [Next]_vars => NotStarted'
<1> SUFFICES ASSUME CoreInv, [Next]_vars PROVE NotStarted'
  OBVIOUS
<1> USE FilterAssumption DEF CoreInv, TypeOK, LabelsOK, Labels, Threads, Stages,
        Goto, Fail, FailLabels, DecoderLabels, WorkerLabels, EncoderLabels,
        MainLabels, global, queues, pools, output, CloseLabels
<1>1. CASE DecoderNext
  BY <1>1 DEF NotStarted, Failing, DecoderNext, DecoderAcquire, DecoderRead,
         DecoderCheck, DecoderPush, DecoderDrop, DecoderClose, PipelineFail,
         CloseStep, SetFailed
<1>2. ASSUME NEW w \in Workers, WorkerNext(w) PROVE NotStarted'
  BY <1>2 DEF NotStarted, Failing, WorkerNext, WorkerPop, WorkerCheck,
         WorkerAcquire, WorkerProcess, WorkerReleaseInput, WorkerKernel,
         WorkerPush, WorkerReleaseOutput, WorkerFinish, PipelineFail,
         AfterInput, SetFailed, CloseStep
<1>3. CASE EncoderNext
  BY <1>3 DEF NotStarted, Failing, EncoderNext, EncoderPop, EncoderCheck,
         EncoderInsert, EncoderWrite, EncoderGiveBack, EncoderDrain,
         EncoderLeftovers, EncoderDiscard, EncoderFlush, PipelineFail,
         WriteLoop, SetFailed, CloseStep
<1>4. CASE MainNext
  <2>1. CASE MainCreateDecoder
    BY <2>1 DEF NotStarted, Failing, MainCreateDecoder, Create, CreateFails,
           Entry
  <2>2. CASE MainCreateEncoder
    BY <2>2 DEF NotStarted, Failing, MainCreateEncoder, Create, CreateFails,
           Entry
  <2>3. CASE MainCreateEncoderOnly
    BY <2>3 DEF NotStarted, Failing, MainCreateEncoderOnly
  <2>4. ASSUME NEW w \in Workers, MainCreateWorker(w) PROVE NotStarted'
    BY <2>4 DEF NotStarted, Failing, MainCreateWorker
  <2>5. CASE MainCreated
    BY <2>5 DEF NotStarted, Failing, MainCreated
  <2>6. CASE MainJoin
    BY <2>6 DEF NotStarted, Failing, MainJoin
  <2>7. CASE MainReturn
    BY <2>7 DEF NotStarted, Failing, MainReturn
  <2>8. CASE PipelineFail(Main)
    BY <2>8 DEF NotStarted, Failing, PipelineFail, SetFailed, CloseStep
  <2> QED
    BY <1>4, <2>1, <2>2, <2>3, <2>4, <2>5, <2>6, <2>7, <2>8 DEF NotStarted,
           Failing, MainNext
<1>5. CASE UNCHANGED vars
  BY <1>5 DEF NotStarted, Failing, vars
<1> QED BY <1>1, <1>2, <1>3, <1>4, <1>5 DEF Next, Stutter

(* Without a failure the main thread creates every thread before it joins them. *)
LEMMA StartingStep == CoreInv /\ [Next]_vars => Starting'
<1> SUFFICES ASSUME CoreInv, [Next]_vars PROVE Starting'
  OBVIOUS
<1> USE FilterAssumption DEF CoreInv, TypeOK, LabelsOK, Labels, Threads, Stages,
        Goto, Fail, FailLabels, DecoderLabels, WorkerLabels, EncoderLabels,
        MainLabels, global, queues, pools, output, CloseLabels, FlagsOK
<1>1. CASE DecoderNext
  BY <1>1 DEF Starting, Failing, DecoderNext, DecoderAcquire, DecoderRead,
         DecoderCheck, DecoderPush, DecoderDrop, DecoderClose, PipelineFail,
         CloseStep, SetFailed
<1>2. ASSUME NEW w \in Workers, WorkerNext(w) PROVE Starting'
  BY <1>2 DEF Starting, Failing, WorkerNext, WorkerPop, WorkerCheck,
         WorkerAcquire, WorkerProcess, WorkerReleaseInput, WorkerKernel,
         WorkerPush, WorkerReleaseOutput, WorkerFinish, PipelineFail,
         AfterInput, SetFailed, CloseStep
<1>3. CASE EncoderNext
  BY <1>3 DEF Starting, Failing, EncoderNext, EncoderPop, EncoderCheck,
         EncoderInsert, EncoderWrite, EncoderGiveBack, EncoderDrain,
         EncoderLeftovers, EncoderDiscard, EncoderFlush, PipelineFail,
         WriteLoop, SetFailed, CloseStep
<1>4. CASE MainNext
  <2>1. CASE MainCreateDecoder
    BY <2>1 DEF Starting, Failing, MainCreateDecoder, Create, CreateFails,
           Entry, NotStarted
  <2>2. CASE MainCreateEncoder
    BY <2>2 DEF Starting, Failing, MainCreateEncoder, Create, CreateFails,
           Entry, NotStarted
  <2>3. CASE MainCreateEncoderOnly
    BY <2>3 DEF Starting, Failing, MainCreateEncoderOnly
  <2>4. ASSUME NEW w \in Workers, MainCreateWorker(w) PROVE Starting'
    BY <2>4 DEF Starting, Failing, MainCreateWorker
  <2>5. CASE MainCreated
    BY <2>5 DEF Starting, Failing, MainCreated
  <2>6. CASE MainJoin
    BY <2>6 DEF Starting, Failing, MainJoin
  <2>7. CASE MainReturn
    BY <2>7 DEF Starting, Failing, MainReturn
  <2>8. CASE PipelineFail(Main)
    BY <2>8 DEF Starting, Failing, PipelineFail, SetFailed, CloseStep
  <2> QED
    BY <1>4, <2>1, <2>2, <2>3, <2>4, <2>5, <2>6, <2>7, <2>8 DEF Starting,
           Failing, MainNext
<1>5. CASE UNCHANGED vars
  BY <1>5 DEF Starting, Failing, vars
<1> QED BY <1>1, <1>2, <1>3, <1>4, <1>5 DEF Next, Stutter

(* The processor that closes the processed queue is the last one. *)
LEMMA EndFinish == ASSUME CoreInv, NEW w \in Workers, WorkerFinish(w) PROVE Ending'
<1>1. (active' = 0 => \A v \in Workers : pc'[v] = "done")
  BY FinishStep
<1> QED
    BY <1>1, FilterAssumption DEF CoreInv, TypeOK, LabelsOK, Labels, Threads, Stages,
           Goto, WorkerLabels, FailLabels, global, queues, pools, output, FlagsOK,
           Ending, AfterLoop, Failing, IsClosed, WorkerFinish

(* Without a failure the stages end one after the other. *)
LEMMA EndingStep == CoreInv /\ [Next]_vars => Ending'
<1> SUFFICES ASSUME CoreInv, [Next]_vars PROVE Ending'
  OBVIOUS
<1> USE FilterAssumption DEF CoreInv, TypeOK, LabelsOK, Labels, Threads, Stages,
        Goto, Fail, FailLabels, DecoderLabels, WorkerLabels, EncoderLabels,
        MainLabels, global, queues, pools, output, CloseLabels, FlagsOK
<1>1. CASE DecoderNext
  <2>1. CASE DecoderAcquire
    BY <2>1 DEF Ending, AfterLoop, Failing, IsClosed, DecoderAcquire, AtLimit,
           Total, FramesOK
  <2>2. CASE DecoderRead
    BY <2>2 DEF Ending, AfterLoop, Failing, IsClosed, DecoderRead,
           DecoderInRange, AtLimit, Total, FramesOK
  <2>3. CASE DecoderCheck
    BY <2>3 DEF Ending, AfterLoop, Failing, IsClosed, DecoderCheck
  <2>4. CASE DecoderPush
    BY <2>4 DEF Ending, AfterLoop, Failing, IsClosed, DecoderPush
  <2>5. CASE DecoderDrop
    BY <2>5 DEF Ending, AfterLoop, Failing, IsClosed, DecoderDrop
  <2>6. CASE DecoderClose
    BY <2>6 DEF Ending, AfterLoop, Failing, IsClosed, DecoderClose, CloseStep
  <2>7. CASE PipelineFail(Decoder)
    BY <2>7 DEF Ending, AfterLoop, Failing, IsClosed, PipelineFail, SetFailed,
           CloseStep
  <2> QED
    BY <1>1, <2>1, <2>2, <2>3, <2>4, <2>5, <2>6, <2>7 DEF Ending, AfterLoop,
           Failing, IsClosed, DecoderNext
<1>2. ASSUME NEW w \in Workers, WorkerNext(w) PROVE Ending'
  <2>1. CASE WorkerPop(w)
    BY <2>1 DEF Ending, AfterLoop, Failing, IsClosed, WorkerPop
  <2>2. CASE WorkerCheck(w)
    BY <2>2 DEF Ending, AfterLoop, Failing, IsClosed, WorkerCheck
  <2>3. CASE WorkerAcquire(w)
    BY <2>3 DEF Ending, AfterLoop, Failing, IsClosed, WorkerAcquire
  <2>4. CASE WorkerProcess(w)
    BY <2>4 DEF Ending, AfterLoop, Failing, IsClosed, WorkerProcess
  <2>5. CASE WorkerReleaseInput(w)
    BY <2>5 DEF Ending, AfterLoop, Failing, IsClosed, WorkerReleaseInput,
           AfterInput
  <2>6. CASE WorkerKernel(w)
    BY <2>6 DEF Ending, AfterLoop, Failing, IsClosed, WorkerKernel
  <2>7. CASE WorkerPush(w)
    BY <2>7 DEF Ending, AfterLoop, Failing, IsClosed, WorkerPush
  <2>8. CASE WorkerReleaseOutput(w)
    BY <2>8 DEF Ending, AfterLoop, Failing, IsClosed, WorkerReleaseOutput
  <2>9. CASE WorkerFinish(w)
    BY <2>9, EndFinish
  <2>10. CASE PipelineFail(w)
    BY <2>10 DEF Ending, AfterLoop, Failing, IsClosed, PipelineFail, SetFailed,
           CloseStep
  <2> QED
    BY <1>2, <2>1, <2>2, <2>3, <2>4, <2>5, <2>6, <2>7, <2>8, <2>9, <2>10 DEF
           Ending, AfterLoop, Failing, IsClosed, WorkerNext
<1>3. CASE EncoderNext
  <2>1. CASE EncoderPop
    BY <2>1 DEF Ending, AfterLoop, Failing, IsClosed, EncoderPop
  <2>2. CASE EncoderCheck
    BY <2>2 DEF Ending, AfterLoop, Failing, IsClosed, EncoderCheck
  <2>3. CASE EncoderInsert
    BY <2>3 DEF Ending, AfterLoop, Failing, IsClosed, EncoderInsert
  <2>4. CASE EncoderWrite
    BY <2>4 DEF Ending, AfterLoop, Failing, IsClosed, EncoderWrite, WriteLoop
  <2>5. CASE EncoderGiveBack
    BY <2>5 DEF Ending, AfterLoop, Failing, IsClosed, EncoderGiveBack
  <2>6. CASE EncoderDrain
    BY <2>6 DEF Ending, AfterLoop, Failing, IsClosed, EncoderDrain
  <2>7. CASE EncoderLeftovers
    BY <2>7 DEF Ending, AfterLoop, Failing, IsClosed, EncoderLeftovers
  <2>8. CASE EncoderDiscard
    BY <2>8 DEF Ending, AfterLoop, Failing, IsClosed, EncoderDiscard
  <2>9. CASE EncoderFlush
    BY <2>9 DEF Ending, AfterLoop, Failing, IsClosed, EncoderFlush
  <2>10. CASE PipelineFail(Encoder)
    BY <2>10 DEF Ending, AfterLoop, Failing, IsClosed, PipelineFail, SetFailed,
           CloseStep
  <2> QED
    BY <1>3, <2>1, <2>2, <2>3, <2>4, <2>5, <2>6, <2>7, <2>8, <2>9, <2>10 DEF
           Ending, AfterLoop, Failing, IsClosed, EncoderNext
<1>4. CASE MainNext
  <2>1. CASE MainCreateDecoder
    BY <2>1 DEF Ending, AfterLoop, Failing, IsClosed, MainCreateDecoder,
           Create, CreateFails, Entry, NotStarted
  <2>2. CASE MainCreateEncoder
    BY <2>2 DEF Ending, AfterLoop, Failing, IsClosed, MainCreateEncoder,
           Create, CreateFails, Entry
  <2>3. CASE MainCreateEncoderOnly
    BY <2>3 DEF Ending, AfterLoop, Failing, IsClosed, MainCreateEncoderOnly
  <2>4. ASSUME NEW w \in Workers, MainCreateWorker(w) PROVE Ending'
    BY <2>4 DEF Ending, AfterLoop, Failing, IsClosed, MainCreateWorker
  <2>5. CASE MainCreated
    BY <2>5 DEF Ending, AfterLoop, Failing, IsClosed, MainCreated
  <2>6. CASE MainJoin
    BY <2>6 DEF Ending, AfterLoop, Failing, IsClosed, MainJoin
  <2>7. CASE MainReturn
    BY <2>7 DEF Ending, AfterLoop, Failing, IsClosed, MainReturn
  <2>8. CASE PipelineFail(Main)
    BY <2>8 DEF Ending, AfterLoop, Failing, IsClosed, PipelineFail, SetFailed,
           CloseStep
  <2> QED
    BY <1>4, <2>1, <2>2, <2>3, <2>4, <2>5, <2>6, <2>7, <2>8 DEF Ending,
           AfterLoop, Failing, IsClosed, MainNext
<1>5. CASE UNCHANGED vars
  BY <1>5 DEF Ending, AfterLoop, Failing, IsClosed,
         vars
<1> QED BY <1>1, <1>2, <1>3, <1>4, <1>5 DEF Next, Stutter

-----------------------------------------------------------------------------
(* The output.                                                             *)

(* A write appends the number of frames written so far. *)
LEMMA WriteStep == ASSUME CoreInv, EncoderWrite PROVE OutputInOrder'
<1>1. /\ written' = written \/ written' = Append(written, next)
      /\ Len(written) = next
  BY DEF CoreInv, EncoderWrite, WriteLoop, NextToWrite
<1>2. written \in Seq(Nat) /\ next \in Nat
  BY FramesAreNat DEF CoreInv, TypeOK
<1>3. \A i \in 1 .. Len(written) : written[i] = i - 1
  BY DEF CoreInv, OutputInOrder
<1>4. CASE written' = written
  BY <1>3, <1>4 DEF OutputInOrder
<1>5. CASE written' = Append(written, next)
  BY <1>1, <1>2, <1>3, <1>5 DEF OutputInOrder
<1> QED BY <1>1, <1>4, <1>5

(* No step breaks the order of the frames in the video. *)
LEMMA OrderStep == CoreInv /\ [Next]_vars => OutputInOrder'
<1> SUFFICES ASSUME CoreInv, [Next]_vars PROVE OutputInOrder'
  OBVIOUS
<1> USE FilterAssumption DEF CoreInv, TypeOK, LabelsOK, Labels, Threads, Stages,
        Goto, Fail, FailLabels, DecoderLabels, WorkerLabels, EncoderLabels,
        MainLabels, global, queues, pools, output, FramesOK
<1>1. CASE DecoderNext
  BY <1>1 DEF OutputInOrder, NextToWrite, DecoderNext, DecoderAcquire,
         DecoderRead, DecoderCheck, DecoderPush, DecoderDrop, DecoderClose,
         PipelineFail, CloseStep, SetFailed
<1>2. ASSUME NEW w \in Workers, WorkerNext(w) PROVE OutputInOrder'
  BY <1>2 DEF OutputInOrder, NextToWrite, WorkerNext, WorkerPop, WorkerCheck,
         WorkerAcquire, WorkerProcess, WorkerReleaseInput, WorkerKernel,
         WorkerPush, WorkerReleaseOutput, WorkerFinish, PipelineFail,
         AfterInput, SetFailed, CloseStep
<1>3. CASE EncoderNext
  <2>1. CASE EncoderWrite
    BY <2>1, WriteStep
  <2> QED
    BY <1>3, <2>1 DEF OutputInOrder, NextToWrite, EncoderNext, EncoderPop,
           EncoderCheck, EncoderInsert, EncoderGiveBack, EncoderDrain,
           EncoderLeftovers, EncoderDiscard, EncoderFlush, PipelineFail,
           SetFailed, CloseStep
<1>4. CASE MainNext
  BY <1>4 DEF OutputInOrder, NextToWrite, MainNext, MainCreateDecoder,
         MainCreateEncoder, MainCreateEncoderOnly, MainCreateWorker,
         MainCreated, MainJoin, MainReturn, PipelineFail, Create, CreateFails,
         Entry, SetFailed, CloseStep
<1>5. CASE UNCHANGED vars
  BY <1>5 DEF OutputInOrder, NextToWrite, vars
<1> QED BY <1>1, <1>2, <1>3, <1>4, <1>5 DEF Next, Stutter

(* next_frame_id counts the frames in the video. *)
LEMMA NextStep == CoreInv /\ [Next]_vars => NextToWrite'
<1> SUFFICES ASSUME CoreInv, [Next]_vars PROVE NextToWrite'
  OBVIOUS
<1> USE FilterAssumption DEF CoreInv, TypeOK, LabelsOK, Labels, Threads, Stages,
        Goto, Fail, FailLabels, DecoderLabels, WorkerLabels, EncoderLabels,
        MainLabels, global, queues, pools, output, CloseLabels, FramesOK
<1>1. CASE DecoderNext
  BY <1>1 DEF NextToWrite, Failing, DecoderNext, DecoderAcquire, DecoderRead,
         DecoderCheck, DecoderPush, DecoderDrop, DecoderClose, PipelineFail,
         CloseStep, SetFailed
<1>2. ASSUME NEW w \in Workers, WorkerNext(w) PROVE NextToWrite'
  BY <1>2 DEF NextToWrite, Failing, WorkerNext, WorkerPop, WorkerCheck,
         WorkerAcquire, WorkerProcess, WorkerReleaseInput, WorkerKernel,
         WorkerPush, WorkerReleaseOutput, WorkerFinish, PipelineFail,
         AfterInput, SetFailed, CloseStep
<1>3. CASE EncoderNext
  <2>1. CASE EncoderPop
    BY <2>1 DEF NextToWrite, Failing, EncoderPop
  <2>2. CASE EncoderCheck
    BY <2>2 DEF NextToWrite, Failing, EncoderCheck
  <2>3. CASE EncoderInsert
    BY <2>3 DEF NextToWrite, Failing, EncoderInsert
  <2>4. CASE EncoderWrite
    BY <2>4 DEF NextToWrite, Failing, EncoderWrite, WriteLoop
  <2>5. CASE EncoderGiveBack
    BY <2>5 DEF NextToWrite, Failing, EncoderGiveBack
  <2>6. CASE EncoderDrain
    BY <2>6 DEF NextToWrite, Failing, EncoderDrain
  <2>7. CASE EncoderLeftovers
    BY <2>7 DEF NextToWrite, Failing, EncoderLeftovers
  <2>8. CASE EncoderDiscard
    BY <2>8 DEF NextToWrite, Failing, EncoderDiscard
  <2>9. CASE EncoderFlush
    BY <2>9 DEF NextToWrite, Failing, EncoderFlush
  <2>10. CASE PipelineFail(Encoder)
    BY <2>10 DEF NextToWrite, Failing, PipelineFail, SetFailed, CloseStep
  <2> QED
    BY <1>3, <2>1, <2>2, <2>3, <2>4, <2>5, <2>6, <2>7, <2>8, <2>9, <2>10 DEF
           NextToWrite, Failing, EncoderNext
<1>4. CASE MainNext
  <2>1. CASE MainCreateDecoder
    BY <2>1 DEF NextToWrite, Failing, MainCreateDecoder, Create, CreateFails,
           Entry
  <2>2. CASE MainCreateEncoder
    BY <2>2 DEF NextToWrite, Failing, MainCreateEncoder, Create, CreateFails,
           Entry, NotStarted
  <2>3. CASE MainCreateEncoderOnly
    BY <2>3 DEF NextToWrite, Failing, MainCreateEncoderOnly, NotStarted
  <2>4. ASSUME NEW w \in Workers, MainCreateWorker(w) PROVE NextToWrite'
    BY <2>4 DEF NextToWrite, Failing, MainCreateWorker
  <2>5. CASE MainCreated
    BY <2>5 DEF NextToWrite, Failing, MainCreated
  <2>6. CASE MainJoin
    BY <2>6 DEF NextToWrite, Failing, MainJoin
  <2>7. CASE MainReturn
    BY <2>7 DEF NextToWrite, Failing, MainReturn
  <2>8. CASE PipelineFail(Main)
    BY <2>8 DEF NextToWrite, Failing, PipelineFail, SetFailed, CloseStep
  <2> QED
    BY <1>4, <2>1, <2>2, <2>3, <2>4, <2>5, <2>6, <2>7, <2>8 DEF NextToWrite,
           Failing, MainNext
<1>5. CASE UNCHANGED vars
  BY <1>5 DEF NextToWrite, Failing, vars
<1> QED BY <1>1, <1>2, <1>3, <1>4, <1>5 DEF Next, Stutter

(* A failure is never taken back. *)
LEMMA UnfailedBackwards == CoreInv /\ [Next]_vars /\ Unfailed' => Unfailed
<1> SUFFICES ASSUME CoreInv, [Next]_vars, ~Unfailed PROVE ~Unfailed'
  OBVIOUS
<1> USE FilterAssumption DEF CoreInv, TypeOK, LabelsOK, FlagsOK, Unfailed, Threads,
       Stages, Goto, Fail, global, queues, pools, output
<1>1. CASE DecoderNext
  BY <1>1 DEF DecoderNext, DecoderAcquire, DecoderRead, DecoderCheck, DecoderPush,
         DecoderDrop, DecoderClose, CloseStep, PipelineFail, SetFailed
<1>2. ASSUME NEW w \in Workers, WorkerNext(w) PROVE ~Unfailed'
  BY <1>2 DEF WorkerNext, WorkerPop, WorkerCheck, WorkerAcquire, WorkerProcess,
         WorkerReleaseInput, AfterInput, WorkerKernel, WorkerPush,
         WorkerReleaseOutput, WorkerFinish, CloseStep, PipelineFail, SetFailed
<1>3. CASE EncoderNext
  BY <1>3 DEF EncoderNext, EncoderPop, EncoderCheck, EncoderInsert, EncoderWrite,
         WriteLoop, EncoderGiveBack, EncoderDrain, EncoderLeftovers, EncoderDiscard,
         EncoderFlush, CloseStep, PipelineFail, SetFailed
<1>4. CASE MainNext
  BY <1>4 DEF NotStarted, MainNext, MainCreateDecoder, MainCreateEncoder,
         MainCreateEncoderOnly, MainCreateWorker, MainCreated, MainJoin, MainReturn,
         Create, CreateFails, Entry, CloseStep, PipelineFail, SetFailed
<1>5. CASE UNCHANGED vars
  BY <1>5 DEF vars
<1> QED BY <1>1, <1>2, <1>3, <1>4, <1>5 DEF Next, Stutter

(* Without a failure no frame is lost on its way through the pipeline. *)
LEMMA CoveredStep == CoreInv /\ [Next]_vars => Covered'
<1> SUFFICES ASSUME CoreInv, [Next]_vars, Unfailed' PROVE 0 .. decoded' - 1 \subseteq Places'
  BY DEF Covered
<1>0. Unfailed /\ ~failed' /\ (\A t \in Stages : pc'[t] # "fail") /\ 0 .. decoded - 1 \subseteq Places
  BY UnfailedBackwards DEF CoreInv, Covered, Unfailed
<1> USE FilterAssumption, <1>0 DEF CoreInv, TypeOK, LabelsOK, Unfailed, Threads, Stages,
       Goto, Fail, FailLabels, CloseLabels, global, queues, pools, output
<1>1. CASE DecoderNext
  <2>1. CASE DecoderCheck
    <3>1. decoded' = decoded + 1 /\ pc'[Decoder] = "push" /\ Places \subseteq Places'
      BY <2>1 DEF DecoderCheck, Places, InDecoder, InRawQueue, InWorkers,
             InProcessedQueue, InEncoder, Written, HoldsInput, HoldsOutput, IdsIn
    <3>2. decoded \in Places'
      BY <3>1 DEF Places, InDecoder, FramesOK
    <3>3. decoded \in Nat
      BY DEF FramesOK, FrameIds
    <3> QED BY <3>1, <3>2, <3>3
  <2>2. CASE DecoderPush
    <3>1. "rawQueue" \notin closed
      BY <2>2 DEF DecoderPush, Ending
    <3>2. rawQueue' = Append(rawQueue, decoded - 1) /\ InDecoder = {decoded - 1}
      BY <2>2, <3>1 DEF DecoderPush, IsClosed, InDecoder
    <3>3. InRawQueue' = InRawQueue \cup InDecoder
      <4>1. rawQueue \in Seq(Int) /\ decoded - 1 \in Int
        BY FramesAreNat, SeqMonotonic, Nat \subseteq Int
      <4> QED BY <3>2, <4>1, IdsOfAppend DEF InRawQueue
    <3> QED BY <2>2, <3>3 DEF DecoderPush, Places, InWorkers, InProcessedQueue,
           InEncoder, Written, HoldsInput, HoldsOutput
  <2> QED
    BY <1>1, <2>1, <2>2 DEF DecoderNext, DecoderAcquire, DecoderRead, DecoderDrop,
           DecoderClose, CloseStep, PipelineFail, SetFailed, Failing, Places,
           InDecoder, InRawQueue, InWorkers, InProcessedQueue, InEncoder, Written,
           HoldsInput, HoldsOutput
<1>2. ASSUME NEW w \in Workers, WorkerNext(w) PROVE 0 .. decoded' - 1 \subseteq Places'
  <2>1. CASE WorkerPop(w)
    <3>1. CASE rawQueue = <<>>
      BY <2>1, <3>1 DEF WorkerPop, Places, InDecoder, InRawQueue, InWorkers,
             InProcessedQueue, InEncoder, Written, HoldsInput, HoldsOutput
    <3>2. CASE rawQueue # <<>>
      <4>1. InRawQueue = InRawQueue' \cup {Head(rawQueue)}
        BY <2>1, <3>2, IdsOfTail DEF WorkerPop, InRawQueue, FramesOK
      <4>2. Head(rawQueue) \in InWorkers' /\ InWorkers \subseteq InWorkers'
        <5>1. current'[w] = Head(rawQueue) /\ \A v \in Workers \ {w} : current'[v] = current[v]
          BY <2>1, <3>2 DEF WorkerPop, FramesOK
        <5>2. w \in HoldsInput' /\ w \notin HoldsInput \cup HoldsOutput
          BY <2>1, <3>2 DEF WorkerPop, HoldsInput, HoldsOutput
        <5>3. HoldsInput \cup HoldsOutput \subseteq (HoldsInput \cup HoldsOutput)'
          BY <2>1, <3>2 DEF WorkerPop, HoldsInput, HoldsOutput
        <5>4. HoldsInput \cup HoldsOutput \subseteq Workers
          BY DEF HoldsInput, HoldsOutput
        <5> QED BY <5>1, <5>2, <5>3, <5>4 DEF InWorkers
      <4> QED BY <2>1, <4>1, <4>2 DEF WorkerPop, Places, InDecoder, InProcessedQueue,
             InEncoder, Written, FramesOK
    <3> QED BY <3>1, <3>2
  <2>2. CASE WorkerPush(w)
    <3>1. "processedQueue" \notin closed
      BY <2>2 DEF WorkerPush, Ending
    <3>2. processedQueue' = Append(processedQueue, current[w]) /\ current[w] \in FrameIds
      BY <2>2, <3>1 DEF WorkerPush, IsClosed, HeldIds, HoldsOutput
    <3>3. InProcessedQueue' = InProcessedQueue \cup {current[w]}
      BY <3>2, IdsOfAppend DEF InProcessedQueue, FramesOK
    <3>4. InWorkers \subseteq InWorkers' \cup {current[w]}
      BY <2>2 DEF WorkerPush, InWorkers, HoldsInput, HoldsOutput
    <3> QED BY <2>2, <3>3, <3>4 DEF WorkerPush, Places, InDecoder, InRawQueue,
           InEncoder, Written
  <2>3. CASE WorkerReleaseInput(w)
    BY <2>3 DEF WorkerReleaseInput, AfterInput, Failing, Places, InDecoder,
           InRawQueue, InWorkers, InProcessedQueue, InEncoder, Written, HoldsInput,
           HoldsOutput
  <2> QED
    BY <1>2, <2>1, <2>2, <2>3 DEF WorkerNext, WorkerCheck, WorkerAcquire,
           WorkerProcess, WorkerKernel, WorkerReleaseOutput, WorkerFinish, CloseStep,
           PipelineFail, SetFailed, Failing, Places, InDecoder, InRawQueue,
           InWorkers, InProcessedQueue, InEncoder, Written, HoldsInput, HoldsOutput
<1>3. CASE EncoderNext
  <2>1. CASE EncoderPop
    <3>1. CASE processedQueue = <<>>
      BY <2>1, <3>1 DEF EncoderPop, Places, InDecoder, InRawQueue, InWorkers,
             InProcessedQueue, InEncoder, Written, HoldsInput, HoldsOutput
    <3>2. CASE processedQueue # <<>>
      <4>1. InProcessedQueue = InProcessedQueue' \cup {Head(processedQueue)}
        BY <2>1, <3>2, IdsOfTail DEF EncoderPop, InProcessedQueue, FramesOK
      <4>2. Head(processedQueue) \in InEncoder' /\ InEncoder = {}
        BY <2>1, <3>2 DEF EncoderPop, InEncoder, FramesOK
      <4>3. InWorkers' = InWorkers
        BY <2>1 DEF EncoderPop, InWorkers, HoldsInput, HoldsOutput, FramesOK
      <4> QED BY <2>1, <4>1, <4>2, <4>3 DEF EncoderPop, Places, InDecoder,
             InRawQueue, Written
    <3> QED BY <3>1, <3>2
  <2>2. CASE EncoderWrite
    <3>1. written' = written \/ written' = Append(written, next)
      BY <2>2 DEF EncoderWrite
    <3>2. IdsIn(written) \subseteq IdsIn(written')
      <4>1. next \in Nat /\ written \in Seq(Nat)
        BY FramesAreNat
      <4>2. IdsIn(Append(written, next)) = IdsIn(written) \cup {next}
        BY <4>1, IdsOfAppend
      <4> QED BY <3>1, <4>2
    <3>3. written' = Append(written, next) => next \in IdsIn(written')
      <4>1. next \in Nat /\ written \in Seq(Nat)
        BY FramesAreNat
      <4>2. IdsIn(Append(written, next)) = IdsIn(written) \cup {next}
        BY <4>1, IdsOfAppend
      <4> QED BY <4>2
    <3>4. pending \subseteq pending' \cup IdsIn(written')
      BY <2>2, <3>3 DEF EncoderWrite, WriteLoop
    <3>5. InWorkers' = InWorkers /\ InEncoder = {} /\ UNCHANGED <<InDecoder, InRawQueue, InProcessedQueue, decoded>>
      BY <2>2 DEF EncoderWrite, WriteLoop, InWorkers, HoldsInput, HoldsOutput,
             InEncoder, InDecoder, InRawQueue, InProcessedQueue
    <3> QED BY <3>2, <3>4, <3>5 DEF Places, Written
  <2> QED
    BY <1>3, <2>1, <2>2 DEF EncoderNext, EncoderCheck, EncoderInsert,
           EncoderGiveBack, EncoderDrain, EncoderLeftovers, EncoderDiscard,
           EncoderFlush, CloseStep, PipelineFail, SetFailed, Failing, Places,
           InDecoder, InRawQueue, InWorkers, InProcessedQueue, InEncoder, Written,
           HoldsInput, HoldsOutput
<1>4. CASE MainNext
  BY <1>4 DEF MainNext, MainCreateDecoder, MainCreateEncoder, MainCreateEncoderOnly,
         MainCreateWorker, MainCreated, MainJoin, MainReturn, Create, CreateFails,
         Entry, CloseStep, PipelineFail, SetFailed, NotStarted, Places, InDecoder,
         InRawQueue, InWorkers, InProcessedQueue, InEncoder, Written, HoldsInput,
         HoldsOutput
<1>5. CASE UNCHANGED vars
  BY <1>5 DEF vars, Places, InDecoder, InRawQueue, InWorkers, InProcessedQueue,
         InEncoder, Written, HoldsInput, HoldsOutput
<1> QED BY <1>1, <1>2, <1>3, <1>4, <1>5 DEF Next, Stutter

(* run_filter_pipeline returns 0 only after every thread it joined has ended. *)
LEMMA SucceededStep == CoreInv /\ [Next]_vars => Succeeded'
<1> SUFFICES ASSUME CoreInv, [Next]_vars PROVE Succeeded'
  OBVIOUS
<1> USE FilterAssumption DEF CoreInv, TypeOK, LabelsOK, FlagsOK, Threads, Stages, Goto,
       Fail, FailLabels, MainLabels, global, queues, pools, output, Running
<1>1. CASE DecoderNext
  BY <1>1 DEF Succeeded, DecoderNext, DecoderAcquire, DecoderRead, DecoderCheck,
         DecoderPush, DecoderDrop, DecoderClose, CloseStep, PipelineFail, SetFailed
<1>2. ASSUME NEW w \in Workers, WorkerNext(w) PROVE Succeeded'
  BY <1>2 DEF Succeeded, WorkerNext, WorkerPop, WorkerCheck, WorkerAcquire,
         WorkerProcess, WorkerReleaseInput, AfterInput, WorkerKernel, WorkerPush,
         WorkerReleaseOutput, WorkerFinish, CloseStep, PipelineFail, SetFailed
<1>3. CASE EncoderNext
  BY <1>3 DEF Succeeded, EncoderNext, EncoderPop, EncoderCheck, EncoderInsert,
         EncoderWrite, WriteLoop, EncoderGiveBack, EncoderDrain, EncoderLeftovers,
         EncoderDiscard, EncoderFlush, CloseStep, PipelineFail, SetFailed
<1>4. CASE MainNext
  <2>1. CASE MainReturn
    BY <2>1 DEF Succeeded, Starting, MainReturn, EncoderLabels
  <2> QED
    BY <1>4, <2>1 DEF Succeeded, MainNext, MainCreateDecoder, MainCreateEncoder,
           MainCreateEncoderOnly, MainCreateWorker, MainCreated, MainJoin, Create,
           CreateFails, CloseStep, PipelineFail, SetFailed
<1>5. CASE UNCHANGED vars
  BY <1>5 DEF Succeeded, vars
<1> QED BY <1>1, <1>2, <1>3, <1>4, <1>5 DEF Next, Stutter

(* Without a failure, and with nothing left on the way, every frame of the video is
   in the output. *)
LEMMA AllWritten ==
  ASSUME TypeOK, Covered, OutputInOrder,
         ~failed,
         decoded = Total, rawQueue = <<>>, processedQueue = <<>>, pending = {},
         pc[Decoder] = "done", pc[Encoder] \in {"flush", "done"},
         \A w \in Workers : pc[w] = "done"
  PROVE  Len(written) = Total
<1>1. 0 .. Total - 1 \subseteq Written
  <2>1. Unfailed
    BY DEF Unfailed, Stages
  <2>2. /\ InDecoder = {} /\ InRawQueue = {} /\ InWorkers = {}
        /\ InProcessedQueue = {} /\ InEncoder = {}
    BY DEF InDecoder, InRawQueue, InWorkers, InProcessedQueue, InEncoder, IdsIn,
           HoldsInput, HoldsOutput
  <2> QED BY <2>1, <2>2 DEF Covered, Places
<1>2. written \in Seq(FrameIds) /\ Total \in Nat
  BY TotalInNat DEF TypeOK, FramesOK
<1>3. Len(written) <= Total
  <2> SUFFICES ASSUME Len(written) > Total PROVE FALSE
    BY <1>2
  <2>1. Total + 1 \in 1 .. Len(written)
    BY <1>2
  <2>2. written[Total + 1] = Total /\ written[Total + 1] \in FrameIds
    BY <1>2, <2>1 DEF OutputInOrder
  <2> QED BY <1>2, <2>2 DEF FrameIds
<1>4. Len(written) >= Total
  <2> SUFFICES ASSUME Len(written) < Total PROVE FALSE
    BY <1>2
  <2>1. Total - 1 \in Written
    BY <1>1, <1>2
  <2>2. PICK i \in 1 .. Len(written) : written[i] = Total - 1
    BY <2>1 DEF Written, IdsIn
  <2> QED BY <1>2, <2>2 DEF OutputInOrder
<1> QED BY <1>2, <1>3, <1>4

(* The meaning of a successful return follows from the other conjuncts. *)
LEMMA Complete ==
  TypeOK /\ Starting /\ Ending /\ OutputInOrder /\ Covered /\ Succeeded
    => SuccessMeansComplete
<1> SUFFICES ASSUME TypeOK, Starting, Ending, OutputInOrder, Covered, Succeeded,
                    result = "ok"
             PROVE  Len(written) = Total /\ flushed # "no"
  BY DEF SuccessMeansComplete
<1>1. /\ ~failed /\ pc[Main] = "done" /\ Running = {} /\ pc[Encoder] = "done"
  BY DEF Succeeded
<1>2. pc[Decoder] = "done" /\ \A w \in Workers : pc[w] = "done"
  BY <1>1, FilterAssumption DEF Starting, Running, Stages, FailLabels, TypeOK,
         LabelsOK, DecoderLabels
<1>3. /\ decoded = Total /\ flushed # "no"
      /\ rawQueue = <<>> /\ processedQueue = <<>> /\ pending = {}
  BY <1>1, <1>2, FilterAssumption DEF Ending, AfterLoop
<1> QED BY <1>1, <1>2, <1>3, AllWritten

-----------------------------------------------------------------------------
(* The buffers.                                                            *)

(* Counting pending frames: adding one adds at most one. *)
LEMMA PendingFinite ==
  ASSUME NEW S, S \subseteq FrameIds
  PROVE  /\ IsFiniteSet(S) /\ Cardinality(S) \in Nat
         /\ \A f \in S : Cardinality(S \ {f}) = Cardinality(S) - 1
         /\ \A f \in FrameIds : /\ Cardinality(S \cup {f}) \in Nat
                              /\ Cardinality(S \cup {f}) <= Cardinality(S) + 1
<1>1. IsFiniteSet(FrameIds)
  BY TotalInNat, FS_Interval DEF FrameIds
<1>2. IsFiniteSet(S) /\ Cardinality(S) \in Nat
  BY <1>1, FS_Subset, FS_CardinalityType
<1>3. ASSUME NEW f \in FrameIds
      PROVE  /\ Cardinality(S \cup {f}) \in Nat
             /\ Cardinality(S \cup {f}) <= Cardinality(S) + 1
  <2>1. Cardinality(S \cup {f}) = Cardinality(S) \/ Cardinality(S \cup {f}) = Cardinality(S) + 1
    BY <1>2, FS_AddElement
  <2> QED BY <1>2, <2>1
<1>4. \A f \in S : Cardinality(S \ {f}) = Cardinality(S) - 1
  BY <1>2, FS_RemoveElement
<1> QED BY <1>2, <1>3, <1>4

(* All the summands of a pool's count are numbers. *)
LEMMA Counts ==
  ASSUME CoreInv
  PROVE  /\ HoldsInput \subseteq Workers /\ HoldsOutput \subseteq Workers
         /\ Cardinality(HoldsInput) \in Nat /\ Cardinality(HoldsOutput) \in Nat
         /\ Cardinality(pending) \in Nat
         /\ Len(rawQueue) \in Nat /\ Len(processedQueue) \in Nat
         /\ rawAvailable \in Nat /\ processedAvailable \in Nat
         /\ PoolCapacity \in Nat
<1>1. HoldsInput \subseteq Workers /\ HoldsOutput \subseteq Workers
  BY DEF HoldsInput, HoldsOutput
<1>2. Cardinality(Workers) \in Nat
  BY FilterAssumption, FS_CardinalityType
<1>3. PoolCapacity \in Nat
  BY <1>2, FilterAssumption DEF PoolCapacity
<1>4. Cardinality(pending) \in Nat /\ Len(rawQueue) \in Nat /\ Len(processedQueue) \in Nat
  BY PendingFinite, LenProperties DEF CoreInv, TypeOK, FramesOK
<1>5. rawAvailable \in Nat /\ processedAvailable \in Nat
  BY <1>3 DEF CoreInv, TypeOK, BoundsOK
<1> QED BY <1>1, <1>3, <1>4, <1>5, SubsetOfWorkers

(* A push and a pop change the length of a queue by one. *)
LEMMA LenOfQueues ==
  ASSUME NEW q, NEW S, q \in Seq(S)
  PROVE /\ \A e \in S : Len(Append(q, e)) = Len(q) + 1
        /\ q # <<>> => Len(Tail(q)) = Len(q) - 1
BY AppendProperties, HeadTailProperties

(* The first of four naturals is at most their sum. *)
LEMMA FirstSummand ==
  ASSUME NEW a \in Nat, NEW b \in Nat, NEW c \in Nat, NEW d \in Nat, NEW bound \in Nat,
         a + b + c + d <= bound
  PROVE  a <= bound
OBVIOUS

(* The same of five. *)
LEMMA FirstOfFive ==
  ASSUME NEW a \in Nat, NEW b \in Nat, NEW c \in Nat, NEW d \in Nat, NEW e \in Nat,
         NEW bound \in Nat, a + b + c + d + e <= bound
  PROVE  a <= bound
OBVIOUS

(* No step makes more buffers than a pool was created with. *)
LEMMA BuffersStep == CoreInv /\ [Next]_vars => BuffersBounded'
<1> SUFFICES ASSUME CoreInv, [Next]_vars PROVE BuffersBounded'
  OBVIOUS
<1> USE FilterAssumption DEF LabelsOK, Threads, Stages, Goto, Fail, global, queues,
       pools, output
<1>0. LabelsOK
  BY DEF CoreInv, TypeOK
<1>b. BuffersBounded
  BY DEF CoreInv
<1>c. /\ HoldsInput \subseteq Workers /\ HoldsOutput \subseteq Workers
      /\ Cardinality(HoldsInput) \in Nat /\ Cardinality(HoldsOutput) \in Nat
      /\ Cardinality(pending) \in Nat
      /\ Len(rawQueue) \in Nat /\ Len(processedQueue) \in Nat
      /\ rawAvailable \in Nat /\ processedAvailable \in Nat
      /\ PoolCapacity \in Nat
      /\ DecoderHolds \in {0, 1} /\ EncoderHolds \in {0, 1}
  BY Counts DEF DecoderHolds, EncoderHolds
<1>1. CASE DecoderNext
  <2>1. /\ HoldsInput' = HoldsInput /\ HoldsOutput' = HoldsOutput /\ pending' = pending
        /\ processedAvailable' = processedAvailable /\ processedQueue' = processedQueue
        /\ EncoderHolds' = EncoderHolds
    BY <1>0, <1>1 DEF HoldsInput, HoldsOutput, EncoderHolds, DecoderNext,
           DecoderAcquire, DecoderRead, DecoderCheck, DecoderPush, DecoderDrop,
           DecoderClose, CloseStep, PipelineFail, SetFailed, ReleaseRaw
  <2>2. CASE DecoderPush
    <3>1. decoded - 1 \in Int /\ rawQueue \in Seq(Int)
      BY FramesAreNat, SeqMonotonic, Nat \subseteq Int DEF CoreInv, TypeOK, FramesOK
    <3>2. Len(Append(rawQueue, decoded - 1)) = Len(rawQueue) + 1
      BY <3>1, LenOfQueues
    <3>3. DecoderHolds = 1 /\ rawAvailable' = rawAvailable
      BY <2>2 DEF DecoderPush, DecoderHolds
    <3>4. CASE IsClosed("rawQueue")
      <4>1. DecoderHolds' = 1 /\ rawQueue' = rawQueue
        BY <1>0, <2>2, <3>4 DEF DecoderPush, DecoderHolds
      <4> QED BY SMTT(30), <1>b, <1>c, <2>1, <3>3, <4>1 DEF BuffersBounded,
             RawBuffers, ProcessedBuffers
    <3>5. CASE ~IsClosed("rawQueue")
      <4>1. DecoderHolds' = 0 /\ Len(rawQueue') = Len(rawQueue) + 1
        BY <1>0, <2>2, <3>2, <3>5 DEF DecoderPush, DecoderHolds
      <4> QED BY SMTT(30), <1>b, <1>c, <2>1, <3>3, <4>1 DEF BuffersBounded,
             RawBuffers, ProcessedBuffers
    <3> QED BY <3>4, <3>5
  <2>3. CASE ~DecoderPush
    <3>1. rawQueue' = rawQueue
      BY <1>1, <2>3 DEF DecoderNext, DecoderAcquire, DecoderRead, DecoderCheck,
             DecoderDrop, DecoderClose, CloseStep, PipelineFail, SetFailed
    <3>2. \/ rawAvailable' = rawAvailable /\ DecoderHolds' = DecoderHolds
          \/ rawAvailable' = rawAvailable /\ DecoderHolds' = 0
          \/ rawAvailable' = rawAvailable - 1 /\ DecoderHolds = 0 /\ DecoderHolds' = 1
          \/ rawAvailable' = rawAvailable + 1 /\ DecoderHolds = 1 /\ DecoderHolds' = 0
      BY <1>0, <1>1, <2>3 DEF DecoderHolds, Failing, CoreInv, DecoderNext,
             DecoderAcquire, DecoderRead, DecoderCheck, DecoderDrop, DecoderClose,
             CloseStep, PipelineFail, SetFailed, FailLabels, ReleaseRaw
    <3>11. CASE rawAvailable' = rawAvailable /\ DecoderHolds' = DecoderHolds
      BY SMTT(30), <1>b, <1>c, <2>1, <3>1, <3>11 DEF BuffersBounded, RawBuffers,
             ProcessedBuffers
    <3>12. CASE rawAvailable' = rawAvailable /\ DecoderHolds' = 0
      BY SMTT(30), <1>b, <1>c, <2>1, <3>1, <3>12 DEF BuffersBounded, RawBuffers,
             ProcessedBuffers
    <3>13. CASE rawAvailable' = rawAvailable - 1 /\ DecoderHolds = 0 /\ DecoderHolds' = 1
      BY SMTT(30), <1>b, <1>c, <2>1, <3>1, <3>13 DEF BuffersBounded, RawBuffers,
             ProcessedBuffers
    <3>14. CASE rawAvailable' = rawAvailable + 1 /\ DecoderHolds = 1 /\ DecoderHolds' = 0
      BY SMTT(30), <1>b, <1>c, <2>1, <3>1, <3>14 DEF BuffersBounded, RawBuffers,
             ProcessedBuffers
    <3> QED BY <3>2, <3>11, <3>12, <3>13, <3>14
  <2> QED BY <2>2, <2>3
<1>2. ASSUME NEW w \in Workers, WorkerNext(w) PROVE BuffersBounded'
  <2>1. pending' = pending /\ DecoderHolds' = DecoderHolds /\ EncoderHolds' = EncoderHolds
    BY <1>0, <1>2 DEF DecoderHolds, EncoderHolds, WorkerNext, WorkerPop, WorkerCheck,
           WorkerAcquire, WorkerProcess, WorkerReleaseInput, AfterInput,
           WorkerKernel, WorkerPush, WorkerReleaseOutput, WorkerFinish, CloseStep,
           PipelineFail, SetFailed
  <2>2. CASE WorkerPop(w)
    <3>1. CASE rawQueue = <<>>
      <4>1. HoldsInput' = HoldsInput /\ HoldsOutput' = HoldsOutput /\ UNCHANGED <<queues, pools>>
        BY <1>0, <2>2, <3>1 DEF WorkerPop, HoldsInput, HoldsOutput
      <4> QED BY SMTT(30), <1>b, <1>c, <2>1, <4>1 DEF BuffersBounded, RawBuffers,
             ProcessedBuffers
    <3>2. CASE rawQueue # <<>>
      <4>1. Len(rawQueue') = Len(rawQueue) - 1
        BY <2>2, <3>2, LenOfQueues DEF WorkerPop, CoreInv, TypeOK, FramesOK
      <4>2. HoldsInput' = HoldsInput \cup {w} /\ w \notin HoldsInput /\ HoldsOutput' = HoldsOutput
        BY <1>0, <2>2, <3>2 DEF WorkerPop, HoldsInput, HoldsOutput
      <4>3. Cardinality(HoldsInput') = Cardinality(HoldsInput) + 1
        BY <4>2, <1>c, SubsetOfWorkers
      <4> QED BY SMTT(30), <1>0, <1>b, <1>c, <2>1, <2>2, <4>1, <4>2, <4>3
             DEF WorkerPop, BuffersBounded, RawBuffers, ProcessedBuffers
    <3> QED BY <3>1, <3>2
  <2>3. CASE WorkerCheck(w) \/ WorkerFinish(w) \/ WorkerProcess(w) \/ WorkerKernel(w) \/ PipelineFail(w)
    <3>1. UNCHANGED <<HoldsOutput, queues, pools>>
      BY <1>0, <2>3 DEF Failing, CoreInv, FailLabels, HoldsOutput, WorkerCheck,
             WorkerFinish, WorkerProcess, WorkerKernel, PipelineFail, SetFailed,
             CloseStep
    <3>2. HoldsInput' = HoldsInput \/ (w \in HoldsInput /\ HoldsInput' = HoldsInput \ {w})
      BY <1>0, <2>3 DEF Failing, CoreInv, FailLabels, HoldsInput, WorkerCheck,
             WorkerFinish, WorkerProcess, WorkerKernel, PipelineFail, SetFailed,
             CloseStep
    <3>3. Cardinality(HoldsInput') \in Nat /\ Cardinality(HoldsInput') <= Cardinality(HoldsInput)
      BY <3>2, <1>c, SubsetOfWorkers
    <3> QED BY SMTT(30), <1>b, <1>c, <2>1, <3>1, <3>3 DEF BuffersBounded, RawBuffers,
           ProcessedBuffers
  <2>4. CASE WorkerAcquire(w)
    <3>1. CASE IsClosed("processedPool")
      <4>1. HoldsInput' = HoldsInput /\ HoldsOutput' = HoldsOutput /\ UNCHANGED <<queues, pools>>
        BY <1>0, <2>4, <3>1 DEF WorkerAcquire, HoldsInput, HoldsOutput
      <4> QED BY SMTT(30), <1>b, <1>c, <2>1, <4>1 DEF BuffersBounded, RawBuffers,
             ProcessedBuffers
    <3>2. CASE ~IsClosed("processedPool")
      <4>1. HoldsInput' = HoldsInput /\ HoldsOutput' = HoldsOutput \cup {w} /\ w \notin HoldsOutput
        BY <1>0, <2>4, <3>2 DEF WorkerAcquire, HoldsInput, HoldsOutput
      <4>2. Cardinality(HoldsOutput') = Cardinality(HoldsOutput) + 1
        BY <4>1, <1>c, SubsetOfWorkers
      <4>3. /\ rawAvailable' = rawAvailable /\ processedAvailable' = processedAvailable - 1
            /\ rawQueue' = rawQueue /\ processedQueue' = processedQueue
        BY <2>4, <3>2 DEF WorkerAcquire
      <4> QED BY SMTT(30), <1>b, <1>c, <2>1, <4>1, <4>2, <4>3 DEF BuffersBounded,
             RawBuffers, ProcessedBuffers
    <3> QED BY <3>1, <3>2
  <2>5. CASE WorkerReleaseInput(w)
    <3>1. HoldsInput' = HoldsInput \ {w} /\ w \in HoldsInput /\ HoldsOutput' = HoldsOutput
      BY <1>0, <2>5 DEF WorkerReleaseInput, AfterInput, HoldsInput, HoldsOutput
    <3>2. Cardinality(HoldsInput') = Cardinality(HoldsInput) - 1
      BY <3>1, <1>c, SubsetOfWorkers
    <3>3. /\ rawAvailable' = rawAvailable \/ rawAvailable' = rawAvailable + 1
          /\ processedAvailable' = processedAvailable
          /\ rawQueue' = rawQueue /\ processedQueue' = processedQueue
      BY <2>5 DEF WorkerReleaseInput, ReleaseRaw
    <3>11. CASE rawAvailable' = rawAvailable
      BY SMTT(30), <1>b, <1>c, <2>1, <3>1, <3>2, <3>3, <3>11 DEF BuffersBounded,
             RawBuffers, ProcessedBuffers
    <3>12. CASE rawAvailable' = rawAvailable + 1
      BY SMTT(30), <1>b, <1>c, <2>1, <3>1, <3>2, <3>3, <3>12 DEF BuffersBounded,
             RawBuffers, ProcessedBuffers
    <3> QED BY <3>3, <3>11, <3>12
  <2>6. CASE WorkerPush(w)
    <3>1. CASE IsClosed("processedQueue")
      <4>1. HoldsInput' = HoldsInput /\ HoldsOutput' = HoldsOutput /\ UNCHANGED <<queues, pools>>
        BY <1>0, <2>6, <3>1 DEF WorkerPush, HoldsInput, HoldsOutput
      <4> QED BY SMTT(30), <1>b, <1>c, <2>1, <4>1 DEF BuffersBounded, RawBuffers,
             ProcessedBuffers
    <3>2. CASE ~IsClosed("processedQueue")
      <4>1. HoldsInput' = HoldsInput /\ HoldsOutput' = HoldsOutput \ {w} /\ w \in HoldsOutput
        BY <1>0, <2>6, <3>2 DEF WorkerPush, HoldsInput, HoldsOutput
      <4>2. Cardinality(HoldsOutput') = Cardinality(HoldsOutput) - 1
        BY <4>1, <1>c, SubsetOfWorkers
      <4>3. Len(processedQueue') = Len(processedQueue) + 1
        <5>1. current[w] \in FrameIds /\ processedQueue \in Seq(FrameIds)
          BY <4>1 DEF CoreInv, HeldIds, TypeOK, FramesOK
        <5> QED BY <2>6, <3>2, <5>1, LenOfQueues DEF WorkerPush
      <4> QED BY SMTT(30), <1>0, <1>b, <1>c, <2>1, <2>6, <3>2, <4>1, <4>2, <4>3
             DEF WorkerPush, BuffersBounded, RawBuffers, ProcessedBuffers
    <3> QED BY <3>1, <3>2
  <2>7. CASE WorkerReleaseOutput(w)
    <3>1. HoldsInput' = HoldsInput /\ HoldsOutput' = HoldsOutput \ {w} /\ w \in HoldsOutput
      BY <1>0, <2>7 DEF WorkerReleaseOutput, HoldsInput, HoldsOutput
    <3>2. Cardinality(HoldsOutput') = Cardinality(HoldsOutput) - 1
      BY <3>1, <1>c, SubsetOfWorkers
    <3>3. /\ rawAvailable' = rawAvailable
          /\ processedAvailable' = processedAvailable \/ processedAvailable' = processedAvailable + 1
          /\ rawQueue' = rawQueue /\ processedQueue' = processedQueue
      BY <2>7 DEF WorkerReleaseOutput, ReleaseProcessed
    <3>11. CASE processedAvailable' = processedAvailable
      BY SMTT(30), <1>b, <1>c, <2>1, <3>1, <3>2, <3>3, <3>11 DEF BuffersBounded,
             RawBuffers, ProcessedBuffers
    <3>12. CASE processedAvailable' = processedAvailable + 1
      BY SMTT(30), <1>b, <1>c, <2>1, <3>1, <3>2, <3>3, <3>12 DEF BuffersBounded,
             RawBuffers, ProcessedBuffers
    <3> QED BY <3>3, <3>11, <3>12
  <2> QED BY <1>2, <2>2, <2>3, <2>4, <2>5, <2>6, <2>7 DEF WorkerNext
<1>3. CASE EncoderNext
  <2>1. /\ HoldsInput' = HoldsInput /\ HoldsOutput' = HoldsOutput
        /\ rawAvailable' = rawAvailable /\ rawQueue' = rawQueue
        /\ DecoderHolds' = DecoderHolds
    BY <1>0, <1>3 DEF HoldsInput, HoldsOutput, DecoderHolds, EncoderNext, EncoderPop,
           EncoderCheck, EncoderInsert, EncoderWrite, WriteLoop, EncoderGiveBack,
           EncoderDrain, EncoderLeftovers, EncoderDiscard, EncoderFlush, CloseStep,
           PipelineFail, SetFailed, ReleaseProcessed
  <2>2. CASE EncoderPop
    <3>1. processedQueue # <<>> => Len(Tail(processedQueue)) = Len(processedQueue) - 1
      BY LenOfQueues DEF CoreInv, TypeOK, FramesOK
    <3>2. processedAvailable' = processedAvailable /\ pending' = pending /\ EncoderHolds = 0
      BY <2>2 DEF EncoderPop, EncoderHolds
    <3>3. \/ processedQueue' = processedQueue /\ EncoderHolds' = 0
          \/ Len(processedQueue') = Len(processedQueue) - 1 /\ EncoderHolds' = 1
      BY <1>0, <2>2, <3>1 DEF EncoderPop, EncoderHolds
    <3> QED BY SMTT(30), <1>b, <1>c, <2>1, <3>2, <3>3 DEF BuffersBounded, RawBuffers,
           ProcessedBuffers
  <2>3. CASE EncoderInsert
    <3>1. /\ Cardinality(pending') \in Int
          /\ Cardinality(pending') <= Cardinality(pending) + 1
      <4>1. pending \subseteq FrameIds /\ current[Encoder] \in FrameIds
        BY <2>3 DEF CoreInv, TypeOK, FramesOK, HeldIds, EncoderInsert
      <4>2. pending' = pending \/ pending' = pending \cup {current[Encoder]}
        BY <2>3 DEF EncoderInsert
      <4> QED BY <4>1, <4>2, PendingFinite
    <3>2. /\ processedAvailable' = processedAvailable /\ processedQueue' = processedQueue
          /\ EncoderHolds = 1 /\ EncoderHolds' \in {0, 1}
          /\ pending' = pending \/ EncoderHolds' = 0
      BY <1>0, <2>3 DEF EncoderInsert, EncoderHolds
    <3> QED BY SMTT(30), <1>b, <1>c, <2>1, <3>1, <3>2 DEF BuffersBounded, RawBuffers,
           ProcessedBuffers
  <2>4. CASE EncoderWrite
    <3>1. pending' = pending \/ (next \in pending /\ Cardinality(pending') = Cardinality(pending) - 1)
      BY <2>4, PendingFinite DEF EncoderWrite, CoreInv, TypeOK, FramesOK
    <3>2. /\ processedAvailable' = processedAvailable
          /\ processedQueue' = processedQueue
          /\ EncoderHolds = 0
          /\ EncoderHolds' = 0 \/ (EncoderHolds' = 1 /\ pending' = pending \ {next} /\ next \in pending)
      BY <1>0, <2>4 DEF EncoderWrite, WriteLoop, EncoderHolds
    <3>3. CASE EncoderHolds' = 0
      <4>1. Cardinality(pending') <= Cardinality(pending) /\ Cardinality(pending') \in Int
        BY <1>c, <3>1, PendingFinite DEF CoreInv, TypeOK, FramesOK
      <4> QED
        BY SMTT(30), <1>b, <1>c, <2>1, <3>2, <3>3, <4>1 DEF BuffersBounded,
               RawBuffers, ProcessedBuffers
    <3>4. CASE EncoderHolds' = 1 /\ pending' = pending \ {next} /\ next \in pending
      <4>1. Cardinality(pending') = Cardinality(pending) - 1
        BY <3>4, PendingFinite DEF CoreInv, TypeOK, FramesOK
      <4> QED
        BY SMTT(30), <1>b, <1>c, <2>1, <3>2, <3>4, <4>1 DEF BuffersBounded,
               RawBuffers, ProcessedBuffers
    <3> QED BY <3>2, <3>3, <3>4
  <2>5. CASE EncoderDiscard
    <3>1. Cardinality(pending') = 0
      BY <2>5, FS_EmptySet DEF EncoderDiscard
    <3> QED BY SMTT(30), <1>0, <1>b, <1>c, <2>1, <2>5, <3>1 DEF EncoderDiscard,
           BuffersBounded, RawBuffers, ProcessedBuffers, EncoderHolds
  <2>6. CASE ~(EncoderPop \/ EncoderInsert \/ EncoderWrite \/ EncoderDiscard)
    <3>1. pending' = pending /\ processedQueue' = processedQueue
      BY <1>3, <2>6 DEF EncoderNext, EncoderCheck, EncoderGiveBack, EncoderDrain,
             EncoderLeftovers, EncoderFlush, CloseStep, PipelineFail, SetFailed,
             ReleaseProcessed
    <3>2. \/ processedAvailable' = processedAvailable /\ EncoderHolds' = EncoderHolds
          \/ processedAvailable' = processedAvailable /\ EncoderHolds' = 0
          \/ processedAvailable' = processedAvailable + 1 /\ EncoderHolds = 1 /\ EncoderHolds' = 0
      BY <1>0, <1>3, <2>6 DEF Failing, CoreInv, FailLabels, EncoderNext, EncoderCheck,
             EncoderGiveBack, EncoderDrain, EncoderLeftovers, EncoderFlush,
             CloseStep, PipelineFail, SetFailed, ReleaseProcessed, EncoderHolds
    <3>11. CASE processedAvailable' = processedAvailable /\ EncoderHolds' = EncoderHolds
      BY SMTT(30), <1>b, <1>c, <2>1, <3>1, <3>11 DEF BuffersBounded, RawBuffers,
             ProcessedBuffers
    <3>12. CASE processedAvailable' = processedAvailable /\ EncoderHolds' = 0
      BY SMTT(30), <1>b, <1>c, <2>1, <3>1, <3>12 DEF BuffersBounded, RawBuffers,
             ProcessedBuffers
    <3>13. CASE processedAvailable' = processedAvailable + 1 /\ EncoderHolds = 1 /\ EncoderHolds' = 0
      BY SMTT(30), <1>b, <1>c, <2>1, <3>1, <3>13 DEF BuffersBounded, RawBuffers,
             ProcessedBuffers
    <3> QED BY <3>2, <3>11, <3>12, <3>13
  <2> QED BY <2>2, <2>3, <2>4, <2>5, <2>6
<1>4. CASE MainNext
  <2>1. /\ HoldsInput' = HoldsInput /\ HoldsOutput' = HoldsOutput /\ UNCHANGED <<queues, pools>>
        /\ pending' = pending /\ DecoderHolds' = DecoderHolds /\ EncoderHolds' = EncoderHolds
    BY <1>0, <1>4 DEF CoreInv, NotStarted, MainNext, MainCreateDecoder,
           MainCreateEncoder, MainCreateEncoderOnly, MainCreateWorker, MainCreated,
           MainJoin, MainReturn, Create, CreateFails, Entry, CloseStep, PipelineFail,
           SetFailed, HoldsInput, HoldsOutput, DecoderHolds, EncoderHolds
  <2> QED BY SMTT(30), <1>b, <1>c, <2>1 DEF BuffersBounded, RawBuffers, ProcessedBuffers
<1>5. CASE UNCHANGED vars
  BY SMTT(30), <1>0, <1>b, <1>5 DEF vars, BuffersBounded, RawBuffers,
         ProcessedBuffers, HoldsInput, HoldsOutput, DecoderHolds, EncoderHolds
<1> QED BY <1>1, <1>2, <1>3, <1>4, <1>5 DEF Next, Stutter

(* The pushes leave the queues within frame_slots, and the pools and the count of
   processors within what they started with. *)
LEMMA BoundsStep ==
  ASSUME CoreInv, [Next]_vars, FramesOK', BuffersBounded', Counted'
  PROVE  BoundsOK'
<1> USE FilterAssumption DEF CoreInv, TypeOK, BoundsOK, queues, pools, output, global
<1>1. Len(rawQueue') <= FrameSlots /\ Len(processedQueue') <= FrameSlots
      /\ rawAvailable' >= 0 /\ processedAvailable' >= 0
      /\ rawAvailable' \in Int /\ processedAvailable' \in Int
  <2>0. /\ Len(rawQueue) \in Nat /\ Len(processedQueue) \in Nat
        /\ rawQueue # <<>> => Len(Tail(rawQueue)) <= Len(rawQueue)
        /\ processedQueue # <<>> => Len(Tail(processedQueue)) <= Len(processedQueue)
        /\ \A e \in Int : Len(Append(rawQueue, e)) = Len(rawQueue) + 1
        /\ \A e \in Int : Len(Append(processedQueue, e)) = Len(processedQueue) + 1
        /\ rawAvailable \in Nat /\ processedAvailable \in Nat
    <3>1. Nat \subseteq Int /\ rawQueue \in Seq(Int) /\ processedQueue \in Seq(Int)
      BY FramesAreNat, SeqMonotonic
    <3> QED BY <3>1, Counts, LenOfQueues
  <2>1. CASE DecoderNext
    <3>1. decoded - 1 \in Int
      BY FramesAreNat
    <3> QED
      BY <2>0, <2>1, <3>1 DEF DecoderNext, DecoderAcquire, DecoderRead, DecoderCheck,
             DecoderPush, DecoderDrop, DecoderClose, CloseStep, PipelineFail,
             SetFailed, ReleaseRaw
  <2>2. ASSUME NEW w \in Workers, WorkerNext(w)
        PROVE  Len(rawQueue') <= FrameSlots /\ Len(processedQueue') <= FrameSlots
               /\ rawAvailable' >= 0 /\ processedAvailable' >= 0
               /\ rawAvailable' \in Int /\ processedAvailable' \in Int
    <3>1. current[w] \in Int
      BY DEF FramesOK
    <3>2. CASE WorkerPush(w) \/ WorkerPop(w)
      BY <2>0, <3>1, <3>2 DEF WorkerPush, WorkerPop
    <3>3. CASE WorkerAcquire(w) \/ WorkerReleaseInput(w) \/ WorkerReleaseOutput(w)
      BY <2>0, <3>3 DEF WorkerAcquire, WorkerReleaseInput, WorkerReleaseOutput,
             ReleaseRaw, ReleaseProcessed
    <3> QED
      BY <2>0, <2>2, <3>2, <3>3 DEF WorkerNext, WorkerCheck, WorkerProcess,
             WorkerKernel, WorkerFinish, CloseStep, PipelineFail, SetFailed
  <2>3. CASE EncoderNext
    BY <2>0, <2>3 DEF EncoderNext, EncoderPop, EncoderCheck, EncoderInsert,
           EncoderWrite, EncoderGiveBack, EncoderDrain, EncoderLeftovers,
           EncoderDiscard, EncoderFlush, CloseStep, PipelineFail, SetFailed,
           ReleaseProcessed
  <2>4. CASE MainNext
    BY <2>0, <2>4 DEF MainNext, MainCreateDecoder, MainCreateEncoder,
           MainCreateEncoderOnly, MainCreateWorker, MainCreated, MainJoin,
           MainReturn, Create, CreateFails, CloseStep, PipelineFail, SetFailed
  <2>5. CASE UNCHANGED vars
    BY <2>0, <2>5 DEF vars
  <2> QED BY <2>1, <2>2, <2>3, <2>4, <2>5 DEF Next, Stutter
<1>2. rawAvailable' <= PoolCapacity /\ processedAvailable' <= PoolCapacity
  <2>1. /\ Cardinality(HoldsInput') \in Nat /\ Cardinality(HoldsOutput') \in Nat
        /\ DecoderHolds' \in {0, 1} /\ EncoderHolds' \in {0, 1}
    <3>1. HoldsInput' \subseteq Workers /\ HoldsOutput' \subseteq Workers
      BY DEF HoldsInput, HoldsOutput
    <3> QED BY <3>1, SubsetOfWorkers DEF DecoderHolds, EncoderHolds
  <2>2. Cardinality(pending') \in Nat /\ Len(rawQueue') \in Nat /\ Len(processedQueue') \in Nat
    <3>1. pending' \subseteq FrameIds /\ rawQueue' \in Seq(FrameIds) /\ processedQueue' \in Seq(FrameIds)
      BY DEF FramesOK
    <3> QED BY <3>1, PendingFinite, LenProperties
  <2>3. PoolCapacity \in Nat
    BY Counts
  <2>4. /\ rawAvailable' + Len(rawQueue') + Cardinality(HoldsInput') + DecoderHolds'
              <= PoolCapacity
        /\ processedAvailable' + Len(processedQueue') + Cardinality(HoldsOutput')
              + Cardinality(pending') + EncoderHolds' <= PoolCapacity
    BY DEF BuffersBounded, RawBuffers, ProcessedBuffers
  <2>5. /\ DecoderHolds' \in Nat /\ EncoderHolds' \in Nat
        /\ rawAvailable' \in Nat /\ processedAvailable' \in Nat
    BY <1>1, <2>1
  <2>6. rawAvailable' <= PoolCapacity
    BY <2>1, <2>2, <2>3, <2>4, <2>5, FirstSummand
  <2>7. processedAvailable' <= PoolCapacity
    BY <2>1, <2>2, <2>3, <2>4, <2>5, FirstOfFive
  <2> QED BY <2>6, <2>7
<1>3. active' \in 0 .. Cardinality(Workers)
  <2>1. {w \in Workers : pc'[w] # "done"} \subseteq Workers
    OBVIOUS
  <2> QED BY <2>1, SubsetOfWorkers, CardinalityOfWorkers DEF Counted
<1>4. PoolCapacity \in Nat
  BY Counts
<1> QED BY <1>1, <1>2, <1>3, <1>4

-----------------------------------------------------------------------------
(* The theorems.                                                           *)

(* The invariant holds when run_filter_pipeline creates its first thread. *)
LEMMA InvInit == Init => CoreInv
<1> SUFFICES ASSUME Init PROVE CoreInv
  OBVIOUS
<1> USE FilterAssumption, TotalInNat DEF Init
<1>1. /\ \A t \in Stages : pc[t] = "none"
      /\ pc[Main] = "createDecoder"
  BY DEF Threads, Stages
<1>2. LabelsOK /\ FlagsOK
  BY DEF LabelsOK, FlagsOK, Labels, Resumes, Threads, Stages, DecoderLabels,
         WorkerLabels, EncoderLabels, MainLabels, Shared
<1>3. FramesOK
  BY DEF FramesOK
<1>4. BoundsOK
  <2>1. Cardinality(Workers) \in Nat /\ PoolCapacity \in Nat
    BY CardinalityOfWorkers DEF PoolCapacity
  <2> QED BY <2>1 DEF BoundsOK
<1>5. Failing /\ DecoderInRange /\ HeldIds /\ NotStarted /\ Starting /\ Ending
  BY <1>1 DEF Failing, DecoderInRange, HeldIds, NotStarted, Starting, Ending,
         FailLabels, CloseLabels, HoldsInput, HoldsOutput, AfterLoop, Threads, Stages
<1>6. Counted
  <2>1. {w \in Workers : pc[w] # "done"} = Workers
    BY <1>1 DEF Stages
  <2> QED BY <2>1 DEF Counted
<1>7. OutputInOrder /\ NextToWrite /\ Succeeded /\ SuccessMeansComplete
  BY <1>1 DEF OutputInOrder, NextToWrite, Succeeded, SuccessMeansComplete, Stages
<1>8. Covered
  BY DEF Covered
<1>9. BuffersBounded
  <2>1. HoldsInput = {} /\ HoldsOutput = {} /\ DecoderHolds = 0 /\ EncoderHolds = 0
    BY <1>1 DEF HoldsInput, HoldsOutput, DecoderHolds, EncoderHolds, Stages
  <2>2. PoolCapacity \in Nat
    BY CardinalityOfWorkers DEF PoolCapacity
  <2>3. Cardinality({}) = 0
    BY FS_EmptySet
  <2> QED BY <2>1, <2>2, <2>3 DEF BuffersBounded, RawBuffers, ProcessedBuffers
<1> QED BY <1>2, <1>3, <1>4, <1>5, <1>6, <1>7, <1>8, <1>9 DEF CoreInv, TypeOK

(* No step of a thread breaks the invariant. *)
LEMMA InvNext == CoreInv /\ [Next]_vars => CoreInv'
<1> SUFFICES ASSUME CoreInv, [Next]_vars PROVE CoreInv'
  OBVIOUS
<1>1. LabelsOK' /\ FlagsOK' /\ FramesOK'
  BY LabelsStep, FlagsStep, FramesStep
<1>2. Failing' /\ DecoderInRange' /\ HeldIds' /\ NotStarted' /\ Starting' /\ Ending'
  BY FailingStep, InRangeStep, HeldIdsStep, NotStartedStep, StartingStep, EndingStep
<1>3. Counted'
  BY CountedStep, FinishStep
<1>4. OutputInOrder' /\ NextToWrite' /\ Covered' /\ BuffersBounded' /\ Succeeded'
  BY OrderStep, NextStep, CoveredStep, BuffersStep, SucceededStep
<1>5. BoundsOK'
  BY <1>1, <1>3, <1>4, BoundsStep
<1>6. TypeOK'
  BY <1>1, <1>5 DEF TypeOK
<1>7. SuccessMeansComplete'
  BY <1>2, <1>4, <1>6, Complete, PTL
<1> QED BY <1>2, <1>3, <1>4, <1>6, <1>7 DEF CoreInv

(* The inductive invariant: everything the theorems below use of a thread and of
   the order in which the stages of run_filter_pipeline start and end. *)
THEOREM CoreInductive == Spec => []CoreInv
BY InvInit, InvNext, PTL DEF Spec

(* Every variable keeps its type, the queues keep to frame_slots and no pool is
   ever given more buffers than it was created with. *)
THEOREM TypeCorrect == Spec => []TypeOK
<1>1. CoreInv => TypeOK
  BY DEF CoreInv
<1> QED BY <1>1, CoreInductive, PTL

(* Whatever the number of workers, the order in which they finish and the errors on
   the way, the encoder writes frames 0, 1, 2, ... without a gap or a repetition. *)
THEOREM OutputOrdered == Spec => []OutputInOrder
<1>1. CoreInv => OutputInOrder
  BY DEF CoreInv
<1> QED BY <1>1, CoreInductive, PTL

(* run_filter_pipeline returns 0 only when all the frames of the video, up to
   --max-frames, are in the output and the writer has been flushed. *)
THEOREM SuccessIsComplete == Spec => []SuccessMeansComplete
<1>1. CoreInv => SuccessMeansComplete
  BY DEF CoreInv
<1> QED BY <1>1, CoreInductive, PTL

(* The writer is flushed once, after the last frame, when nothing is pending and
   every processor has ended. *)
THEOREM FlushIsLast == Spec => FlushComesLast
<1> DEFINE Last == flushed' # flushed => /\ Len(written) = Total
                                         /\ pending = {}
                                         /\ \A w \in Workers : pc[w] = "done"
<1>1. CoreInv /\ [Next]_vars => [Last]_vars
  <2> SUFFICES ASSUME CoreInv, [Next]_vars, flushed' # flushed PROVE Last
    OBVIOUS
  <2>1. EncoderFlush /\ ~failed
    BY DEF Next, Stutter, vars, output, global, queues, pools, DecoderNext,
           DecoderAcquire, DecoderRead, DecoderCheck, DecoderPush, DecoderDrop,
           DecoderClose, CloseStep, PipelineFail, SetFailed, WorkerNext, WorkerPop,
           WorkerCheck, WorkerAcquire, WorkerProcess, WorkerReleaseInput,
           WorkerKernel, WorkerPush, WorkerReleaseOutput, WorkerFinish, EncoderNext,
           EncoderPop, EncoderCheck, EncoderInsert, EncoderWrite, EncoderGiveBack,
           EncoderDrain, EncoderLeftovers, EncoderDiscard, EncoderFlush, MainNext,
           MainCreateDecoder, MainCreateEncoder, MainCreateEncoderOnly,
           MainCreateWorker, MainCreated, MainJoin, MainReturn, Create, CreateFails
  <2>2. pc[Encoder] = "flush" /\ ~failed
    BY <2>1 DEF EncoderFlush
  <2>3. /\ "processedQueue" \in closed /\ processedQueue = <<>> /\ pending = {}
        /\ \A w \in Workers : pc[w] = "done"
    BY <2>2 DEF CoreInv, Ending, AfterLoop
  <2>4. "rawQueue" \in closed /\ rawQueue = <<>>
    BY <2>2, <2>3, FilterAssumption DEF CoreInv, Ending
  <2>5. pc[Decoder] = "done" /\ decoded = Total
    BY <2>2, <2>4 DEF CoreInv, Ending
  <2>6. Len(written) = Total
    BY <2>2, <2>3, <2>4, <2>5, AllWritten DEF CoreInv
  <2> QED BY <2>3, <2>6
<1>2. CoreInv /\ [Next]_vars => [Last]_vars
  BY <1>1
<1> QED BY <1>2, CoreInductive, PTL DEF Spec, FlushComesLast

-----------------------------------------------------------------------------
(* Frames: each in one place.                                              *)

(* A union has at most as many elements as its two sets together. *)
LEMMA UnionBound ==
  ASSUME NEW S, NEW T, IsFiniteSet(S), IsFiniteSet(T), NEW m \in Nat, NEW n \in Nat,
         Cardinality(S) <= m, Cardinality(T) <= n
  PROVE  IsFiniteSet(S \cup T) /\ Cardinality(S \cup T) <= m + n
<1>1. /\ IsFiniteSet(S \cup T) /\ IsFiniteSet(S \cap T)
      /\ Cardinality(S \cup T) = Cardinality(S) + Cardinality(T) - Cardinality(S \cap T)
  BY FS_Union, FS_Intersection
<1>2. /\ Cardinality(S) \in Nat /\ Cardinality(T) \in Nat /\ Cardinality(S \cap T) \in Nat
  BY <1>1, FS_CardinalityType
<1> QED BY <1>1, <1>2

(* The image of a finite set has at most as many elements as the set. *)
LEMMA ImageBound ==
  ASSUME NEW S, IsFiniteSet(S), NEW f
  PROVE  IsFiniteSet({f[x] : x \in S}) /\ Cardinality({f[x] : x \in S}) <= Cardinality(S)
<1> DEFINE T == {f[x] : x \in S}
           g == [x \in S |-> f[x]]
<1>1. g \in Surjection(S, T)
  <2>1. g \in [S -> T]
    OBVIOUS
  <2>2. \A t \in T : \E s \in S : g[s] = t
    OBVIOUS
  <2> HIDE DEF g, T
  <2> QED BY <2>1, <2>2 DEF Surjection
<1> QED BY <1>1, FS_Surjection DEF ExistsSurjection

(* A queue holds at most as many ids as packets. *)
LEMMA IdsBound ==
  ASSUME NEW S, NEW q \in Seq(S)
  PROVE  IsFiniteSet(IdsIn(q)) /\ Cardinality(IdsIn(q)) <= Len(q) /\ Len(q) \in Nat
<1>1. Len(q) \in Nat
  BY LenProperties
<1>2. IsFiniteSet(1 .. Len(q)) /\ Cardinality(1 .. Len(q)) = Len(q)
  BY <1>1, FS_Interval
<1> QED BY <1>1, <1>2, ImageBound DEF IdsIn

Holders == HoldsInput \cup HoldsOutput

(* The sum of EveryFrameInOnePlace, without the encoder's frame and with it. *)
CountButEncoder == Cardinality(InDecoder) + Len(rawQueue) + Cardinality(Holders)
                      + Len(processedQueue) + Cardinality(pending) + Len(written)
InOnePlace == Places = 0 .. decoded - 1 /\ CountButEncoder + Cardinality(InEncoder) = decoded

FrameNumbers ==
    /\ Cardinality(InDecoder) \in Nat /\ Len(rawQueue) \in Nat
    /\ Cardinality(Holders) \in Nat /\ Len(processedQueue) \in Nat
    /\ Cardinality(pending) \in Nat /\ Len(written) \in Nat
    /\ Cardinality(InEncoder) \in Nat /\ decoded \in Nat

(* All the summands are numbers. *)
LEMMA FrameCounts == TypeOK => FrameNumbers
<1> SUFFICES ASSUME TypeOK PROVE FrameNumbers
  OBVIOUS
<1>1. Holders \subseteq Workers
  BY DEF Holders, HoldsInput, HoldsOutput
<1>2. IsFiniteSet(InDecoder) /\ IsFiniteSet(InEncoder)
  BY FS_Singleton, FS_EmptySet DEF InDecoder, InEncoder
<1>3. Cardinality(pending) \in Nat
  BY PendingFinite DEF TypeOK, FramesOK
<1>4. Len(rawQueue) \in Nat /\ Len(processedQueue) \in Nat /\ Len(written) \in Nat
      /\ decoded \in Nat
  BY FramesAreNat, LenProperties DEF TypeOK
<1> QED BY <1>1, <1>2, <1>3, <1>4, SubsetOfWorkers, FS_CardinalityType DEF FrameNumbers

(* pending_insert gets a frame that is not in the list yet: were it, the
   places would be too few for the frames. *)
LEMMA InsertIsNew ==
  ASSUME TypeOK, InOnePlace, pc[Encoder] \in {"check", "insert"}
  PROVE  current[Encoder] \notin pending
<1> SUFFICES ASSUME current[Encoder] \in pending PROVE FALSE
  OBVIOUS
<1> DEFINE A == InDecoder
           B == A \cup InRawQueue
           C == B \cup InWorkers
           D == C \cup InProcessedQueue
           E == D \cup pending
           F == E \cup Written
<1>1. F = 0 .. decoded - 1
  BY DEF InOnePlace, Places, InEncoder
<1>2. /\ Cardinality(InDecoder) \in Nat /\ Len(rawQueue) \in Nat
      /\ Cardinality(Holders) \in Nat /\ Len(processedQueue) \in Nat
      /\ Cardinality(pending) \in Nat /\ Len(written) \in Nat
      /\ Cardinality(InEncoder) \in Nat /\ decoded \in Nat
  BY FrameCounts DEF FrameNumbers
<1>3. IsFiniteSet(A) /\ Cardinality(A) <= Cardinality(InDecoder)
  <2>1. IsFiniteSet(InDecoder)
    BY FS_Singleton, FS_EmptySet DEF InDecoder
  <2> QED BY <1>2, <2>1
<1>4. IsFiniteSet(InRawQueue) /\ Cardinality(InRawQueue) <= Len(rawQueue)
  BY IdsBound DEF InRawQueue, TypeOK, FramesOK
<1>5. IsFiniteSet(InWorkers) /\ Cardinality(InWorkers) <= Cardinality(Holders)
  <2>1. Holders \subseteq Workers
    BY DEF Holders, HoldsInput, HoldsOutput
  <2>2. IsFiniteSet(Holders)
    BY <2>1, SubsetOfWorkers
  <2> QED BY <2>2, ImageBound DEF InWorkers, Holders
<1>6. IsFiniteSet(InProcessedQueue) /\ Cardinality(InProcessedQueue) <= Len(processedQueue)
  BY IdsBound DEF InProcessedQueue, TypeOK, FramesOK
<1>7. IsFiniteSet(pending) /\ Cardinality(pending) <= Cardinality(pending)
  BY <1>2, PendingFinite DEF TypeOK, FramesOK
<1>8. IsFiniteSet(Written) /\ Cardinality(Written) <= Len(written)
  BY IdsBound DEF Written, TypeOK, FramesOK
<1> HIDE DEF A
<1>13. IsFiniteSet(B) /\ Cardinality(B) <= Cardinality(InDecoder) + Len(rawQueue)
  BY <1>2, <1>3, <1>4, UnionBound
<1> HIDE DEF B
<1>14. IsFiniteSet(C)
       /\ Cardinality(C) <= Cardinality(InDecoder) + Len(rawQueue) + Cardinality(Holders)
  <2>1. Cardinality(InDecoder) + Len(rawQueue) \in Nat
    BY <1>2
  <2> QED BY <2>1, <1>2, <1>13, <1>5, UnionBound
<1> HIDE DEF C
<1>15. IsFiniteSet(D)
       /\ Cardinality(D) <= Cardinality(InDecoder) + Len(rawQueue) + Cardinality(Holders)
                              + Len(processedQueue)
  <2>1. Cardinality(InDecoder) + Len(rawQueue) + Cardinality(Holders) \in Nat
    BY <1>2
  <2> QED BY <2>1, <1>2, <1>14, <1>6, UnionBound
<1> HIDE DEF D
<1>16. IsFiniteSet(E)
       /\ Cardinality(E) <= Cardinality(InDecoder) + Len(rawQueue) + Cardinality(Holders)
                              + Len(processedQueue) + Cardinality(pending)
  <2>1. Cardinality(InDecoder) + Len(rawQueue) + Cardinality(Holders)
          + Len(processedQueue) \in Nat
    BY <1>2
  <2> QED BY <2>1, <1>2, <1>15, <1>7, UnionBound
<1> HIDE DEF E
<1>17. Cardinality(F) <= CountButEncoder
  <2>1. Cardinality(InDecoder) + Len(rawQueue) + Cardinality(Holders)
          + Len(processedQueue) + Cardinality(pending) \in Nat
    BY <1>2
  <2> QED BY <2>1, <1>2, <1>16, <1>8, UnionBound DEF CountButEncoder
<1> HIDE DEF F
<1>18. Cardinality(F) = decoded
  <2>1. 0 \in Int /\ decoded - 1 \in Int
    BY <1>2
  <2>2. Cardinality(0 .. decoded - 1) = IF 0 > decoded - 1 THEN 0 ELSE decoded - 1 - 0 + 1
    BY <2>1, FS_Interval
  <2> QED BY <1>1, <1>2, <2>2
<1>19. Cardinality(InEncoder) = 1
  BY FS_Singleton DEF InEncoder
<1>20. CountButEncoder \in Int
  BY <1>2 DEF CountButEncoder
<1> QED BY <1>2, <1>17, <1>18, <1>19, <1>20 DEF InOnePlace

(* A failure is never taken back: what is healthy after a step was so before. *)
LEMMA HealthyBackwards == CoreInv /\ [Next]_vars /\ Healthy' => Healthy
<1> SUFFICES ASSUME CoreInv, [Next]_vars, ~Healthy PROVE ~Healthy'
  OBVIOUS
<1> USE FilterAssumption DEF CoreInv, TypeOK, LabelsOK, FlagsOK, Healthy, Threads,
       Stages, Goto, Fail, global, queues, pools, output
<1>1. CASE DecoderNext
  BY <1>1 DEF DecoderNext, DecoderAcquire, DecoderRead, DecoderCheck, DecoderPush,
         DecoderDrop, DecoderClose, CloseStep, PipelineFail, SetFailed
<1>2. ASSUME NEW w \in Workers, WorkerNext(w) PROVE ~Healthy'
  BY <1>2 DEF WorkerNext, WorkerPop, WorkerCheck, WorkerAcquire, WorkerProcess,
         WorkerReleaseInput, AfterInput, WorkerKernel, WorkerPush,
         WorkerReleaseOutput, WorkerFinish, CloseStep, PipelineFail, SetFailed
<1>3. CASE EncoderNext
  BY <1>3 DEF EncoderNext, EncoderPop, EncoderCheck, EncoderInsert, EncoderWrite,
         WriteLoop, EncoderGiveBack, EncoderDrain, EncoderLeftovers, EncoderDiscard,
         EncoderFlush, CloseStep, PipelineFail, SetFailed
<1>4. CASE MainNext
  BY <1>4 DEF NotStarted, MainNext, MainCreateDecoder, MainCreateEncoder,
         MainCreateEncoderOnly, MainCreateWorker, MainCreated, MainJoin, MainReturn,
         Create, CreateFails, Entry, CloseStep, PipelineFail, SetFailed
<1>5. CASE UNCHANGED vars
  BY <1>5 DEF vars
<1> QED BY <1>1, <1>2, <1>3, <1>4, <1>5 DEF Next, Stutter

(* The main thread moves no stage but the one it starts, or fails to start. *)
LEMMA MainStarts ==
  ASSUME CoreInv, MainNext
  PROVE  \A t \in Stages : \/ pc'[t] = pc[t]
                           \/ /\ pc[t] = "none"
                              /\ pc'[t] \in {"acquire", "pop", "absent"}
                              /\ t \in Workers => pc'[t] # "acquire"
BY FilterAssumption DEF CoreInv, TypeOK, LabelsOK, NotStarted, Threads, Stages, Goto, Fail,
       MainNext, MainCreateDecoder, MainCreateEncoder, MainCreateEncoderOnly,
       MainCreateWorker, MainCreated, MainJoin, MainReturn, Create, CreateFails, Entry,
       CloseStep, PipelineFail, SetFailed

Frames == <<InDecoder, rawQueue, InWorkers, Holders, processedQueue, InEncoder, pending,
            written, decoded>>

(* Every step that fails nothing moves a frame from one place to the next, makes
   the decoder's next one, or touches none. *)
LEMMA FrameStep ==
  ASSUME CoreInv, CoreInv', [Next]_vars, Healthy, Healthy', InOnePlace
  PROVE  InOnePlace'
<1> USE FilterAssumption DEF CoreInv, TypeOK, LabelsOK, Healthy, Threads, Stages,
       Goto, Fail, FailLabels, CloseLabels, global, queues, pools, output
<1>n. /\ Cardinality(InDecoder) \in Nat /\ Len(rawQueue) \in Nat
      /\ Cardinality(Holders) \in Nat /\ Len(processedQueue) \in Nat
      /\ Cardinality(pending) \in Nat /\ Len(written) \in Nat
      /\ Cardinality(InEncoder) \in Nat /\ decoded \in Nat
      /\ Holders \subseteq Workers
  BY FrameCounts DEF FrameNumbers, Holders, HoldsInput, HoldsOutput
<1>e. \A x : Cardinality({x}) = 1
  BY FS_Singleton
<1>z. Cardinality({}) = 0
  BY FS_EmptySet
<1>q. /\ rawQueue \in Seq(Int) /\ processedQueue \in Seq(Int) /\ written \in Seq(Int)
      /\ next \in Int
  BY FramesAreNat, SeqMonotonic, Nat \subseteq Int
<1>p. /\ Places = 0 .. decoded - 1
      /\ CountButEncoder + Cardinality(InEncoder) = decoded
      /\ Places' = 0 .. decoded' - 1 /\ CountButEncoder' + Cardinality(InEncoder') = decoded'
            => InOnePlace'
  BY DEF InOnePlace
<1>u. ASSUME UNCHANGED Frames PROVE InOnePlace'
  BY <1>u DEF Frames, InOnePlace, Places, CountButEncoder, InRawQueue, InProcessedQueue,
         Written, IdsIn
<1>1. CASE DecoderNext
  <2>0. UNCHANGED <<InWorkers, Holders, processedQueue, InEncoder, pending, written>>
    <3>1. UNCHANGED <<processedQueue, pending, written, current>>
      BY <1>1 DEF DecoderNext, DecoderAcquire, DecoderRead, DecoderCheck, DecoderPush,
             DecoderDrop, DecoderClose, CloseStep, PipelineFail, SetFailed
    <3>2. \A t \in Threads \ {Decoder} : pc'[t] = pc[t]
      BY <1>1 DEF DecoderNext, DecoderAcquire, DecoderRead, DecoderCheck, DecoderPush,
             DecoderDrop, DecoderClose, CloseStep, PipelineFail, SetFailed
    <3>3. HoldsInput' = HoldsInput /\ HoldsOutput' = HoldsOutput /\ InEncoder' = InEncoder
      BY <3>1, <3>2 DEF HoldsInput, HoldsOutput, InEncoder
    <3> QED BY <3>1, <3>3 DEF Holders, InWorkers
  <2>1. CASE DecoderCheck
    <3>1. /\ rawQueue' = rawQueue /\ decoded' = decoded + 1
          /\ InDecoder = {} /\ InDecoder' = {decoded}
      BY <1>n, <2>1 DEF DecoderCheck, InDecoder
    <3>2. Places' = Places \cup {decoded}
      BY <2>0, <3>1 DEF Places, InRawQueue, InProcessedQueue, Written, IdsIn
    <3>3. 0 .. decoded' - 1 = (0 .. decoded - 1) \cup {decoded}
      BY <1>n, <3>1
    <3>4. Cardinality(InDecoder) = 0 /\ Cardinality(InDecoder') = 1
      BY <1>e, <1>z, <3>1
    <3>8. CountButEncoder' = CountButEncoder + 1 /\ CountButEncoder \in Int
      BY SMTT(30), <1>n, <2>0, <3>1, <3>4 DEF CountButEncoder
    <3> QED BY SMTT(30), <1>n, <1>p, <2>0, <3>1, <3>2, <3>3, <3>8
  <2>2. CASE DecoderPush
    <3>1. "rawQueue" \notin closed
      BY <2>2 DEF DecoderPush, Ending
    <3>2. /\ rawQueue' = Append(rawQueue, decoded - 1) /\ decoded' = decoded
          /\ InDecoder = {decoded - 1} /\ InDecoder' = {}
      BY <2>2, <3>1 DEF DecoderPush, IsClosed, InDecoder
    <3>3. InRawQueue' = InRawQueue \cup {decoded - 1} /\ Len(rawQueue') = Len(rawQueue) + 1
      <4>1. decoded - 1 \in Int
        BY <1>n
      <4>2. /\ IdsIn(Append(rawQueue, decoded - 1)) = IdsIn(rawQueue) \cup {decoded - 1}
            /\ Len(Append(rawQueue, decoded - 1)) = Len(rawQueue) + 1
        BY <1>q, <4>1, IdsOfAppend, LenOfQueues
      <4> QED BY <3>2, <4>2 DEF InRawQueue
    <3>4. Places' = Places
      BY <2>0, <3>2, <3>3 DEF Places, InProcessedQueue, Written, IdsIn
    <3>5. Cardinality(InDecoder) = 1 /\ Cardinality(InDecoder') = 0
      BY <1>e, <1>z, <3>2
    <3>8. CountButEncoder' = CountButEncoder /\ CountButEncoder \in Int
      BY SMTT(30), <1>n, <2>0, <3>3, <3>5 DEF CountButEncoder
    <3> QED BY SMTT(30), <1>n, <1>p, <2>0, <3>2, <3>4, <3>8
  <2>3. CASE ~DecoderCheck /\ ~DecoderPush
    <3>1. UNCHANGED <<InDecoder, rawQueue, decoded>>
      BY <1>1, <2>3 DEF InDecoder, DecoderNext, DecoderAcquire, DecoderRead, DecoderDrop,
             DecoderClose, CloseStep, PipelineFail, SetFailed, Failing
    <3> QED BY <1>u, <2>0, <3>1 DEF Frames
  <2> QED BY <2>1, <2>2, <2>3
<1>2. ASSUME NEW w \in Workers, WorkerNext(w) PROVE InOnePlace'
  <2>0. UNCHANGED <<InDecoder, InEncoder, pending, written, decoded>>
    BY <1>2 DEF InDecoder, InEncoder, WorkerNext, WorkerPop, WorkerCheck, WorkerAcquire,
           WorkerProcess, WorkerReleaseInput, AfterInput, WorkerKernel, WorkerPush,
           WorkerReleaseOutput, WorkerFinish, CloseStep, PipelineFail, SetFailed, FramesOK
  <2>1. CASE WorkerPop(w) /\ rawQueue # <<>>
    <3>1. /\ rawQueue' = Tail(rawQueue) /\ processedQueue' = processedQueue
          /\ pc' = [pc EXCEPT ![w] = "check"]
          /\ current' = [current EXCEPT ![w] = Head(rawQueue)]
      BY <2>1 DEF WorkerPop
    <3>2. InRawQueue = InRawQueue' \cup {Head(rawQueue)} /\ Len(rawQueue') = Len(rawQueue) - 1
      BY <1>q, <2>1, <3>1, IdsOfTail, LenOfQueues DEF InRawQueue
    <3>3. w \notin Holders /\ Holders' = Holders \cup {w}
      BY <2>1, <3>1 DEF WorkerPop, Holders, HoldsInput, HoldsOutput
    <3>4. InWorkers' = InWorkers \cup {Head(rawQueue)}
      <4>1. current'[w] = Head(rawQueue) /\ \A v \in Holders : current'[v] = current[v]
        BY <1>n, <3>1, <3>3 DEF FramesOK
      <4> QED BY <3>3, <4>1 DEF InWorkers, Holders
    <3>5. Cardinality(Holders') = Cardinality(Holders) + 1
      BY <1>n, <3>3, SubsetOfWorkers
    <3>6. Places' = Places
      BY <2>0, <3>1, <3>2, <3>4 DEF Places, InProcessedQueue, Written, IdsIn
    <3>8. CountButEncoder' = CountButEncoder /\ CountButEncoder \in Int
      <4>1. Len(rawQueue') = Len(rawQueue) - 1 /\ Len(processedQueue') = Len(processedQueue)
        BY <3>1, <3>2
      <4>2. CountButEncoder' = Cardinality(InDecoder) + (Len(rawQueue) - 1)
                                  + (Cardinality(Holders) + 1) + Len(processedQueue)
                                  + Cardinality(pending) + Len(written)
        BY <2>0, <3>5, <4>1 DEF CountButEncoder
      <4> QED BY SMTT(30), <1>n, <4>2 DEF CountButEncoder
    <3> QED BY SMTT(30), <1>n, <1>p, <2>0, <3>6, <3>8
  <2>2. CASE WorkerPush(w)
    <3>1. "processedQueue" \notin closed
      BY <2>2 DEF WorkerPush, Ending
    <3>2. /\ processedQueue' = Append(processedQueue, current[w]) /\ current[w] \in Int
          /\ rawQueue' = rawQueue /\ current' = current
          /\ pc' = [pc EXCEPT ![w] = "pop"]
      BY <2>2, <3>1 DEF WorkerPush, IsClosed, FramesOK
    <3>3. /\ InProcessedQueue' = InProcessedQueue \cup {current[w]}
          /\ Len(processedQueue') = Len(processedQueue) + 1
      BY <1>q, <3>2, IdsOfAppend, LenOfQueues DEF InProcessedQueue
    <3>4. w \in Holders /\ Holders' = Holders \ {w}
      BY <2>2, <3>2 DEF WorkerPush, Holders, HoldsInput, HoldsOutput
    <3>5. InWorkers' \cup {current[w]} = InWorkers
      BY <3>2, <3>4 DEF InWorkers, Holders
    <3>6. Cardinality(Holders') = Cardinality(Holders) - 1
      BY <1>n, <3>4, SubsetOfWorkers
    <3>7. Places' = Places
      BY <2>0, <3>2, <3>3, <3>5 DEF Places, InRawQueue, Written, IdsIn
    <3>8. CountButEncoder' = CountButEncoder /\ CountButEncoder \in Int
      BY SMTT(30), <1>n, <2>0, <3>2, <3>3, <3>6 DEF CountButEncoder
    <3> QED BY SMTT(30), <1>n, <1>p, <2>0, <3>7, <3>8
  <2>3. CASE ~(WorkerPop(w) /\ rawQueue # <<>>) /\ ~WorkerPush(w)
    <3>1. UNCHANGED <<rawQueue, processedQueue, current>>
      BY <1>2, <2>3 DEF WorkerNext, WorkerPop, WorkerCheck, WorkerAcquire, WorkerProcess,
             WorkerReleaseInput, WorkerKernel, WorkerReleaseOutput, WorkerFinish,
             CloseStep, PipelineFail, SetFailed
    <3>2. Holders' = Holders
      BY <1>2, <2>3 DEF Failing, Holders, HoldsInput, HoldsOutput, WorkerNext, WorkerPop,
             WorkerCheck, WorkerAcquire, WorkerProcess, WorkerReleaseInput, AfterInput,
             WorkerKernel, WorkerReleaseOutput, WorkerFinish, CloseStep, PipelineFail,
             SetFailed
    <3> QED BY <1>u, <2>0, <3>1, <3>2 DEF Frames, InWorkers, Holders
  <2> QED BY <2>1, <2>2, <2>3
<1>3. CASE EncoderNext
  <2>0. UNCHANGED <<InDecoder, rawQueue, InWorkers, Holders, decoded>>
    <3>1. UNCHANGED <<rawQueue, decoded>> /\ \A w \in Workers : current'[w] = current[w]
      BY <1>3 DEF EncoderNext, EncoderPop, EncoderCheck, EncoderInsert, EncoderWrite,
             EncoderGiveBack, EncoderDrain, EncoderLeftovers, EncoderDiscard,
             EncoderFlush, CloseStep, PipelineFail, SetFailed, FramesOK
    <3>2. \A t \in Threads \ {Encoder} : pc'[t] = pc[t]
      BY <1>3 DEF EncoderNext, EncoderPop, EncoderCheck, EncoderInsert, EncoderWrite,
             EncoderGiveBack, EncoderDrain, EncoderLeftovers, EncoderDiscard,
             EncoderFlush, CloseStep, PipelineFail, SetFailed
    <3>3. HoldsInput' = HoldsInput /\ HoldsOutput' = HoldsOutput /\ InDecoder' = InDecoder
      BY <3>1, <3>2 DEF HoldsInput, HoldsOutput, InDecoder
    <3> QED BY <1>n, <3>1, <3>3 DEF Holders, InWorkers
  <2>1. CASE EncoderPop /\ processedQueue # <<>>
    <3>1. /\ processedQueue' = Tail(processedQueue)
          /\ InEncoder = {} /\ InEncoder' = {Head(processedQueue)}
          /\ UNCHANGED <<pending, written>>
      BY <2>1 DEF EncoderPop, InEncoder, FramesOK
    <3>2. /\ InProcessedQueue = InProcessedQueue' \cup {Head(processedQueue)}
          /\ Len(processedQueue') = Len(processedQueue) - 1
      BY <1>q, <2>1, <3>1, IdsOfTail, LenOfQueues DEF InProcessedQueue
    <3>3. Places' = Places
      BY <2>0, <3>1, <3>2 DEF Places, InRawQueue, Written, IdsIn
    <3>4. Cardinality(InEncoder) = 0 /\ Cardinality(InEncoder') = 1
      BY <1>e, <1>z, <3>1
    <3>8. CountButEncoder' = CountButEncoder - 1 /\ CountButEncoder \in Int
      BY SMTT(30), <1>n, <2>0, <3>1, <3>2 DEF CountButEncoder
    <3> QED BY SMTT(30), <1>n, <1>p, <2>0, <3>3, <3>4, <3>8
  <2>2. CASE EncoderInsert
    <3>1. /\ pending' = pending \cup {current[Encoder]}
          /\ InEncoder = {current[Encoder]} /\ InEncoder' = {}
          /\ UNCHANGED <<processedQueue, written>>
      BY <2>2 DEF EncoderInsert, InEncoder
    <3>2. current[Encoder] \notin pending
      BY <2>2, InsertIsNew DEF EncoderInsert
    <3>3. Cardinality(pending') = Cardinality(pending) + 1
      BY <3>1, <3>2, PendingFinite, FS_AddElement DEF FramesOK
    <3>4. Places' = Places
      BY <2>0, <3>1 DEF Places, InRawQueue, InProcessedQueue, Written, IdsIn
    <3>5. Cardinality(InEncoder) = 1 /\ Cardinality(InEncoder') = 0
      BY <1>e, <1>z, <3>1
    <3>8. CountButEncoder' = CountButEncoder + 1 /\ CountButEncoder \in Int
      BY SMTT(30), <1>n, <2>0, <3>1, <3>3 DEF CountButEncoder
    <3> QED BY SMTT(30), <1>n, <1>p, <2>0, <3>4, <3>5, <3>8
  <2>3. CASE EncoderWrite /\ next \in pending
    <3>1. /\ pending' = pending \ {next} /\ written' = Append(written, next)
          /\ UNCHANGED <<processedQueue, InEncoder>>
      BY <2>3 DEF EncoderWrite, WriteLoop, InEncoder
    <3>2. Written' = Written \cup {next} /\ Len(written') = Len(written) + 1
      <4>1. IdsIn(Append(written, next)) = IdsIn(written) \cup {next}
        BY <1>q, IdsOfAppend
      <4>2. Len(Append(written, next)) = Len(written) + 1
        BY <1>q, AppendProperties
      <4> QED BY <3>1, <4>1, <4>2 DEF Written
    <3>3. Cardinality(pending') = Cardinality(pending) - 1
      BY <2>3, <3>1, PendingFinite DEF FramesOK
    <3>4. Places' = Places
      BY <2>0, <2>3, <3>1, <3>2 DEF Places, InRawQueue, InProcessedQueue, IdsIn
    <3>8. CountButEncoder' = CountButEncoder /\ CountButEncoder \in Int
      BY SMTT(30), <1>n, <2>0, <3>1, <3>2, <3>3 DEF CountButEncoder
    <3> QED BY SMTT(30), <1>n, <1>p, <2>0, <3>1, <3>4, <3>8
  <2>4. CASE /\ ~(EncoderPop /\ processedQueue # <<>>) /\ ~EncoderInsert
             /\ ~(EncoderWrite /\ next \in pending)
    <3>1. UNCHANGED <<processedQueue, InEncoder, pending, written>>
      <4>1. UNCHANGED <<processedQueue, pending, written, current>>
        BY <1>3, <2>4 DEF Failing, EncoderNext, EncoderPop, EncoderCheck, EncoderWrite,
               WriteLoop, EncoderGiveBack, EncoderDrain, EncoderLeftovers,
               EncoderDiscard, EncoderFlush, CloseStep, PipelineFail, SetFailed
      <4>2. pc'[Encoder] \in {"check", "insert"} <=> pc[Encoder] \in {"check", "insert"}
        <5>1. CASE EncoderPop \/ EncoderCheck \/ EncoderWrite
          BY <2>4, <5>1 DEF EncoderPop, EncoderCheck, EncoderWrite, WriteLoop
        <5>2. CASE ~(EncoderPop \/ EncoderCheck \/ EncoderWrite)
          BY <1>3, <2>4, <5>2 DEF Failing, EncoderNext, EncoderGiveBack, EncoderDrain,
                 EncoderLeftovers, EncoderDiscard, EncoderFlush, CloseStep, PipelineFail,
                 SetFailed
        <5> QED BY <5>1, <5>2
      <4> QED BY <4>1, <4>2 DEF InEncoder
    <3> QED BY <1>u, <2>0, <3>1 DEF Frames
  <2> QED BY <2>1, <2>2, <2>3, <2>4
<1>4. CASE MainNext
  <2>1. UNCHANGED <<rawQueue, processedQueue, pending, written, decoded, current>>
    BY <1>4 DEF MainNext, MainCreateDecoder, MainCreateEncoder, MainCreateEncoderOnly,
           MainCreateWorker, MainCreated, MainJoin, MainReturn, Create, CreateFails,
           CloseStep, PipelineFail, SetFailed
  <2>2. \A t \in Stages : \/ pc'[t] = pc[t]
                          \/ /\ pc[t] = "none"
                             /\ pc'[t] \in {"acquire", "pop", "absent"}
                             /\ t \in Workers => pc'[t] # "acquire"
    BY <1>4, MainStarts
  <2>3. HoldsInput' = HoldsInput /\ HoldsOutput' = HoldsOutput
    BY <2>2 DEF HoldsInput, HoldsOutput
  <2>4. InDecoder' = InDecoder /\ InEncoder' = InEncoder
    BY <2>1, <2>2 DEF InDecoder, InEncoder
  <2> QED BY <1>u, <2>1, <2>3, <2>4 DEF Frames, InWorkers, Holders
<1>5. CASE UNCHANGED vars
  BY <1>u, <1>5 DEF vars, Frames, InDecoder, InWorkers, Holders, HoldsInput, HoldsOutput,
         InEncoder
<1> QED BY <1>1, <1>2, <1>3, <1>4, <1>5 DEF Next, Stutter

(* Until something fails each frame the decoder has numbered is in one place. *)
LEMMA OnePlaceStep ==
  ASSUME CoreInv, CoreInv', [Next]_vars, EveryFrameInOnePlace
  PROVE  EveryFrameInOnePlace'
<1>2. Healthy => InOnePlace
  BY FrameCounts DEF FrameNumbers, EveryFrameInOnePlace, InOnePlace, CountButEncoder, Holders, CoreInv
<1>3. SUFFICES ASSUME Healthy' PROVE InOnePlace'
  <2>1. FrameNumbers'
    <3>1. TypeOK' BY DEF CoreInv
    <3> QED BY <3>1, FrameCounts, PTL
  <2> QED BY <2>1 DEF FrameNumbers, EveryFrameInOnePlace, InOnePlace, CountButEncoder, Holders
<1> QED BY <1>2, <1>3, HealthyBackwards, FrameStep

-----------------------------------------------------------------------------
(* Buffers: none leaks, and there is always one for the decoder.           *)

(* A step that fails nothing gives a buffer of a pool from one holder to the next. *)
LEMMA BufferStep ==
  ASSUME CoreInv, CoreInv', [Next]_vars, Healthy, Healthy', InOnePlace,
         RawBuffers = PoolCapacity, ProcessedBuffers = PoolCapacity
  PROVE  RawBuffers' = PoolCapacity /\ ProcessedBuffers' = PoolCapacity
<1> USE FilterAssumption DEF CoreInv, TypeOK, LabelsOK, Healthy, Threads, Stages,
       Goto, Fail, FailLabels, CloseLabels, global, queues, pools, output
<1>n. /\ HoldsInput \subseteq Workers /\ HoldsOutput \subseteq Workers
      /\ Cardinality(HoldsInput) \in Nat /\ Cardinality(HoldsOutput) \in Nat
      /\ Cardinality(pending) \in Nat
      /\ Len(rawQueue) \in Nat /\ Len(processedQueue) \in Nat
      /\ rawAvailable \in Nat /\ processedAvailable \in Nat
      /\ DecoderHolds \in {0, 1} /\ EncoderHolds \in {0, 1}
  BY Counts DEF DecoderHolds, EncoderHolds
<1>q. /\ rawQueue \in Seq(Int) /\ processedQueue \in Seq(Int)
      /\ \A e \in Int : /\ Len(Append(rawQueue, e)) = Len(rawQueue) + 1
                        /\ Len(Append(processedQueue, e)) = Len(processedQueue) + 1
      /\ rawQueue # <<>> => Len(Tail(rawQueue)) = Len(rawQueue) - 1
      /\ processedQueue # <<>> => Len(Tail(processedQueue)) = Len(processedQueue) - 1
  <2>1. rawQueue \in Seq(Int) /\ processedQueue \in Seq(Int)
    BY FramesAreNat, SeqMonotonic, Nat \subseteq Int
  <2> QED BY <2>1, LenOfQueues
<1>o. "rawPool" \notin closed /\ "processedPool" \notin closed
  BY DEF Failing
<1>s. /\ rawAvailable + Len(rawQueue) + Cardinality(HoldsInput) + DecoderHolds = PoolCapacity
      /\ processedAvailable + Len(processedQueue) + Cardinality(HoldsOutput)
            + Cardinality(pending) + EncoderHolds = PoolCapacity
  BY DEF RawBuffers, ProcessedBuffers
<1>g. SUFFICES
         /\ rawAvailable' + Len(rawQueue') + Cardinality(HoldsInput') + DecoderHolds'
               = PoolCapacity
         /\ processedAvailable' + Len(processedQueue') + Cardinality(HoldsOutput')
               + Cardinality(pending') + EncoderHolds' = PoolCapacity
  BY DEF RawBuffers, ProcessedBuffers
<1>1. CASE DecoderNext
  <2>0. /\ UNCHANGED <<HoldsInput, HoldsOutput, EncoderHolds>>
        /\ UNCHANGED <<processedAvailable, processedQueue, pending>>
    <3>1. \A t \in Threads \ {Decoder} : pc'[t] = pc[t]
      BY <1>1 DEF DecoderNext, DecoderAcquire, DecoderRead, DecoderCheck, DecoderPush,
             DecoderDrop, DecoderClose, CloseStep, PipelineFail, SetFailed
    <3>2. UNCHANGED <<processedAvailable, processedQueue, pending>>
      BY <1>1 DEF DecoderNext, DecoderAcquire, DecoderRead, DecoderCheck, DecoderPush,
             DecoderDrop, DecoderClose, CloseStep, PipelineFail, SetFailed, ReleaseRaw
    <3> QED BY <3>1, <3>2 DEF HoldsInput, HoldsOutput, EncoderHolds
  <2>1. CASE DecoderAcquire
    <3>1. /\ rawQueue' = rawQueue /\ DecoderHolds = 0
          /\ \/ rawAvailable' = rawAvailable /\ DecoderHolds' = 0
             \/ rawAvailable' = rawAvailable - 1 /\ DecoderHolds' = 1
      BY <2>1 DEF DecoderAcquire, DecoderHolds
    <3> QED BY <1>n, <1>s, <2>0, <3>1
  <2>2. CASE DecoderPush
    <3>1. "rawQueue" \notin closed /\ decoded - 1 \in Int
      BY <2>2, FramesAreNat DEF DecoderPush, Ending
    <3>2. /\ Len(rawQueue') = Len(rawQueue) + 1 /\ rawAvailable' = rawAvailable
          /\ DecoderHolds = 1 /\ DecoderHolds' = 0
      BY <1>q, <2>2, <3>1 DEF DecoderPush, IsClosed, DecoderHolds
    <3> QED BY <1>n, <1>s, <2>0, <3>2
  <2>3. CASE DecoderDrop
    <3>1. /\ rawQueue' = rawQueue /\ rawAvailable' = rawAvailable + 1
          /\ DecoderHolds = 1 /\ DecoderHolds' = 0
      BY <1>o, <2>3 DEF DecoderDrop, ReleaseRaw, IsClosed, DecoderHolds
    <3> QED BY <1>n, <1>s, <2>0, <3>1
  <2>4. CASE ~DecoderAcquire /\ ~DecoderPush /\ ~DecoderDrop
    <3>1. UNCHANGED <<rawQueue, rawAvailable, DecoderHolds>>
      BY <1>1, <2>4 DEF DecoderNext, DecoderRead, DecoderCheck, DecoderClose, CloseStep,
             PipelineFail, SetFailed, DecoderHolds, Failing
    <3> QED BY <1>s, <2>0, <3>1
  <2> QED BY <2>1, <2>2, <2>3, <2>4
<1>2. ASSUME NEW w \in Workers, WorkerNext(w)
      PROVE  /\ rawAvailable' + Len(rawQueue') + Cardinality(HoldsInput') + DecoderHolds'
                   = PoolCapacity
             /\ processedAvailable' + Len(processedQueue') + Cardinality(HoldsOutput')
                   + Cardinality(pending') + EncoderHolds' = PoolCapacity
  <2>0. UNCHANGED <<pending, DecoderHolds, EncoderHolds>>
    <3>1. \A t \in Threads \ {w} : pc'[t] = pc[t]
      BY <1>2 DEF WorkerNext, WorkerPop, WorkerCheck, WorkerAcquire, WorkerProcess,
             WorkerReleaseInput, WorkerKernel, WorkerPush, WorkerReleaseOutput,
             WorkerFinish, CloseStep, PipelineFail, SetFailed
    <3>2. pending' = pending
      BY <1>2 DEF WorkerNext, WorkerPop, WorkerCheck, WorkerAcquire, WorkerProcess,
             WorkerReleaseInput, WorkerKernel, WorkerPush, WorkerReleaseOutput,
             WorkerFinish, CloseStep, PipelineFail, SetFailed
    <3> QED BY <3>1, <3>2 DEF DecoderHolds, EncoderHolds
  <2>1. CASE WorkerPop(w) /\ rawQueue # <<>>
    <3>1. HoldsInput' = HoldsInput \cup {w} /\ w \notin HoldsInput /\ HoldsOutput' = HoldsOutput
      BY <2>1 DEF WorkerPop, HoldsInput, HoldsOutput
    <3>2. Cardinality(HoldsInput') = Cardinality(HoldsInput) + 1
      BY <1>n, <3>1, SubsetOfWorkers
    <3>3. Len(rawQueue') = Len(rawQueue) - 1 /\ UNCHANGED <<processedQueue, pools>>
      BY <1>q, <2>1 DEF WorkerPop
    <3> QED BY <1>n, <1>s, <2>0, <3>1, <3>2, <3>3
  <2>2. CASE WorkerAcquire(w)
    <3>1. HoldsOutput' = HoldsOutput \cup {w} /\ w \notin HoldsOutput /\ HoldsInput' = HoldsInput
      BY <1>o, <2>2 DEF WorkerAcquire, IsClosed, HoldsInput, HoldsOutput
    <3>2. Cardinality(HoldsOutput') = Cardinality(HoldsOutput) + 1
      BY <1>n, <3>1, SubsetOfWorkers
    <3>3. processedAvailable' = processedAvailable - 1 /\ UNCHANGED <<queues, rawAvailable>>
      BY <1>o, <2>2 DEF WorkerAcquire, IsClosed
    <3> QED BY <1>n, <1>s, <2>0, <3>1, <3>2, <3>3
  <2>3. CASE WorkerReleaseInput(w)
    <3>1. HoldsInput' = HoldsInput \ {w} /\ w \in HoldsInput /\ HoldsOutput' = HoldsOutput
      BY <2>3 DEF WorkerReleaseInput, AfterInput, HoldsInput, HoldsOutput
    <3>2. Cardinality(HoldsInput') = Cardinality(HoldsInput) - 1
      BY <1>n, <3>1, SubsetOfWorkers
    <3>3. rawAvailable' = rawAvailable + 1 /\ UNCHANGED <<queues, processedAvailable>>
      BY <1>o, <2>3 DEF WorkerReleaseInput, ReleaseRaw, IsClosed
    <3> QED BY <1>n, <1>s, <2>0, <3>1, <3>2, <3>3
  <2>4. CASE WorkerPush(w)
    <3>1. "processedQueue" \notin closed /\ current[w] \in Int
      BY <2>4 DEF WorkerPush, Ending, FramesOK
    <3>2. HoldsInput' = HoldsInput /\ HoldsOutput' = HoldsOutput \ {w} /\ w \in HoldsOutput
      BY <2>4, <3>1 DEF WorkerPush, IsClosed, HoldsInput, HoldsOutput
    <3>3. Cardinality(HoldsOutput') = Cardinality(HoldsOutput) - 1
      BY <1>n, <3>2, SubsetOfWorkers
    <3>4. Len(processedQueue') = Len(processedQueue) + 1 /\ UNCHANGED <<rawQueue, pools>>
      BY <1>q, <2>4, <3>1 DEF WorkerPush, IsClosed
    <3> QED BY <1>n, <1>s, <2>0, <3>2, <3>3, <3>4
  <2>5. CASE /\ ~(WorkerPop(w) /\ rawQueue # <<>>) /\ ~WorkerAcquire(w)
             /\ ~WorkerReleaseInput(w) /\ ~WorkerPush(w)
    <3>1. ~WorkerReleaseOutput(w)
      BY DEF WorkerReleaseOutput, Failing
    <3>2. UNCHANGED <<queues, pools>>
      BY <1>2, <2>5, <3>1 DEF WorkerNext, WorkerPop, WorkerCheck, WorkerProcess,
             WorkerKernel, WorkerFinish, CloseStep, PipelineFail, SetFailed
    <3>3. HoldsInput' = HoldsInput /\ HoldsOutput' = HoldsOutput
      BY <1>2, <2>5, <3>1 DEF Failing, HoldsInput, HoldsOutput, WorkerNext, WorkerPop,
             WorkerCheck, WorkerProcess, WorkerKernel, WorkerFinish, CloseStep,
             PipelineFail, SetFailed
    <3> QED BY <1>s, <2>0, <3>2, <3>3
  <2> QED BY <2>1, <2>2, <2>3, <2>4, <2>5
<1>3. CASE EncoderNext
  <2>0. UNCHANGED <<HoldsInput, HoldsOutput, DecoderHolds, rawAvailable, rawQueue>>
    <3>1. \A t \in Threads \ {Encoder} : pc'[t] = pc[t]
      BY <1>3 DEF EncoderNext, EncoderPop, EncoderCheck, EncoderInsert, EncoderWrite,
             EncoderGiveBack, EncoderDrain, EncoderLeftovers, EncoderDiscard,
             EncoderFlush, CloseStep, PipelineFail, SetFailed
    <3>2. UNCHANGED <<rawAvailable, rawQueue>>
      BY <1>3 DEF EncoderNext, EncoderPop, EncoderCheck, EncoderInsert, EncoderWrite,
             EncoderGiveBack, EncoderDrain, EncoderLeftovers, EncoderDiscard,
             EncoderFlush, CloseStep, PipelineFail, SetFailed, ReleaseProcessed
    <3> QED BY <3>1, <3>2 DEF HoldsInput, HoldsOutput, DecoderHolds
  <2>1. CASE EncoderPop /\ processedQueue # <<>>
    <3>1. /\ Len(processedQueue') = Len(processedQueue) - 1
          /\ UNCHANGED <<processedAvailable, pending>>
          /\ EncoderHolds = 0 /\ EncoderHolds' = 1
      BY <1>q, <2>1 DEF EncoderPop, EncoderHolds
    <3> QED BY <1>n, <1>s, <2>0, <3>1
  <2>2. CASE EncoderInsert
    <3>1. /\ pending' = pending \cup {current[Encoder]}
          /\ UNCHANGED <<processedAvailable, processedQueue>>
          /\ EncoderHolds = 1 /\ EncoderHolds' = 0
      BY <2>2 DEF EncoderInsert, EncoderHolds
    <3>2. current[Encoder] \notin pending
      BY <2>2, InsertIsNew DEF EncoderInsert
    <3>3. Cardinality(pending') = Cardinality(pending) + 1
      BY <3>1, <3>2, PendingFinite, FS_AddElement DEF FramesOK
    <3> QED BY <1>n, <1>s, <2>0, <3>1, <3>3
  <2>3. CASE EncoderWrite /\ next \in pending
    <3>1. /\ pending' = pending \ {next}
          /\ UNCHANGED <<processedAvailable, processedQueue>>
          /\ EncoderHolds = 0 /\ EncoderHolds' = 1
      BY <2>3 DEF EncoderWrite, WriteLoop, EncoderHolds
    <3>2. Cardinality(pending') = Cardinality(pending) - 1
      BY <2>3, <3>1, PendingFinite DEF FramesOK
    <3> QED BY <1>n, <1>s, <2>0, <3>1, <3>2
  <2>4. CASE EncoderGiveBack
    <3>1. /\ processedAvailable' = processedAvailable + 1
          /\ UNCHANGED <<pending, processedQueue>>
          /\ EncoderHolds = 1 /\ EncoderHolds' = 0
      BY <1>o, <2>4 DEF EncoderGiveBack, ReleaseProcessed, IsClosed, EncoderHolds
    <3> QED BY <1>n, <1>s, <2>0, <3>1
  <2>5. CASE /\ ~(EncoderPop /\ processedQueue # <<>>) /\ ~EncoderInsert
             /\ ~(EncoderWrite /\ next \in pending) /\ ~EncoderGiveBack
    <3>1. UNCHANGED <<processedAvailable, processedQueue, pending>>
      BY <1>3, <2>5 DEF Failing, EncoderNext, EncoderPop, EncoderCheck, EncoderWrite,
             WriteLoop, EncoderDrain, EncoderLeftovers, EncoderDiscard, EncoderFlush,
             CloseStep, PipelineFail, SetFailed
    <3>2. EncoderHolds' = EncoderHolds
      <4>1. CASE EncoderPop \/ EncoderCheck \/ EncoderWrite
        BY <2>5, <4>1 DEF EncoderPop, EncoderCheck, EncoderWrite, WriteLoop, EncoderHolds
      <4>2. CASE ~(EncoderPop \/ EncoderCheck \/ EncoderWrite)
        BY <1>3, <2>5, <4>2 DEF Failing, EncoderNext, EncoderDrain, EncoderLeftovers,
               EncoderDiscard, EncoderFlush, CloseStep, PipelineFail, SetFailed,
               EncoderHolds
      <4> QED BY <4>1, <4>2
    <3> QED BY <1>s, <2>0, <3>1, <3>2
  <2> QED BY <2>1, <2>2, <2>3, <2>4, <2>5
<1>4. CASE MainNext
  <2>1. UNCHANGED <<queues, pools, pending>>
    BY <1>4 DEF MainNext, MainCreateDecoder, MainCreateEncoder, MainCreateEncoderOnly,
           MainCreateWorker, MainCreated, MainJoin, MainReturn, Create, CreateFails,
           CloseStep, PipelineFail, SetFailed
  <2>2. \A t \in Stages : \/ pc'[t] = pc[t]
                          \/ /\ pc[t] = "none"
                             /\ pc'[t] \in {"acquire", "pop", "absent"}
                             /\ t \in Workers => pc'[t] # "acquire"
    BY <1>4, MainStarts
  <2>3. HoldsInput' = HoldsInput /\ HoldsOutput' = HoldsOutput
    BY <2>2 DEF HoldsInput, HoldsOutput
  <2>4. DecoderHolds' = DecoderHolds /\ EncoderHolds' = EncoderHolds
    BY <2>2 DEF DecoderHolds, EncoderHolds
  <2> QED BY <1>s, <2>1, <2>3, <2>4
<1>5. CASE UNCHANGED vars
  BY <1>s, <1>5 DEF vars, HoldsInput, HoldsOutput, DecoderHolds, EncoderHolds
<1> QED BY <1>1, <1>2, <1>3, <1>4, <1>5 DEF Next, Stutter

(* Until something fails no buffer leaks and none is released twice. *)
LEMMA ConservedStep ==
  ASSUME CoreInv, CoreInv', [Next]_vars, EveryFrameInOnePlace, BuffersConserved
  PROVE  BuffersConserved'
<1>1. SUFFICES ASSUME Healthy'
               PROVE  RawBuffers' = PoolCapacity /\ ProcessedBuffers' = PoolCapacity
  BY DEF BuffersConserved, PoolCapacity
<1>2. Healthy
  BY <1>1, HealthyBackwards
<1>3. InOnePlace
  BY <1>2, FrameCounts DEF FrameNumbers, EveryFrameInOnePlace, InOnePlace,
         CountButEncoder, Holders, CoreInv
<1> QED BY <1>1, <1>2, <1>3, BufferStep DEF BuffersConserved

(* A worker that frees its input stops: the raw pool is short of no other buffer. *)
LEMMA LastStep ==
  ASSUME CoreInv, CoreInv', [Next]_vars, RawBuffersLast
  PROVE  RawBuffersLast'
<1> USE FilterAssumption DEF CoreInv, TypeOK, LabelsOK, Threads, Stages,
       Goto, Fail, FailLabels, CloseLabels, global, queues, pools, output
<1> DEFINE Short == HoldsInput \cup TakesNoMore
<1>n. /\ Short \subseteq Workers /\ Cardinality(Short) \in Nat
      /\ Len(rawQueue) \in Nat /\ rawAvailable \in Nat /\ PoolCapacity \in Nat
      /\ DecoderHolds \in {0, 1}
  <2>1. Short \subseteq Workers
    BY DEF HoldsInput, TakesNoMore
  <2> HIDE DEF Short
  <2> QED BY <2>1, Counts, SubsetOfWorkers DEF DecoderHolds
<1>q. /\ rawQueue \in Seq(Int)
      /\ \A e \in Int : Len(Append(rawQueue, e)) = Len(rawQueue) + 1
      /\ rawQueue # <<>> => Len(Tail(rawQueue)) = Len(rawQueue) - 1
  <2>1. rawQueue \in Seq(Int)
    BY FramesAreNat, SeqMonotonic, Nat \subseteq Int
  <2> QED BY <2>1, LenOfQueues
<1>c. SUFFICES ASSUME "rawPool" \notin closed'
      PROVE  rawAvailable' + Len(rawQueue') + DecoderHolds' + Cardinality(Short')
                >= PoolCapacity
  BY DEF RawBuffersLast, IsClosed
<1>o. "rawPool" \notin closed
  <2>1. closed \subseteq closed'
    BY DEF Next, Stutter, vars, DecoderNext, DecoderAcquire, DecoderRead,
           DecoderCheck, DecoderPush, DecoderDrop, DecoderClose, CloseStep, PipelineFail,
           SetFailed, WorkerNext, WorkerPop, WorkerCheck, WorkerAcquire, WorkerProcess,
           WorkerReleaseInput, WorkerKernel, WorkerPush, WorkerReleaseOutput,
           WorkerFinish, EncoderNext, EncoderPop, EncoderCheck, EncoderInsert,
           EncoderWrite, EncoderGiveBack, EncoderDrain, EncoderLeftovers, EncoderDiscard,
           EncoderFlush, MainNext, MainCreateDecoder, MainCreateEncoder,
           MainCreateEncoderOnly, MainCreateWorker, MainCreated, MainJoin, MainReturn,
           Create, CreateFails
  <2> QED BY <1>c, <2>1
<1>s. rawAvailable + Len(rawQueue) + DecoderHolds + Cardinality(Short) >= PoolCapacity
  BY <1>o DEF RawBuffersLast, IsClosed
<1>1. CASE DecoderNext
  <2>0. Short' = Short
    <3>1. \A t \in Threads \ {Decoder} : pc'[t] = pc[t]
      BY <1>1 DEF DecoderNext, DecoderAcquire, DecoderRead, DecoderCheck, DecoderPush,
             DecoderDrop, DecoderClose, CloseStep, PipelineFail, SetFailed
    <3> QED BY <3>1 DEF HoldsInput, TakesNoMore
  <2> HIDE DEF Short
  <2>1. CASE DecoderAcquire
    <3>1. /\ rawQueue' = rawQueue /\ DecoderHolds = 0
          /\ \/ rawAvailable' = rawAvailable /\ DecoderHolds' = 0
             \/ rawAvailable' = rawAvailable - 1 /\ DecoderHolds' = 1
      BY <2>1 DEF DecoderAcquire, DecoderHolds
    <3> QED BY <1>n, <1>s, <2>0, <3>1
  <2>2. CASE DecoderPush
    <3>1. decoded - 1 \in Int
      BY FramesAreNat
    <3>2. /\ rawAvailable' = rawAvailable /\ DecoderHolds = 1
          /\ \/ Len(rawQueue') = Len(rawQueue) + 1 /\ DecoderHolds' = 0
             \/ rawQueue' = rawQueue /\ DecoderHolds' = 1
      BY <1>q, <2>2, <3>1 DEF DecoderPush, DecoderHolds
    <3> QED BY <1>n, <1>s, <2>0, <3>2
  <2>3. CASE DecoderDrop
    <3>1. /\ rawQueue' = rawQueue /\ rawAvailable' = rawAvailable + 1
          /\ DecoderHolds = 1 /\ DecoderHolds' = 0
      BY <1>o, <2>3 DEF DecoderDrop, ReleaseRaw, IsClosed, DecoderHolds
    <3> QED BY <1>n, <1>s, <2>0, <3>1
  <2>4. CASE ~DecoderAcquire /\ ~DecoderPush /\ ~DecoderDrop
    <3>1. UNCHANGED <<rawQueue, rawAvailable, DecoderHolds>>
      BY <1>1, <2>4 DEF DecoderNext, DecoderRead, DecoderCheck, DecoderClose, CloseStep,
             PipelineFail, SetFailed, DecoderHolds, Failing
    <3> QED BY <1>s, <2>0, <3>1
  <2> QED BY <2>1, <2>2, <2>3, <2>4
<1>2. ASSUME NEW w \in Workers, WorkerNext(w)
      PROVE  rawAvailable' + Len(rawQueue') + DecoderHolds' + Cardinality(Short')
                >= PoolCapacity
  <2>0. DecoderHolds' = DecoderHolds /\ \A t \in Threads \ {w} : pc'[t] = pc[t]
    <3>1. \A t \in Threads \ {w} : pc'[t] = pc[t]
      BY <1>2 DEF WorkerNext, WorkerPop, WorkerCheck, WorkerAcquire, WorkerProcess,
             WorkerReleaseInput, WorkerKernel, WorkerPush, WorkerReleaseOutput,
             WorkerFinish, CloseStep, PipelineFail, SetFailed
    <3> QED BY <3>1 DEF DecoderHolds
  <2>1. CASE WorkerPop(w) /\ rawQueue # <<>>
    <3>1. Short' = Short \cup {w} /\ w \notin Short
      BY <2>1 DEF WorkerPop, HoldsInput, TakesNoMore
    <3> HIDE DEF Short
    <3>2. Cardinality(Short') = Cardinality(Short) + 1
      BY <1>n, <3>1, SubsetOfWorkers
    <3>3. Len(rawQueue') = Len(rawQueue) - 1 /\ rawAvailable' = rawAvailable
      BY <1>q, <2>1 DEF WorkerPop
    <3> QED BY <1>n, <1>s, <2>0, <3>2, <3>3
  <2>2. CASE WorkerReleaseInput(w)
    <3>1. Short' = Short \ {w} \/ Short' = Short
      BY <2>0, <2>2 DEF WorkerReleaseInput, AfterInput, HoldsInput, TakesNoMore
    <3> HIDE DEF Short
    <3>2. Cardinality(Short') >= Cardinality(Short) - 1 /\ Cardinality(Short') \in Int
      <4>1. CASE Short' = Short
        BY <1>n, <4>1
      <4>2. CASE w \in Short /\ Short' = Short \ {w}
        <5>1. Cardinality(Short \ {w}) = Cardinality(Short) - 1
          BY <1>n, <4>2, SubsetOfWorkers
        <5> QED BY <1>n, <4>2, <5>1
      <4> QED BY <3>1, <4>1, <4>2
    <3>3. rawAvailable' = rawAvailable + 1 /\ rawQueue' = rawQueue
      BY <1>o, <2>2 DEF WorkerReleaseInput, ReleaseRaw, IsClosed
    <3> QED BY <1>n, <1>s, <2>0, <3>2, <3>3
  <2>3. CASE ~(WorkerPop(w) /\ rawQueue # <<>>) /\ ~WorkerReleaseInput(w)
    <3>1. rawQueue' = rawQueue /\ rawAvailable' = rawAvailable
      BY <1>2, <2>3 DEF WorkerNext, WorkerPop, WorkerCheck, WorkerAcquire, WorkerProcess,
             WorkerKernel, WorkerPush, WorkerReleaseOutput, WorkerFinish, CloseStep,
             PipelineFail, SetFailed, ReleaseProcessed
    <3>2. w \in Short => w \in Short'
      BY <1>2, <2>3 DEF Failing, HoldsInput, TakesNoMore, WorkerNext, WorkerPop,
             WorkerCheck, WorkerAcquire, WorkerProcess, WorkerKernel, WorkerPush,
             WorkerReleaseOutput, WorkerFinish, CloseStep, PipelineFail, SetFailed
    <3>3. Short' = Short \/ Short' = Short \cup {w}
      BY <2>0, <3>2 DEF HoldsInput, TakesNoMore
    <3> HIDE DEF Short
    <3>4. Cardinality(Short') >= Cardinality(Short) /\ Cardinality(Short') \in Int
      <4>1. CASE Short' = Short
        BY <1>n, <4>1
      <4>2. CASE w \notin Short /\ Short' = Short \cup {w}
        <5>1. Cardinality(Short \cup {w}) = Cardinality(Short) + 1
          BY <1>n, <4>2, SubsetOfWorkers
        <5> QED BY <1>n, <4>2, <5>1
      <4> QED BY <3>3, <4>1, <4>2
    <3> QED BY <1>n, <1>s, <2>0, <3>1, <3>4
  <2> QED BY <2>1, <2>2, <2>3
<1>3. CASE EncoderNext
  <2>1. \A t \in Threads \ {Encoder} : pc'[t] = pc[t]
    BY <1>3 DEF EncoderNext, EncoderPop, EncoderCheck, EncoderInsert, EncoderWrite,
           EncoderGiveBack, EncoderDrain, EncoderLeftovers, EncoderDiscard,
           EncoderFlush, CloseStep, PipelineFail, SetFailed
  <2>2. UNCHANGED <<rawAvailable, rawQueue>>
    BY <1>3 DEF EncoderNext, EncoderPop, EncoderCheck, EncoderInsert, EncoderWrite,
           EncoderGiveBack, EncoderDrain, EncoderLeftovers, EncoderDiscard,
           EncoderFlush, CloseStep, PipelineFail, SetFailed, ReleaseProcessed
  <2>3. Short' = Short /\ DecoderHolds' = DecoderHolds
    BY <2>1 DEF HoldsInput, TakesNoMore, DecoderHolds
  <2> QED BY <1>s, <2>2, <2>3
<1>4. CASE MainNext
  <2>1. UNCHANGED <<queues, pools>>
    BY <1>4 DEF MainNext, MainCreateDecoder, MainCreateEncoder, MainCreateEncoderOnly,
           MainCreateWorker, MainCreated, MainJoin, MainReturn, Create, CreateFails,
           CloseStep, PipelineFail, SetFailed
  <2>2. \A t \in Stages : \/ pc'[t] = pc[t]
                          \/ /\ pc[t] = "none"
                             /\ pc'[t] \in {"acquire", "pop", "absent"}
                             /\ t \in Workers => pc'[t] # "acquire"
    BY <1>4, MainStarts
  <2>3. Short' = Short /\ DecoderHolds' = DecoderHolds
    BY <2>2 DEF HoldsInput, TakesNoMore, DecoderHolds
  <2> QED BY <1>s, <2>1, <2>3
<1>5. CASE UNCHANGED vars
  BY <1>s, <1>5 DEF vars, HoldsInput, TakesNoMore, DecoderHolds
<1> QED BY <1>1, <1>2, <1>3, <1>4, <1>5 DEF Next, Stutter

(* What RawBuffersLast is for: with frame_slots buffers in the queue and one for each
   worker there is one left for the decoder. *)
LEMMA OneForTheDecoder == CoreInv /\ RawBuffersLast => DecoderNeverWaitsForBuffer
<1> SUFFICES ASSUME CoreInv, RawBuffersLast, pc[Decoder] = "acquire", ~IsClosed("rawPool")
             PROVE  rawAvailable > 0
  BY DEF DecoderNeverWaitsForBuffer
<1> DEFINE Short == HoldsInput \cup TakesNoMore
<1>1. rawAvailable + Len(rawQueue) + DecoderHolds + Cardinality(Short) >= PoolCapacity
  BY DEF RawBuffersLast
<1>2. Cardinality(Short) \in Nat /\ Cardinality(Short) <= Cardinality(Workers)
  <2>1. Short \subseteq Workers
    BY DEF HoldsInput, TakesNoMore
  <2> QED BY <2>1, SubsetOfWorkers
<1>3. Len(rawQueue) <= FrameSlots /\ Len(rawQueue) \in Nat /\ rawAvailable \in Nat
  BY Counts DEF CoreInv, TypeOK, BoundsOK
<1>4. DecoderHolds = 0
  BY DEF DecoderHolds
<1>5. PoolCapacity = FrameSlots + Cardinality(Workers) + 1
      /\ FrameSlots \in Nat /\ Cardinality(Workers) \in Nat
  BY FilterAssumption, CardinalityOfWorkers DEF PoolCapacity
<1> HIDE DEF Short
<1> QED BY <1>1, <1>2, <1>3, <1>4, <1>5

-----------------------------------------------------------------------------
(* The joins.                                                              *)

(* Only the main thread starts a thread, and it does so before the joins. *)
LEMMA JoinedStep ==
  ASSUME CoreInv, [Next]_vars, Joined
  PROVE  Joined'
<1> USE FilterAssumption DEF CoreInv, TypeOK, LabelsOK, Threads, Stages,
       Goto, Fail, FailLabels, CloseLabels, MainLabels, global, queues, pools, output
<1>j. SUFFICES ASSUME JoinsAreSound
      PROVE  /\ pc'[Main] \in {"cleanup", "done"} => Running' = {}
             /\ pc'[Main] # "undefined"
             /\ pc'[Main] \in FailLabels => resume'[Main] # "cleanup"
             /\ "create" \notin Faults => \A w \in Workers : pc'[w] # "absent"
  BY DEF Joined
<1>i. /\ pc[Main] \in {"cleanup", "done"} => Running = {}
      /\ pc[Main] # "undefined"
      /\ pc[Main] \in FailLabels => resume[Main] # "cleanup"
      /\ "create" \notin Faults => \A w \in Workers : pc[w] # "absent"
  BY <1>j DEF Joined
<1>m. ASSUME NEW s \in Stages, pc[s] \notin {"none", "absent", "done"},
             \A t \in Threads \ {s} : pc'[t] = pc[t], resume'[Main] = resume[Main],
             s \in Workers => pc'[s] # "absent"
      PROVE  /\ pc'[Main] \in {"cleanup", "done"} => Running' = {}
             /\ pc'[Main] # "undefined"
             /\ pc'[Main] \in FailLabels => resume'[Main] # "cleanup"
             /\ "create" \notin Faults => \A w \in Workers : pc'[w] # "absent"
  <2>1. s \in Running /\ pc'[Main] = pc[Main]
    BY <1>m DEF Running
  <2>2. pc[Main] \notin {"cleanup", "done"}
    BY <1>i, <2>1
  <2> QED BY <1>i, <1>m, <2>1, <2>2
<1>1. CASE DecoderNext
  <2>1. /\ pc[Decoder] \notin {"none", "absent", "done"}
        /\ \A t \in Threads \ {Decoder} : pc'[t] = pc[t]
        /\ resume'[Main] = resume[Main]
    BY <1>1 DEF DecoderNext, DecoderAcquire, DecoderRead, DecoderCheck, DecoderPush,
           DecoderDrop, DecoderClose, CloseStep, PipelineFail, SetFailed
  <2> QED BY <1>m, <2>1
<1>2. ASSUME NEW w \in Workers, WorkerNext(w)
      PROVE  /\ pc'[Main] \in {"cleanup", "done"} => Running' = {}
             /\ pc'[Main] # "undefined"
             /\ pc'[Main] \in FailLabels => resume'[Main] # "cleanup"
             /\ "create" \notin Faults => \A v \in Workers : pc'[v] # "absent"
  <2>1. /\ pc[w] \notin {"none", "absent", "done"}
        /\ \A t \in Threads \ {w} : pc'[t] = pc[t]
        /\ resume'[Main] = resume[Main]
    BY <1>2 DEF WorkerNext, WorkerPop, WorkerCheck, WorkerAcquire, WorkerProcess,
           WorkerReleaseInput, AfterInput, WorkerKernel, WorkerPush, WorkerReleaseOutput,
           WorkerFinish, CloseStep, PipelineFail, SetFailed
  <2>2. pc'[w] # "absent"
    BY <1>2 DEF Failing, WorkerNext, WorkerPop, WorkerCheck, WorkerAcquire, WorkerProcess,
           WorkerReleaseInput, AfterInput, WorkerKernel, WorkerPush, WorkerReleaseOutput,
           WorkerFinish, CloseStep, PipelineFail, SetFailed
  <2> QED BY <1>m, <2>1, <2>2
<1>3. CASE EncoderNext
  <2>1. /\ pc[Encoder] \notin {"none", "absent", "done"}
        /\ \A t \in Threads \ {Encoder} : pc'[t] = pc[t]
        /\ resume'[Main] = resume[Main]
    BY <1>3 DEF EncoderNext, EncoderPop, EncoderCheck, EncoderInsert, EncoderWrite,
           WriteLoop, EncoderGiveBack, EncoderDrain, EncoderLeftovers, EncoderDiscard,
           EncoderFlush, CloseStep, PipelineFail, SetFailed
  <2> QED BY <1>m, <2>1
<1>4. CASE MainNext
  <2>1. CASE MainJoin
    <3>1. "create" \notin Faults \/ Platform # "posix"
      BY <1>j DEF JoinsAreSound
    <3> QED BY <1>i, <2>1, <3>1 DEF MainJoin, Running
  <2>2. CASE MainReturn
    BY <1>i, <2>2 DEF MainReturn, Running
  <2>3. CASE PipelineFail(Main)
    BY <1>i, <2>3 DEF PipelineFail, SetFailed, CloseStep, Failing
  <2>4. CASE \E w \in Workers : MainCreateWorker(w)
    BY <1>i, <2>4 DEF MainCreateWorker
  <2>5. CASE MainCreateDecoder \/ MainCreateEncoder
    BY <1>i, <1>j, <2>5 DEF MainCreateDecoder, MainCreateEncoder, Create, CreateFails,
           Entry, JoinsAreSound
  <2>6. CASE MainCreateEncoderOnly \/ MainCreated
    BY <1>i, <2>6 DEF MainCreateEncoderOnly, MainCreated
  <2> QED BY <1>4, <2>1, <2>2, <2>3, <2>4, <2>5, <2>6 DEF MainNext
<1>5. CASE UNCHANGED vars
  BY <1>i, <1>5 DEF vars, Running
<1> QED BY <1>1, <1>2, <1>3, <1>4, <1>5 DEF Next, Stutter

-----------------------------------------------------------------------------
(* The refinement of InOrderRun.                                           *)

(* After the return no thread takes a step. *)
LEMMA NothingAfterReturn ==
  ASSUME IInv, [Next]_vars, result # "none"
  PROVE  UNCHANGED vars
<1>1. pc[Main] = "done" /\ \A s \in Stages : pc[s] \in {"none", "absent", "done"}
  BY DEF IInv, Returned, Running
<1>2. ~DecoderNext
  BY <1>1 DEF Stages, DecoderNext, DecoderAcquire, DecoderRead, DecoderCheck, DecoderPush,
         DecoderDrop, DecoderClose, CloseStep, PipelineFail, SetFailed
<1>3. \A w \in Workers : ~WorkerNext(w)
  BY <1>1 DEF Stages, WorkerNext, WorkerPop, WorkerCheck, WorkerAcquire, WorkerProcess,
         WorkerReleaseInput, WorkerKernel, WorkerPush, WorkerReleaseOutput,
         WorkerFinish, CloseStep, PipelineFail, SetFailed, AfterInput
<1>4. ~EncoderNext
  BY <1>1 DEF Stages, EncoderNext, EncoderPop, EncoderCheck, EncoderInsert, EncoderWrite,
         EncoderGiveBack, EncoderDrain, EncoderLeftovers, EncoderDiscard,
         EncoderFlush, CloseStep, PipelineFail, SetFailed, WriteLoop
<1>5. ~MainNext
  BY <1>1 DEF MainNext, MainCreateDecoder, MainCreateEncoder, MainCreateEncoderOnly,
         MainCreateWorker, MainCreated, MainJoin, MainReturn, Create, CreateFails,
         CloseStep, PipelineFail, SetFailed
<1> QED BY <1>2, <1>3, <1>4, <1>5 DEF Next, Stutter

(* Only the return of run_filter_pipeline sets the outcome. *)
LEMMA OnlyReturnDecides ==
  ASSUME [Next]_vars, result' # result
  PROVE  MainReturn
<1> USE DEF global
<1>1. ~DecoderNext
  BY DEF DecoderNext, DecoderAcquire, DecoderRead, DecoderCheck, DecoderPush,
         DecoderDrop, DecoderClose, CloseStep, PipelineFail, SetFailed
<1>2. \A w \in Workers : ~WorkerNext(w)
  BY DEF WorkerNext, WorkerPop, WorkerCheck, WorkerAcquire, WorkerProcess,
         WorkerReleaseInput, WorkerKernel, WorkerPush, WorkerReleaseOutput,
         WorkerFinish, CloseStep, PipelineFail, SetFailed
<1>3. ~EncoderNext
  BY DEF EncoderNext, EncoderPop, EncoderCheck, EncoderInsert, EncoderWrite,
         EncoderGiveBack, EncoderDrain, EncoderLeftovers, EncoderDiscard,
         EncoderFlush, CloseStep, PipelineFail, SetFailed
<1>4. MainNext => MainReturn
  BY DEF MainNext, MainCreateDecoder, MainCreateEncoder, MainCreateEncoderOnly,
         MainCreateWorker, MainCreated, MainJoin, Create, CreateFails,
         CloseStep, PipelineFail, SetFailed
<1> QED BY <1>1, <1>2, <1>3, <1>4 DEF Next, Stutter, vars

(* Only the encoder's write extends the output. *)
LEMMA OnlyWriteDelivers ==
  ASSUME [Next]_vars, written' # written
  PROVE  EncoderWrite
<1> USE DEF output
<1>1. ~DecoderNext
  BY DEF DecoderNext, DecoderAcquire, DecoderRead, DecoderCheck, DecoderPush,
         DecoderDrop, DecoderClose, CloseStep, PipelineFail, SetFailed
<1>2. \A w \in Workers : ~WorkerNext(w)
  BY DEF WorkerNext, WorkerPop, WorkerCheck, WorkerAcquire, WorkerProcess,
         WorkerReleaseInput, WorkerKernel, WorkerPush, WorkerReleaseOutput,
         WorkerFinish, CloseStep, PipelineFail, SetFailed
<1>3. EncoderNext => EncoderWrite
  BY DEF EncoderNext, EncoderPop, EncoderCheck, EncoderInsert,
         EncoderGiveBack, EncoderDrain, EncoderLeftovers, EncoderDiscard,
         EncoderFlush, CloseStep, PipelineFail, SetFailed
<1>4. ~MainNext
  BY DEF MainNext, MainCreateDecoder, MainCreateEncoder, MainCreateEncoderOnly,
         MainCreateWorker, MainCreated, MainJoin, MainReturn, Create, CreateFails,
         CloseStep, PipelineFail, SetFailed
<1> QED BY <1>1, <1>2, <1>3, <1>4 DEF Next, Stutter, vars

(* A stage that has not ended keeps the main thread from returning. *)
LEMMA ReturnedStep == IInv /\ [Next]_vars => Returned'
<1> SUFFICES ASSUME IInv, [Next]_vars, result' # "none" PROVE Returned'
  BY DEF Returned
<1>1. CASE result # "none"
  BY <1>1, NothingAfterReturn DEF IInv, Returned, vars, Running, global
<1>2. CASE result = "none"
  <2>1. MainReturn
    BY <1>2, OnlyReturnDecides
  <2>2. Running = {} /\ pc' = [pc EXCEPT ![Main] = "done"]
    BY <2>1, <1>2 DEF MainReturn, Goto
  <2>3. pc \in [Threads -> Labels]
    BY DEF IInv, CoreInv, TypeOK, LabelsOK
  <2>4. pc'[Main] = "done" /\ \A s \in Stages : pc'[s] = pc[s]
    BY <2>2, <2>3, FilterAssumption DEF Threads, Stages
  <2> QED BY <2>2, <2>4 DEF Returned, Running
<1> QED BY <1>1, <1>2

(* A write delivers the frame whose turn it is, or nothing. *)
LEMMA WriteDelivers ==
  ASSUME IInv, EncoderWrite, result = "none", written' # written
  PROVE  Run!Deliver
<1>1. next \in pending /\ written' = Append(written, next) /\ result' = result
  BY DEF EncoderWrite, global
<1>2. Len(written) = next
  BY DEF EncoderWrite, WriteLoop, IInv, CoreInv, NextToWrite
<1>3. next \in FrameIds
  BY <1>1 DEF IInv, CoreInv, TypeOK, FramesOK
<1>4. next < Total
  BY <1>3, TotalInNat DEF FrameIds
<1> QED BY <1>1, <1>2, <1>4 DEF Run!Deliver

(* Every step of the pipeline is a step of the promise or leaves it alone. *)
LEMMA RunStep == IInv /\ IInv' /\ [Next]_vars => [Run!Next]_Run!vars
<1> SUFFICES ASSUME IInv, IInv', [Next]_vars PROVE [Run!Next]_Run!vars
  OBVIOUS
<1>1. CASE result # "none"
  <2>1. UNCHANGED <<written, result>>
    BY <1>1, NothingAfterReturn DEF vars, output, global
  <2> QED BY <2>1 DEF Run!vars
<1>2. CASE result = "none" /\ written' # written
  <2>1. EncoderWrite
    BY <1>2, OnlyWriteDelivers
  <2> QED BY <2>1, <1>2, WriteDelivers DEF Run!Next
<1>3. CASE result = "none" /\ written' = written /\ result' # result
  <2>1. MainReturn
    BY <1>3, OnlyReturnDecides
  <2>2. result' \in {"ok", "error"}
    BY <2>1, <1>3 DEF MainReturn
  <2>3. CASE result' = "ok"
    <3>1. Len(written) = Total
      BY <2>3, <1>3 DEF IInv, CoreInv, SuccessMeansComplete
    <3> QED BY <3>1, <2>3, <1>3 DEF Run!Next, Run!Succeed
  <2>4. CASE result' = "error"
    BY <2>4, <1>3 DEF Run!Next, Run!Break
  <2> QED BY <2>2, <2>3, <2>4
<1>4. CASE written' = written /\ result' = result
  BY <1>4 DEF Run!vars
<1> QED BY <1>1, <1>2, <1>3, <1>4

-----------------------------------------------------------------------------
(* The theorems.                                                           *)

(* Nothing has been lost, given out or joined when the first thread is created. *)
LEMMA Begin == Init => IInv
<1> SUFFICES ASSUME Init PROVE IInv
  OBVIOUS
<1> USE FilterAssumption DEF Init
<1>1. CoreInv
  BY InvInit
<1>2. \A t \in Stages : pc[t] = "none"
  BY DEF Threads, Stages
<1>3. /\ HoldsInput = {} /\ HoldsOutput = {} /\ TakesNoMore = {}
      /\ DecoderHolds = 0 /\ EncoderHolds = 0
      /\ InDecoder = {} /\ InEncoder = {}
  BY <1>2 DEF HoldsInput, HoldsOutput, TakesNoMore, DecoderHolds, EncoderHolds, InDecoder,
         InEncoder, FailLabels, Stages
<1>4. Cardinality({}) = 0 /\ PoolCapacity \in Nat
  BY FS_EmptySet, CardinalityOfWorkers DEF PoolCapacity
<1>5. EveryFrameInOnePlace
  <2>1. InRawQueue = {} /\ InWorkers = {} /\ InProcessedQueue = {} /\ Written = {}
    BY <1>3 DEF InRawQueue, InWorkers, InProcessedQueue, Written, IdsIn
  <2> QED BY <1>3, <1>4, <2>1 DEF EveryFrameInOnePlace, Places
<1>6. BuffersConserved
  BY <1>3, <1>4 DEF BuffersConserved, RawBuffers, ProcessedBuffers
<1>7. RawBuffersLast
  <2>1. HoldsInput \cup TakesNoMore = {}
    BY <1>3
  <2> QED BY <1>3, <1>4, <2>1 DEF RawBuffersLast
<1>8. Joined /\ Returned
  BY <1>2 DEF Joined, Returned, FailLabels, Threads, Stages
<1> QED BY <1>1, <1>5, <1>6, <1>7, <1>8 DEF IInv

(* No step of a thread breaks the invariant. *)
LEMMA Step == IInv /\ [Next]_vars => IInv'
<1> SUFFICES ASSUME IInv, [Next]_vars PROVE IInv'
  OBVIOUS
<1>1. CoreInv /\ CoreInv'
  BY InvNext DEF IInv
<1>2. EveryFrameInOnePlace'
  BY <1>1, OnePlaceStep DEF IInv
<1>3. BuffersConserved'
  BY <1>1, ConservedStep DEF IInv
<1>4. RawBuffersLast'
  BY <1>1, LastStep DEF IInv
<1>5. Joined' /\ Returned'
  BY <1>1, JoinedStep, ReturnedStep DEF IInv
<1> QED BY <1>1, <1>2, <1>3, <1>4, <1>5 DEF IInv

(* The inductive invariant, whole: CoreInv, the places of frames and buffers, and
   the joins of run_filter_pipeline. *)
THEOREM Inductive == Spec => []IInv
BY Begin, Step, PTL DEF Spec

(* Until something fails, a frame the decoder has read is never dropped, duplicated
   or invented between the reader and the writer. *)
THEOREM FramesAreKept == Spec => []EveryFrameInOnePlace
<1>1. IInv => EveryFrameInOnePlace
  BY DEF IInv
<1> QED BY <1>1, Inductive, PTL

(* Until something fails, the raw and the processed pool have all their buffers back
   or in somebody's hands: none leaks, none is released twice. *)
THEOREM BuffersAreKept == Spec => []BuffersConserved
<1>1. IInv => BuffersConserved
  BY DEF IInv
<1> QED BY <1>1, Inductive, PTL

(* frame_slots + workers + 1 raw buffers are enough in every run, with failures too:
   the decoder's frame_pool_acquire finds a buffer or a closed pool. *)
THEOREM RawPoolIsLargeEnough == Spec => []DecoderNeverWaitsForBuffer
<1>1. IInv => DecoderNeverWaitsForBuffer
  BY OneForTheDecoder DEF IInv
<1> QED BY <1>1, Inductive, PTL

(* On Win32, and on POSIX as long as every thread can be created, run_filter_pipeline
   frees ctx only when no thread runs any more and joins only threads that exist. *)
THEOREM ContextOutlivesThreads ==
  ASSUME JoinsAreSound
  PROVE  Spec => []NoThreadOutlivesContext
<1>1. IInv => NoThreadOutlivesContext
  BY DEF IInv, Joined, NoThreadOutlivesContext
<1> QED BY <1>1, Inductive, PTL

(* run_filter_pipeline keeps the promise of InOrderRun to its caller: frames reach
   the writer in order and without a gap, none after the return, and 0 is returned
   only when all of them did. *)
THEOREM FilterImplementsRun == Spec => ImplementsRun
<1>1. Init => Run!Init
  BY TotalInNat DEF Init, Run!Init
<1> QED BY <1>1, Begin, Step, RunStep, PTL DEF Spec, ImplementsRun, Run!Spec
-----------------------------------------------------------------------------
(* One processor.  With several, one may fill the pending list while the   *)
(* one it waits for gets no buffer (finding RunEnds); a single one hands   *)
(* the frames on in order, and the list holds nothing back.                *)

OneProcessor == Cardinality(Workers) = 1

(* A queue of consecutive frames, from n on. *)
Numbered(q, n) == \A i \in 1 .. Len(q) : q[i] = n + i - 1

LEMMA NumberedAppend ==
  ASSUME NEW q \in Seq(Int), NEW n \in Int, NEW e \in Int, Numbered(q, n), e = n + Len(q)
  PROVE  Numbered(Append(q, e), n)
<1>1. /\ Len(q) \in Nat /\ Len(Append(q, e)) = Len(q) + 1
      /\ \A i \in 1 .. Len(q) : Append(q, e)[i] = q[i]
      /\ Append(q, e)[Len(q) + 1] = e
  BY AppendProperties, LenProperties
<1>2. ASSUME NEW i \in 1 .. Len(Append(q, e)) PROVE Append(q, e)[i] = n + i - 1
  <2>1. CASE i = Len(q) + 1
    BY <1>1, <2>1
  <2>2. CASE i # Len(q) + 1
    <3>1. i \in 1 .. Len(q)
      BY <1>1, <1>2, <2>2
    <3> QED BY <1>1, <3>1 DEF Numbered
  <2> QED BY <2>1, <2>2
<1> QED BY <1>2 DEF Numbered

LEMMA NumberedTail ==
  ASSUME NEW q \in Seq(Int), NEW n \in Int, Numbered(q, n), q # <<>>
  PROVE  Head(q) = n /\ Numbered(Tail(q), n + 1)
<1>1. /\ Len(q) \in Nat /\ Len(q) > 0 /\ Len(Tail(q)) = Len(q) - 1
      /\ \A i \in 1 .. Len(Tail(q)) : Tail(q)[i] = q[i + 1]
      /\ Head(q) = q[1]
  BY HeadTailProperties, LenProperties, EmptySeq
<1>2. Head(q) = n
  BY <1>1 DEF Numbered
<1>3. ASSUME NEW i \in 1 .. Len(Tail(q)) PROVE Tail(q)[i] = (n + 1) + i - 1
  <2>1. i + 1 \in 1 .. Len(q) /\ Tail(q)[i] = q[i + 1]
    BY <1>1
  <2> QED BY <2>1 DEF Numbered
<1> QED BY <1>2, <1>3 DEF Numbered

(* The frames that have left each place, and with them who has which.      *)
PastQueue == Len(written) + Cardinality(InEncoder) + Cardinality(pending)
PastWorker == PastQueue + Len(processedQueue)
PastRaw == PastWorker + Cardinality(Holders)
InLine ==
    /\ pending \subseteq {Len(written)} /\ InEncoder \subseteq {Len(written)}
    /\ pending # {} => pc[Encoder] = "write"
    /\ Numbered(processedQueue, PastQueue)
    /\ \A w \in Holders : current[w] = PastWorker
    /\ Numbered(rawQueue, PastRaw)

LEMMA LineStep ==
  ASSUME OneProcessor, CoreInv, CoreInv', [Next]_vars, Healthy, Healthy', InOnePlace, InLine
  PROVE  InLine'
<1> USE FilterAssumption DEF CoreInv, TypeOK, LabelsOK, Healthy, Threads, Stages,
       Goto, Fail, FailLabels, CloseLabels, global, queues, pools, output
<1>n. /\ Cardinality(InDecoder) \in Nat /\ Len(rawQueue) \in Nat
      /\ Cardinality(Holders) \in Nat /\ Len(processedQueue) \in Nat
      /\ Cardinality(pending) \in Nat /\ Len(written) \in Nat
      /\ Cardinality(InEncoder) \in Nat /\ decoded \in Nat
      /\ Holders \subseteq Workers
      /\ PastQueue \in Int /\ PastWorker \in Int /\ PastRaw \in Int
  BY FrameCounts DEF FrameNumbers, Holders, HoldsInput, HoldsOutput, PastQueue, PastWorker, PastRaw
<1>e. \A x : Cardinality({x}) = 1
  BY FS_Singleton
<1>z. Cardinality({}) = 0
  BY FS_EmptySet
<1>q. /\ rawQueue \in Seq(Int) /\ processedQueue \in Seq(Int) /\ written \in Seq(Int)
      /\ next \in Int
  BY FramesAreNat, SeqMonotonic, Nat \subseteq Int
<1>o. \A v, w \in Workers : v = w
  BY FS_Singleton DEF OneProcessor
<1>u. ASSUME UNCHANGED Frames, \A w \in Holders : current'[w] = current[w],
             pending # {} => pc'[Encoder] = "write"
      PROVE  InLine'
  BY <1>u DEF Frames, InLine, Numbered, PastQueue, PastWorker, PastRaw
<1>1. CASE DecoderNext
  <2>0. /\ UNCHANGED <<Holders, processedQueue, InEncoder, pending, written, current, InWorkers>>
        /\ pc'[Encoder] = pc[Encoder]
    <3>1. UNCHANGED <<processedQueue, pending, written, current>>
      BY <1>1 DEF DecoderNext, DecoderAcquire, DecoderRead, DecoderCheck, DecoderPush,
             DecoderDrop, DecoderClose, CloseStep, PipelineFail, SetFailed
    <3>2. \A t \in Threads \ {Decoder} : pc'[t] = pc[t]
      BY <1>1 DEF DecoderNext, DecoderAcquire, DecoderRead, DecoderCheck, DecoderPush,
             DecoderDrop, DecoderClose, CloseStep, PipelineFail, SetFailed
    <3>3. HoldsInput' = HoldsInput /\ HoldsOutput' = HoldsOutput /\ InEncoder' = InEncoder
      BY <3>1, <3>2 DEF HoldsInput, HoldsOutput, InEncoder
    <3> QED BY <3>1, <3>2, <3>3 DEF Holders, InWorkers
  <2>1. PastQueue' = PastQueue /\ PastWorker' = PastWorker /\ PastRaw' = PastRaw
    BY <2>0 DEF PastQueue, PastWorker, PastRaw
  <2>2. CASE DecoderPush
    <3>1. "rawQueue" \notin closed
      BY <2>2 DEF DecoderPush, Ending
    <3>2. rawQueue' = Append(rawQueue, decoded - 1) /\ InDecoder = {decoded - 1}
      BY <2>2, <3>1 DEF DecoderPush, IsClosed, InDecoder
    <3>3. Cardinality(InDecoder) = 1
      BY <1>e, <3>2
    <3>4. decoded - 1 = PastRaw + Len(rawQueue)
      BY SMTT(30), <1>n, <3>3 DEF InOnePlace, CountButEncoder, PastQueue, PastWorker, PastRaw
    <3>5. Numbered(rawQueue', PastRaw)
      BY <1>n, <1>q, <3>2, <3>4, NumberedAppend DEF InLine
    <3> QED BY <2>0, <2>1, <3>5 DEF InLine
  <2>3. CASE ~DecoderPush
    <3>1. rawQueue' = rawQueue
      BY <1>1, <2>3 DEF DecoderNext, DecoderAcquire, DecoderRead, DecoderCheck, DecoderDrop,
             DecoderClose, CloseStep, PipelineFail, SetFailed
    <3> QED BY <2>0, <2>1, <3>1 DEF InLine
  <2> QED BY <2>2, <2>3
<1>2. ASSUME NEW w \in Workers, WorkerNext(w) PROVE InLine'
  <2>0. UNCHANGED <<InDecoder, InEncoder, pending, written, decoded>> /\ pc'[Encoder] = pc[Encoder]
    BY <1>2 DEF InDecoder, InEncoder, WorkerNext, WorkerPop, WorkerCheck, WorkerAcquire,
           WorkerProcess, WorkerReleaseInput, AfterInput, WorkerKernel, WorkerPush,
           WorkerReleaseOutput, WorkerFinish, CloseStep, PipelineFail, SetFailed, FramesOK
  <2>p. PastQueue' = PastQueue
    BY <2>0 DEF PastQueue
  <2>1. CASE WorkerPop(w) /\ rawQueue # <<>>
    <3>1. /\ rawQueue' = Tail(rawQueue) /\ processedQueue' = processedQueue
          /\ pc' = [pc EXCEPT ![w] = "check"]
          /\ current' = [current EXCEPT ![w] = Head(rawQueue)]
      BY <2>1 DEF WorkerPop
    <3>2. w \notin Holders /\ Holders' = Holders \cup {w}
      BY <2>1, <3>1 DEF WorkerPop, Holders, HoldsInput, HoldsOutput
    <3>3. Holders = {} /\ Holders' = {w}
      BY <1>n, <1>o, <3>2
    <3>4. Cardinality(Holders) = 0 /\ Cardinality(Holders') = 1
      BY <1>e, <1>z, <3>3
    <3>5. PastWorker' = PastWorker /\ PastRaw = PastWorker /\ PastRaw' = PastRaw + 1
      BY <1>n, <2>p, <3>1, <3>4 DEF PastWorker, PastRaw
    <3>6. Head(rawQueue) = PastRaw /\ Numbered(Tail(rawQueue), PastRaw + 1)
      BY <1>n, <1>q, <2>1, NumberedTail DEF InLine
    <3>7. current'[w] = Head(rawQueue)
      BY <3>1 DEF FramesOK
    <3> QED BY <2>0, <2>p, <3>1, <3>3, <3>5, <3>6, <3>7 DEF InLine
  <2>2. CASE WorkerPush(w)
    <3>1. "processedQueue" \notin closed
      BY <2>2 DEF WorkerPush, Ending
    <3>2. /\ processedQueue' = Append(processedQueue, current[w]) /\ current[w] \in Int
          /\ rawQueue' = rawQueue /\ current' = current
          /\ pc' = [pc EXCEPT ![w] = "pop"]
      BY <2>2, <3>1 DEF WorkerPush, IsClosed, FramesOK
    <3>3. w \in Holders /\ Holders' = Holders \ {w}
      BY <2>2, <3>2 DEF WorkerPush, Holders, HoldsInput, HoldsOutput
    <3>4. Holders = {w} /\ Holders' = {}
      BY <1>n, <1>o, <3>3
    <3>5. Cardinality(Holders) = 1 /\ Cardinality(Holders') = 0
      BY <1>e, <1>z, <3>4
    <3>6. current[w] = PastQueue + Len(processedQueue)
      BY <3>3 DEF InLine, PastWorker
    <3>7. Numbered(processedQueue', PastQueue)
      BY <1>n, <1>q, <3>2, <3>6, NumberedAppend DEF InLine
    <3>8. Len(processedQueue') = Len(processedQueue) + 1
      BY <1>q, <3>2, AppendProperties
    <3>9. PastRaw' = PastRaw
      BY <1>n, <2>p, <3>5, <3>8 DEF PastWorker, PastRaw
    <3> QED BY <2>0, <2>p, <3>2, <3>4, <3>7, <3>9 DEF InLine
  <2>3. CASE ~(WorkerPop(w) /\ rawQueue # <<>>) /\ ~WorkerPush(w)
    <3>1. UNCHANGED <<rawQueue, processedQueue, current>>
      BY <1>2, <2>3 DEF WorkerNext, WorkerPop, WorkerCheck, WorkerAcquire, WorkerProcess,
             WorkerReleaseInput, WorkerKernel, WorkerReleaseOutput, WorkerFinish,
             CloseStep, PipelineFail, SetFailed
    <3>2. Holders' = Holders
      BY <1>2, <2>3 DEF Failing, Holders, HoldsInput, HoldsOutput, WorkerNext, WorkerPop,
             WorkerCheck, WorkerAcquire, WorkerProcess, WorkerReleaseInput, AfterInput,
             WorkerKernel, WorkerReleaseOutput, WorkerFinish, CloseStep, PipelineFail,
             SetFailed
    <3>3. PastWorker' = PastWorker /\ PastRaw' = PastRaw
      BY <2>p, <3>1, <3>2 DEF PastWorker, PastRaw
    <3> QED BY <2>0, <2>p, <3>1, <3>2, <3>3 DEF InLine
  <2> QED BY <2>1, <2>2, <2>3
<1>3. CASE EncoderNext
  <2>0. UNCHANGED <<InDecoder, rawQueue, InWorkers, Holders, decoded>>
        /\ \A w \in Workers : current'[w] = current[w]
    <3>1. UNCHANGED <<rawQueue, decoded>> /\ \A w \in Workers : current'[w] = current[w]
      BY <1>3 DEF EncoderNext, EncoderPop, EncoderCheck, EncoderInsert, EncoderWrite,
             EncoderGiveBack, EncoderDrain, EncoderLeftovers, EncoderDiscard,
             EncoderFlush, CloseStep, PipelineFail, SetFailed, FramesOK
    <3>2. \A t \in Threads \ {Encoder} : pc'[t] = pc[t]
      BY <1>3 DEF EncoderNext, EncoderPop, EncoderCheck, EncoderInsert, EncoderWrite,
             EncoderGiveBack, EncoderDrain, EncoderLeftovers, EncoderDiscard,
             EncoderFlush, CloseStep, PipelineFail, SetFailed
    <3>3. HoldsInput' = HoldsInput /\ HoldsOutput' = HoldsOutput /\ InDecoder' = InDecoder
      BY <3>1, <3>2 DEF HoldsInput, HoldsOutput, InDecoder
    <3> QED BY <1>n, <3>1, <3>3 DEF Holders, InWorkers
  <2>w. ASSUME PastWorker' = PastWorker, Numbered(processedQueue', PastQueue'),
               pending' \subseteq {Len(written')}, InEncoder' \subseteq {Len(written')},
               pending' # {} => pc'[Encoder] = "write"
        PROVE  InLine'
    <3>1. PastRaw' = PastRaw
      BY <2>0, <2>w DEF PastRaw
    <3> QED BY <1>n, <2>0, <2>w, <3>1 DEF InLine
  <2>1. CASE EncoderPop /\ processedQueue # <<>>
    <3>1. /\ processedQueue' = Tail(processedQueue)
          /\ InEncoder = {} /\ InEncoder' = {Head(processedQueue)}
          /\ UNCHANGED <<pending, written>> /\ pc[Encoder] = "pop"
      BY <2>1 DEF EncoderPop, InEncoder, FramesOK
    <3>2. pending = {} /\ Cardinality(pending) = 0
      BY <1>z, <3>1 DEF InLine
    <3>3. Cardinality(InEncoder) = 0 /\ Cardinality(InEncoder') = 1
      BY <1>e, <1>z, <3>1
    <3>4. Head(processedQueue) = PastQueue /\ Numbered(Tail(processedQueue), PastQueue + 1)
      BY <1>n, <1>q, <2>1, NumberedTail DEF InLine
    <3>5. PastQueue = Len(written) /\ PastQueue' = PastQueue + 1
      BY <1>n, <3>1, <3>2, <3>3 DEF PastQueue
    <3>6. Len(processedQueue') = Len(processedQueue) - 1
      BY <1>q, <2>1, <3>1, LenOfQueues
    <3>7. PastWorker' = PastWorker
      BY <1>n, <3>5, <3>6 DEF PastWorker
    <3> QED BY <2>w, <3>1, <3>2, <3>4, <3>5, <3>7
  <2>2. CASE EncoderInsert
    <3>1. /\ pending' = pending \cup {current[Encoder]}
          /\ InEncoder = {current[Encoder]} /\ InEncoder' = {}
          /\ UNCHANGED <<processedQueue, written>>
          /\ pc[Encoder] = "insert" /\ pc'[Encoder] = "write"
      BY <2>2 DEF EncoderInsert, InEncoder
    <3>2. pending = {} /\ Cardinality(pending) = 0
      BY <1>z, <3>1 DEF InLine
    <3>3. pending' = InEncoder
      BY <3>1, <3>2
    <3>4. /\ Cardinality(InEncoder) = 1 /\ Cardinality(InEncoder') = 0
          /\ Cardinality(pending') = 1
      BY <1>e, <1>z, <3>1, <3>3
    <3>5. PastQueue' = PastQueue /\ PastWorker' = PastWorker
      BY <1>n, <3>1, <3>2, <3>4 DEF PastQueue, PastWorker
    <3> QED BY <2>w, <3>1, <3>3, <3>5 DEF InLine
  <2>3. CASE EncoderWrite /\ next \in pending
    <3>1. /\ pending' = pending \ {next} /\ written' = Append(written, next)
          /\ UNCHANGED <<processedQueue, InEncoder>>
          /\ InEncoder = {}
      BY <2>3 DEF EncoderWrite, WriteLoop, InEncoder
    <3>2. pending = {next} /\ pending' = {}
      BY <2>3, <3>1 DEF InLine
    <3>3. Len(Append(written, next)) = Len(written) + 1
      BY <1>q, AppendProperties
    <3>4. Cardinality(pending) = 1 /\ Cardinality(pending') = 0
      BY <1>e, <1>z, <3>2
    <3>5. Len(written') = Len(written) + 1
      BY <3>1, <3>3
    <3>6. PastQueue' = PastQueue /\ PastWorker' = PastWorker
      BY <1>n, <3>1, <3>4, <3>5 DEF PastQueue, PastWorker
    <3> QED BY <2>w, <3>1, <3>2, <3>6 DEF InLine
  <2>4. CASE /\ ~(EncoderPop /\ processedQueue # <<>>) /\ ~EncoderInsert
             /\ ~(EncoderWrite /\ next \in pending)
    <3>1. UNCHANGED <<processedQueue, InEncoder, pending, written>>
      <4>1. UNCHANGED <<processedQueue, pending, written, current>>
        BY <1>3, <2>4 DEF Failing, EncoderNext, EncoderPop, EncoderCheck, EncoderWrite,
               WriteLoop, EncoderGiveBack, EncoderDrain, EncoderLeftovers,
               EncoderDiscard, EncoderFlush, CloseStep, PipelineFail, SetFailed
      <4>2. pc'[Encoder] \in {"check", "insert"} <=> pc[Encoder] \in {"check", "insert"}
        <5>1. CASE EncoderPop \/ EncoderCheck \/ EncoderWrite
          BY <2>4, <5>1 DEF EncoderPop, EncoderCheck, EncoderWrite, WriteLoop
        <5>2. CASE ~(EncoderPop \/ EncoderCheck \/ EncoderWrite)
          BY <1>3, <2>4, <5>2 DEF Failing, EncoderNext, EncoderGiveBack, EncoderDrain,
                 EncoderLeftovers, EncoderDiscard, EncoderFlush, CloseStep, PipelineFail,
                 SetFailed
        <5> QED BY <5>1, <5>2
      <4> QED BY <4>1, <4>2 DEF InEncoder
    <3>2. pending' = {}
      <4>1. CASE EncoderWrite
        <5>1. Len(written) = next
          BY <4>1 DEF EncoderWrite, WriteLoop, NextToWrite
        <5> QED BY <2>4, <3>1, <4>1, <5>1 DEF InLine
      <4>2. CASE ~EncoderWrite
        <5>1. pc[Encoder] # "write"
          BY <1>3, <4>2 DEF EncoderNext, EncoderPop, EncoderCheck, EncoderInsert, EncoderGiveBack,
                 EncoderDrain, EncoderLeftovers, EncoderDiscard, EncoderFlush, CloseStep,
                 PipelineFail, SetFailed
        <5> QED BY <3>1, <5>1 DEF InLine
      <4> QED BY <4>1, <4>2
    <3>3. PastQueue' = PastQueue /\ PastWorker' = PastWorker
      BY <3>1 DEF PastQueue, PastWorker
    <3> QED BY <2>w, <3>1, <3>2, <3>3 DEF InLine
  <2> QED BY <2>1, <2>2, <2>3, <2>4
<1>4. CASE MainNext
  <2>1. UNCHANGED <<rawQueue, processedQueue, pending, written, decoded, current>>
    BY <1>4 DEF MainNext, MainCreateDecoder, MainCreateEncoder, MainCreateEncoderOnly,
           MainCreateWorker, MainCreated, MainJoin, MainReturn, Create, CreateFails,
           CloseStep, PipelineFail, SetFailed
  <2>2. \A t \in Stages : \/ pc'[t] = pc[t]
                          \/ /\ pc[t] = "none"
                             /\ pc'[t] \in {"acquire", "pop", "absent"}
                             /\ t \in Workers => pc'[t] # "acquire"
    BY <1>4, MainStarts
  <2>3. HoldsInput' = HoldsInput /\ HoldsOutput' = HoldsOutput
    BY <2>2 DEF HoldsInput, HoldsOutput
  <2>4. InDecoder' = InDecoder /\ InEncoder' = InEncoder
    BY <2>1, <2>2 DEF InDecoder, InEncoder
  <2>5. pending # {} => pc'[Encoder] = "write"
    BY <2>2 DEF InLine
  <2> QED BY <1>u, <2>1, <2>3, <2>4, <2>5 DEF Frames, InWorkers, Holders
<1>5. CASE UNCHANGED vars
  <2>1. UNCHANGED Frames /\ current' = current /\ pc' = pc
    BY <1>5 DEF vars, Frames, InDecoder, InWorkers, Holders, HoldsInput, HoldsOutput, InEncoder
  <2> QED BY <1>u, <2>1 DEF InLine
<1> QED BY <1>1, <1>2, <1>3, <1>4, <1>5 DEF Next, Stutter

(* Until something fails, a processor that asks for an output buffer finds *)
(* one, and the list holds at most the frame the encoder is about to write.*)
ProcessorNeverWaitsForBuffer ==
    Healthy => /\ \A w \in Workers : pc[w] = "acquire" => processedAvailable > 0
               /\ pending \subseteq {next}

LEMMA BufferForTheOne == OneProcessor /\ IInv /\ (Healthy => InLine) => ProcessorNeverWaitsForBuffer
<1> SUFFICES ASSUME OneProcessor, IInv, InLine, Healthy
             PROVE  /\ \A w \in Workers : pc[w] = "acquire" => processedAvailable > 0
                    /\ pending \subseteq {next}
  BY DEF ProcessorNeverWaitsForBuffer
<1>1. pending \subseteq {next}
  BY DEF IInv, CoreInv, NextToWrite, InLine
<1>2. ASSUME NEW w \in Workers, pc[w] = "acquire" PROVE processedAvailable > 0
  <2>1. HoldsOutput = {}
    <3>1. Workers = {w}
      BY FS_Singleton, FilterAssumption DEF OneProcessor
    <3> QED BY <1>2, <3>1 DEF HoldsOutput
  <2>2. Cardinality(HoldsOutput) = 0 /\ PoolCapacity = FrameSlots + 2 /\ FrameSlots \in Nat
    BY <2>1, FS_EmptySet, FilterAssumption DEF OneProcessor, PoolCapacity
  <2>3. Cardinality(pending) + EncoderHolds <= 1 /\ Cardinality(pending) \in Nat /\ EncoderHolds \in Nat
    <3>1. CASE pending = {}
      BY <3>1, FS_EmptySet DEF EncoderHolds
    <3>2. CASE pending # {}
      <4>1. EncoderHolds = 0
        BY <3>2 DEF InLine, EncoderHolds
      <4>2. pending = {next}
        BY <1>1, <3>2
      <4>3. Cardinality(pending) = 1
        BY <4>2, FS_Singleton
      <4> QED BY <4>1, <4>3
    <3> QED BY <3>1, <3>2
  <2>4. Len(processedQueue) <= FrameSlots /\ Len(processedQueue) \in Nat /\ processedAvailable \in Nat
    BY Counts DEF IInv, CoreInv, TypeOK, BoundsOK
  <2>5. ProcessedBuffers = PoolCapacity
    BY DEF IInv, BuffersConserved
  <2> QED BY <2>2, <2>3, <2>4, <2>5 DEF ProcessedBuffers
<1> QED BY <1>1, <1>2

(* With one processor, as run_filter_pipeline has on the GPU, frame_slots + 2        *)
(* processed buffers are enough: the wait of the finding RunEnds needs two.          *)
THEOREM OneProcessorNeverWaits ==
  ASSUME OneProcessor
  PROVE  Spec => []ProcessorNeverWaitsForBuffer
<1> DEFINE Inv == IInv /\ (Healthy => InLine)
<1>1. Init => Inv
  <2> SUFFICES ASSUME Init PROVE InLine
    BY Begin
  <2>1. /\ rawQueue = <<>> /\ processedQueue = <<>> /\ pending = {}
        /\ pc[Encoder] = "none" /\ \A w \in Workers : pc[w] = "none"
    BY FilterAssumption DEF Init, Threads, Stages
  <2>2. Len(<<>>) = 0 /\ Holders = {} /\ InEncoder = {}
    BY <2>1 DEF Holders, HoldsInput, HoldsOutput, InEncoder
  <2>3. \A n : Numbered(<<>>, n)
    BY <2>2 DEF Numbered
  <2> QED BY <2>1, <2>2, <2>3 DEF InLine
<1>2. Inv /\ [Next]_vars => Inv'
  <2> SUFFICES ASSUME Inv, [Next]_vars, Healthy' PROVE IInv' /\ InLine'
    BY Step
  <2>1. IInv' /\ CoreInv /\ CoreInv' /\ Healthy
    BY Step, HealthyBackwards, InvNext DEF IInv
  <2>2. InOnePlace
    BY <2>1, FrameCounts DEF FrameNumbers, EveryFrameInOnePlace, InOnePlace, CountButEncoder, Holders,
       CoreInv, IInv
  <2> QED BY <2>1, <2>2, LineStep
<1>3. Inv => ProcessorNeverWaitsForBuffer
  BY BufferForTheOne
<1> QED BY <1>1, <1>2, <1>3, PTL DEF Spec
=============================================================================

------------------------ MODULE DetectionAsyncProofs ------------------------
(***************************************************************************)
(* For any number of slots and lanes, any options and any video: IInv of   *)
(* DetectionAsyncInv is inductive, and with it the types and bounds hold,  *)
(* a slot has one owner, a surface stays as long as the GPU works on it,   *)
(* and every output has the frames in order.  The last section is about    *)
(* runs in which no call fails: with the benchmark they succeed.           *)
(***************************************************************************)
EXTENDS DetectionAsyncInv, FiniteSetTheorems, SequenceTheorems, TLAPS

-----------------------------------------------------------------------------
(* Queues: how a pop, a push and the length show in what a queue holds.    *)

(* What is taken from a sequence without repetition, and what is added. *)
LEMMA TailElements ==
  ASSUME NEW S, NEW s \in Seq(S), s # <<>>, Distinct(s)
  PROVE  /\ Head(s) \in S /\ Head(s) \in Elements(s)
         /\ Tail(s) \in Seq(S) /\ Len(Tail(s)) = Len(s) - 1
         /\ Distinct(Tail(s))
         /\ Elements(Tail(s)) = Elements(s) \ {Head(s)}
<1>1. Len(s) \in Nat \ {0} /\ Head(s) = s[1]
  BY EmptySeq
<1>2. /\ Head(s) \in S /\ Tail(s) \in Seq(S) /\ Len(Tail(s)) = Len(s) - 1
      /\ \A i \in 1 .. Len(Tail(s)) : Tail(s)[i] = s[i + 1]
  BY HeadTailProperties
<1>3. Distinct(Tail(s))
  <2> SUFFICES ASSUME NEW i \in 1 .. Len(Tail(s)), NEW j \in 1 .. Len(Tail(s)),
                      Tail(s)[i] = Tail(s)[j]
               PROVE  i = j
    BY DEF Distinct
  <2>1. i + 1 \in 1 .. Len(s) /\ j + 1 \in 1 .. Len(s) /\ s[i + 1] = s[j + 1]
    BY <1>1, <1>2
  <2>2. i + 1 = j + 1
    BY <2>1 DEF Distinct
  <2> QED BY <2>2
<1>4. \A i \in 2 .. Len(s) : s[i] # Head(s)
  BY <1>1 DEF Distinct
<1>5. Elements(Tail(s)) \subseteq Elements(s) \ {Head(s)}
  <2> SUFFICES ASSUME NEW i \in 1 .. Len(Tail(s))
               PROVE  Tail(s)[i] \in Elements(s) \ {Head(s)}
    BY DEF Elements
  <2>1. i + 1 \in 2 .. Len(s) /\ Tail(s)[i] = s[i + 1]
    BY <1>1, <1>2
  <2>2. i + 1 \in 1 .. Len(s)
    BY <2>1, <1>1
  <2> QED BY <2>1, <2>2, <1>4 DEF Elements
<1>6. Elements(s) \ {Head(s)} \subseteq Elements(Tail(s))
  <2> SUFFICES ASSUME NEW i \in 1 .. Len(s), s[i] # Head(s)
               PROVE  s[i] \in Elements(Tail(s))
    BY DEF Elements
  <2>1. i - 1 \in 1 .. Len(Tail(s)) /\ i - 1 + 1 = i
    BY <1>1, <1>2
  <2>2. Tail(s)[i - 1] = s[i]
    BY <1>2, <2>1
  <2> QED BY <2>1, <2>2 DEF Elements
<1>7. Head(s) \in Elements(s)
  BY <1>1 DEF Elements
<1> QED BY <1>2, <1>3, <1>5, <1>6, <1>7

LEMMA AppendElements ==
  ASSUME NEW S, NEW s \in Seq(S), NEW e \in S, Distinct(s), e \notin Elements(s)
  PROVE  /\ Append(s, e) \in Seq(S) /\ Len(Append(s, e)) = Len(s) + 1
         /\ Distinct(Append(s, e))
         /\ Elements(Append(s, e)) = Elements(s) \cup {e}
<1>1. Len(s) \in Nat
  BY LenProperties
<1>2. /\ Append(s, e) \in Seq(S) /\ Len(Append(s, e)) = Len(s) + 1
      /\ \A i \in 1 .. Len(s) : Append(s, e)[i] = s[i]
      /\ Append(s, e)[Len(s) + 1] = e
  BY <1>1, AppendProperties
<1>3. \A i \in 1 .. Len(s) + 1 : i \in 1 .. Len(s) \/ i = Len(s) + 1
  BY <1>1
<1>4. \A i \in 1 .. Len(s) : s[i] # e
  BY DEF Elements
<1>5. Distinct(Append(s, e))
  BY <1>1, <1>2, <1>3, <1>4 DEF Distinct
<1>6. Elements(Append(s, e)) = Elements(s) \cup {e}
  BY <1>1, <1>2, <1>3 DEF Elements
<1> QED BY <1>2, <1>5, <1>6

(* A queue of n things without repetition holds n of them at most. *)
LEMMA DistinctIsShort ==
  ASSUME NEW n \in Nat, NEW s \in Seq(1 .. n), Distinct(s)
  PROVE  Len(s) <= n
<1>1. Len(s) \in Nat /\ s \in [1 .. Len(s) -> 1 .. n]
  BY LenProperties
<1>2. s \in Injection(1 .. Len(s), 1 .. n)
  BY <1>1 DEF Distinct, IsInjective, Injection
<1>3. \A m \in Nat : IsFiniteSet(1 .. m) /\ Cardinality(1 .. m) = m
  <2>1. SUFFICES ASSUME NEW m \in Nat PROVE IsFiniteSet(1 .. m) /\ Cardinality(1 .. m) = m
    OBVIOUS
  <2>2. IsFiniteSet(1 .. m) /\ Cardinality(1 .. m) = (IF 1 > m THEN 0 ELSE m - 1 + 1)
    BY FS_Interval
  <2> QED BY <2>2
<1> QED BY <1>1, <1>2, <1>3, FS_Injection DEF ExistsInjection

(* What the constants and the types give at once. *)
LEMMA Basics ==
  ASSUME DataOK
  PROVE  /\ SlotCount \in Nat \ {0} /\ MaxFrames \in Nat /\ LongestVideo \in Nat
         /\ video \in Nat /\ Total \in Nat /\ Total <= video /\ video <= LongestVideo
         /\ Total = IF MaxFrames > 0 /\ MaxFrames < video THEN MaxFrames ELSE video
         /\ decoded \in Nat /\ decoded <= Total /\ next \in Nat /\ next <= decoded
         /\ 0 \notin Slots /\ NoFrame = -1
BY AsyncAssumption DEF DataOK, Frames, Total, Slots, NoFrame

LEMMA StepOf ==
  ASSUME [Next]_vars
  PROVE  \/ DecoderNext \/ SchedulerNext \/ EncoderNext \/ MetadataNext \/ MainNext
         \/ GpuNext \/ UNCHANGED vars
BY DEF Next, Stutter

-----------------------------------------------------------------------------
(* Where a thread goes, and what it leaves alone.                          *)

Keeps(u) == pc'[u] = pc[u] /\ resume'[u] = resume[u] /\ hand'[u] = hand[u]
OnlyMoves(t) == \A u \in Threads \ {t} : Keeps(u)

(* detection_async_fail, seen from outside. *)
LEMMA FailMoves ==
  ASSUME LabelsOK, DataOK, NEW t \in Threads, AsyncFail(t)
  PROVE  /\ OnlyMoves(t)
         /\ UNCHANGED <<given, meta, slots, found, decoded, lanes, scheduling, ordering, output, result>>
         /\ pc[t] \in Inside
         /\ pc[t] = "fail" => pc'[t] = "closing" /\ failed' /\ closed' = closed /\ resume' = resume
         /\ pc[t] = "closing" => /\ failed' = failed /\ closed \subseteq closed'
                                 /\ \/ pc'[t] = "closing" /\ resume' = resume
                                    \/ pc'[t] = resume[t] /\ resume'[t] = "done"
         /\ \E l, r : pc' = [pc EXCEPT ![t] = l] /\ (resume' = resume \/ resume' = [resume EXCEPT ![t] = r])
<1>1. pc \in [Threads -> Places] /\ resume \in [Threads -> Places] /\ hand \in [Threads -> Slots \cup {0}]
  BY DEF LabelsOK, DataOK
<1>2. UNCHANGED <<given, meta, slots, found, decoded, lanes, scheduling, ordering, output, result>>
  BY DEF AsyncFail
<1>3. CASE SetFailed(t)
  BY <1>1, <1>2, <1>3 DEF SetFailed, Goto, OnlyMoves, Keeps, slots, Inside
<1>4. CASE CloseNext(t)
  BY <1>1, <1>2, <1>4 DEF CloseNext, OnlyMoves, Keeps, slots, Inside
<1> QED BY <1>2, <1>3, <1>4 DEF AsyncFail

(* The transitions of each thread; "own" says whether it is inside of        *)
(* detection_async_fail.                                                     *)
LEMMA DecoderFlow ==
  ASSUME IInv, DecoderNext
  PROVE  /\ OnlyMoves("decoder")
         /\ UNCHANGED <<given, meta, lanes, scheduling, ordering, output, result>>
         /\ (failed => failed') /\ closed \subseteq closed'
         /\ \/ /\ failed' = failed /\ closed' = closed
               /\ \/ pc["decoder"] = "pop" /\ pc'["decoder"] \in {"read", "close"}
                  \/ pc["decoder"] = "read" /\ pc'["decoder"] \in {"pop", "close"}
               /\ resume' = resume
            \/ /\ failed' = failed /\ closed' = closed
               /\ pc["decoder"] = "read" /\ pc'["decoder"] = "fail" /\ resume'["decoder"] = "close"
            \/ /\ failed' = failed /\ closed' = closed \cup {"decoded"}
               /\ pc["decoder"] = "close" /\ pc'["decoder"] = "done" /\ resume' = resume
            \/ AsyncFail("decoder")
         /\ \E l, r : pc' = [pc EXCEPT !["decoder"] = l]
                      /\ (resume' = resume \/ resume' = [resume EXCEPT !["decoder"] = r])
<1>0. /\ pc \in [Threads -> Places] /\ resume \in [Threads -> Places]
      /\ hand \in [Threads -> Slots \cup {0}] /\ LabelsOK /\ DataOK
  BY DEF IInv, LabelsOK, DataOK
<1>1. CASE DecoderPop
  BY <1>0, <1>1 DEF DecoderPop, Pop, Goto, DecoderKeeps, shared, OnlyMoves, Keeps, Threads, Stages
<1>2. CASE DecoderRead
  BY <1>0, <1>2 DEF DecoderRead, Drop, Fail, Goto, DecoderKeeps, shared, OnlyMoves, Keeps, Threads, Stages
<1>3. CASE Close("decoder", "close", "decoded", "done")
  BY <1>0, <1>3 DEF Close, Goto, slots, OnlyMoves, Keeps, Threads, Stages
<1>4. CASE AsyncFail("decoder")
  BY <1>0, <1>4, FailMoves DEF Threads, Stages, Inside
<1> QED BY <1>1, <1>2, <1>3, <1>4 DEF DecoderNext

LEMMA SchedulerFlow ==
  ASSUME IInv, SchedulerNext
  PROVE  /\ OnlyMoves("scheduler") /\ hand' = hand
         /\ UNCHANGED <<given, meta, decoded, ordering, output, result>>
         /\ (failed => failed') /\ closed \subseteq closed'
         /\ \/ /\ failed' = failed /\ closed' = closed
               /\ pc["scheduler"] \in {"start", "collect", "fill", "drain"}
               /\ pc'["scheduler"] \in {"collect", "fill", "drain", "close"}
               /\ pc'["scheduler"] = "close" => pc["scheduler"] = "drain"
               /\ pc["scheduler"] = "drain" => pc'["scheduler"] \in {"drain", "close"}
               /\ resume' = resume
            \/ /\ failed' = failed /\ closed' = closed
               /\ pc["scheduler"] \in {"start", "collect", "fill"} /\ pc'["scheduler"] = "fail"
               /\ resume'["scheduler"] \in {"drain", "close"}
            \/ /\ failed' = failed /\ closed' = closed \cup {"completed"}
               /\ pc["scheduler"] = "close" /\ pc'["scheduler"] = "done" /\ resume' = resume
            \/ AsyncFail("scheduler")
         /\ \E l, r : pc' = [pc EXCEPT !["scheduler"] = l]
                      /\ (resume' = resume \/ resume' = [resume EXCEPT !["scheduler"] = r])
<1>0. /\ pc \in [Threads -> Places] /\ resume \in [Threads -> Places]
      /\ hand \in [Threads -> Slots \cup {0}] /\ LabelsOK /\ DataOK
  BY DEF IInv, LabelsOK, DataOK
<1>1. CASE SchedulerStart
  BY <1>0, <1>1 DEF SchedulerStart, Round, Fail, Goto, SchedulerKeeps, shared, OnlyMoves, Keeps, Threads, Stages
<1>2. CASE SchedulerCollect
  BY <1>0, <1>2 DEF SchedulerCollect, AfterLane, Collect, Fail, Goto, SchedulerKeeps, shared, control, OnlyMoves, Keeps, Threads, Stages
<1>3. CASE SchedulerFill
  BY <1>0, <1>3 DEF SchedulerFill, Submit, Round, Fail, Goto, SchedulerKeeps, shared, control, OnlyMoves, Keeps, Threads, Stages
<1>4. CASE SchedulerDrain
  BY <1>0, <1>4 DEF SchedulerDrain, Goto, SchedulerKeeps, shared, control, OnlyMoves, Keeps, Threads, Stages
<1>5. CASE Close("scheduler", "close", "completed", "done")
  BY <1>0, <1>5 DEF Close, Goto, slots, OnlyMoves, Keeps, Threads, Stages
<1>6. CASE AsyncFail("scheduler")
  BY <1>0, <1>6, FailMoves DEF Threads, Stages, Inside, slots
<1> QED BY <1>1, <1>2, <1>3, <1>4, <1>5, <1>6 DEF SchedulerNext

LEMMA EncoderFlow ==
  ASSUME IInv, EncoderNext
  PROVE  /\ OnlyMoves("encoder")
         /\ UNCHANGED <<given, decoded, lanes, scheduling, ordering, rows, measured, result>>
         /\ (failed => failed') /\ closed \subseteq closed'
         /\ \/ /\ failed' = failed /\ closed' = closed
               /\ \/ pc["encoder"] = "start" /\ pc'["encoder"] = "pop"
                  \/ pc["encoder"] = "pop" /\ pc'["encoder"] = "done"
                  \/ pc["encoder"] = "pop" /\ pc'["encoder"] = (IF failed THEN "recycle" ELSE "encode")
                  \/ pc["encoder"] = "encode" /\ pc'["encoder"] = (IF failed THEN "recycle" ELSE "measure")
                  \/ pc["encoder"] = "measure" /\ pc'["encoder"] = "recycle"
                  \/ pc["encoder"] = "recycle" /\ pc'["encoder"] = (IF failed THEN "done" ELSE "pop")
               /\ resume' = resume
            \/ /\ failed' = failed /\ closed' = closed
               /\ pc["encoder"] \in {"start", "pop", "encode", "measure"} /\ pc'["encoder"] = "fail"
               /\ resume'["encoder"] = IF pc["encoder"] = "start" THEN "pop" ELSE "recycle"
            \/ AsyncFail("encoder")
         /\ \E l, r : pc' = [pc EXCEPT !["encoder"] = l]
                      /\ (resume' = resume \/ resume' = [resume EXCEPT !["encoder"] = r])
<1>0. /\ pc \in [Threads -> Places] /\ resume \in [Threads -> Places]
      /\ hand \in [Threads -> Slots \cup {0}] /\ LabelsOK /\ DataOK
  BY DEF IInv, LabelsOK, DataOK
<1>1. CASE EncoderStart
  BY <1>0, <1>1 DEF EncoderStart, Fail, Goto, EncoderKeeps, shared, slots, OnlyMoves, Keeps, Threads, Stages
<1>2. CASE EncoderDraw
  BY <1>0, <1>2 DEF EncoderDraw, Pop, Fail, Goto, EncoderKeeps, shared, OnlyMoves, Keeps, Threads, Stages
<1>3. CASE EncoderEncode
  BY <1>0, <1>3 DEF EncoderEncode, Fail, Goto, EncoderKeeps, shared, slots, OnlyMoves, Keeps, Threads, Stages
<1>4. CASE EncoderMeasure
  BY <1>0, <1>4 DEF EncoderMeasure, Enqueue, Fail, Goto, EncoderKeeps, shared, slots, OnlyMoves, Keeps, Threads, Stages
<1>5. CASE EncoderRecycle
  BY <1>0, <1>5 DEF EncoderRecycle, Drop, Goto, EncoderKeeps, shared, OnlyMoves, Keeps, Threads, Stages
<1>6. CASE AsyncFail("encoder")
  BY <1>0, <1>6, FailMoves DEF Threads, Stages, Inside, output
<1> QED BY <1>1, <1>2, <1>3, <1>4, <1>5, <1>6 DEF EncoderNext

LEMMA MetadataFlow ==
  ASSUME IInv, MetadataNext
  PROVE  /\ OnlyMoves("metadata") /\ hand' = hand
         /\ UNCHANGED <<given, slots, found, decoded, lanes, scheduling, ordering, encoded, result>>
         /\ (failed => failed') /\ closed \subseteq closed'
         /\ \/ /\ failed' = failed /\ closed' = closed
               /\ pc["metadata"] = "pop" /\ pc'["metadata"] \in {"pop", "done"}
               /\ resume' = resume
            \/ /\ failed' = failed /\ closed' = closed
               /\ pc["metadata"] = "pop" /\ pc'["metadata"] = "fail"
               /\ resume'["metadata"] = "done"
            \/ AsyncFail("metadata")
         /\ \E l, r : pc' = [pc EXCEPT !["metadata"] = l]
                      /\ (resume' = resume \/ resume' = [resume EXCEPT !["metadata"] = r])
<1>0. /\ pc \in [Threads -> Places] /\ resume \in [Threads -> Places]
      /\ hand \in [Threads -> Slots \cup {0}] /\ LabelsOK /\ DataOK
  BY DEF IInv, LabelsOK, DataOK
<1>1. CASE MetadataWrite
  BY <1>0, <1>1 DEF MetadataWrite, Fail, Goto, MetadataKeeps, shared, slots, OnlyMoves, Keeps, Threads, Stages
<1>2. CASE MetadataEnd
  BY <1>0, <1>2 DEF MetadataEnd, Goto, MetadataKeeps, shared, slots, OnlyMoves, Keeps, Threads, Stages
<1>3. CASE AsyncFail("metadata")
  BY <1>0, <1>3, FailMoves DEF Threads, Stages, Inside, slots, output
<1> QED BY <1>1, <1>2, <1>3 DEF MetadataNext

(* The main thread starts the stages, and does nothing else to them. *)
Starts(t) == /\ pc["main"] = "create" /\ pc["main"] = pc'["main"]
             /\ pc[t] = "none" /\ pc'[t] = FirstPlace(t)
             /\ t = "encoder" => config.draw

LEMMA CreateMoves ==
  ASSUME IInv, Create
  PROVE  /\ \A t \in Stages : /\ pc'[t] = pc[t] \/ Starts(t)
                              /\ resume'[t] = resume[t]
         /\ UNCHANGED <<failed, closed, given, hand>>
         /\ pc["main"] = "create" /\ pc' \in [Threads -> Places] /\ resume' \in [Threads -> Places]
         /\ \/ /\ pc'["main"] = "create" /\ resume' = resume
            \/ /\ pc'["main"] = "pop" /\ resume' = resume
               /\ \A t \in Stages : /\ pc'[t] = pc[t]
                                    /\ pc[t] # "none" \/ (t = "encoder" /\ ~config.draw)
            \/ /\ pc'["main"] = "fail" /\ resume'["main"] = "cleanup"
               /\ \A t \in Stages : pc'[t] = pc[t]
<1> DEFINE left == {i \in DOMAIN CreateOrder : CreateOrder[i] \notin Started}
<1>0. /\ pc \in [Threads -> Places] /\ resume \in [Threads -> Places]
      /\ "main" \in Threads /\ "main" \notin Stages /\ Stages \subseteq Threads
      /\ {"fail", "pop", "cleanup", "start"} \subseteq Places
  BY DEF IInv, LabelsOK, Threads, Stages, Places
<1>1. pc["main"] = "create" /\ UNCHANGED <<failed, closed, given, hand>>
  BY DEF Create, MainKeeps, slots
<1>2. CASE \E i \in First(left) : /\ pc' = [pc EXCEPT ![CreateOrder[i]] = FirstPlace(CreateOrder[i])]
                                  /\ UNCHANGED <<resume, failuresLeft>>
  <2> PICK i \in First(left) : /\ pc' = [pc EXCEPT ![CreateOrder[i]] = FirstPlace(CreateOrder[i])]
                               /\ UNCHANGED <<resume, failuresLeft>>
    BY <1>2
  <2>1. i \in DOMAIN CreateOrder /\ CreateOrder[i] \notin Started
    BY DEF First
  <2>2. CreateOrder[i] \in Stages /\ (CreateOrder[i] = "encoder" => config.draw)
    BY <2>1 DEF CreateOrder, Stages
  <2>3. FirstPlace(CreateOrder[i]) \in {"pop", "start"}
    BY DEF FirstPlace
  <2> HIDE DEF left
  <2>4. PICK c \in Stages : c = CreateOrder[i]
    BY <2>2
  <2>5. /\ pc[c] = "none" /\ pc'[c] = FirstPlace(c) /\ (c = "encoder" => config.draw)
        /\ \A t \in Threads \ {c} : pc'[t] = pc[t]
        /\ pc' \in [Threads -> Places]
    BY <1>0, <2>1, <2>2, <2>3, <2>4 DEF Started
  <2>6. pc'["main"] = "create"
    BY <1>0, <1>1, <2>5
  <2> QED BY <1>0, <1>1, <2>5, <2>6 DEF Starts
<1>3. CASE MayFail("create") /\ Fail("main", "cleanup")
  BY <1>0, <1>1, <1>3 DEF Fail
<1>4. CASE left = {} /\ Goto("main", "pop")
  <2>1. \A t \in Stages : pc[t] # "none" \/ (t = "encoder" /\ ~config.draw)
    <3> SUFFICES ASSUME NEW t \in Stages, ~(t = "encoder" /\ ~config.draw)
                 PROVE  pc[t] # "none"
      OBVIOUS
    <3>1. \E i \in DOMAIN CreateOrder : CreateOrder[i] = t
      <4>1. CASE config.draw
        <5>1. CreateOrder = <<"metadata", "encoder", "decoder", "scheduler">>
          BY <4>1 DEF CreateOrder
        <5> QED BY <5>1 DEF Stages
      <4>2. CASE ~config.draw
        <5>1. CreateOrder = <<"metadata", "decoder", "scheduler">>
          BY <4>2 DEF CreateOrder
        <5> QED BY <4>2, <5>1 DEF Stages
      <4> QED BY <4>1, <4>2
    <3> QED BY <1>4, <3>1 DEF Started
  <2> QED BY <1>0, <1>1, <1>4, <2>1 DEF Goto
<1> QED BY <1>2, <1>3, <1>4 DEF Create

LEMMA MainFlow ==
  ASSUME IInv, MainNext, ~Create
  PROVE  /\ \A t \in Threads \ {"main"} : Keeps(t)
         /\ UNCHANGED <<given, decoded, lanes, scheduling, output>>
         /\ (failed => failed') /\ closed \subseteq closed'
         /\ result' = result \/ Judge \/ Cleanup
         /\ \/ /\ failed' = failed /\ closed' = closed /\ resume' = resume
               /\ \/ pc["main"] = "pop" /\ pc'["main"] \in {"pop", "emit", "judgePending"}
                  \/ pc["main"] = "emit" /\ pc'["main"] = (IF config.draw THEN "emitEncode" ELSE "emitTiming")
                  \/ pc["main"] = "emitTiming" /\ pc'["main"] = "emitRecycle" /\ config.benchmark
                  \/ pc["main"] \in {"emitEncode", "emitRecycle"} /\ pc'["main"] \in {"pop", "emit"}
                  \/ pc["main"] = "judgePending" /\ pc'["main"] = "closeEncode"
                  \/ pc["main"] = "join" /\ pc'["main"] = "closeRecords" /\ Join
                  \/ pc["main"] = "joinMetadata" /\ pc'["main"] = "cleanup" /\ Judge
                  \/ pc["main"] = "reap" /\ pc'["main"] = "done" /\ Reap
            \/ /\ failed' = failed /\ closed' = closed
               /\ pc["main"] \in Ordering \cup {"judgePending", "cleanup"} /\ pc'["main"] = "fail"
               /\ pc["main"] = "cleanup" <=> resume'["main"] = "reap"
               /\ resume'["main"] \in {"judgePending", "closeEncode", "reap"}
            \/ /\ failed' = failed /\ closed' = closed \cup {"encode"} /\ resume' = resume
               /\ pc["main"] = "closeEncode" /\ pc'["main"] = "join"
            \/ /\ failed' = failed /\ closed' = closed \cup {"records"} /\ resume' = resume
               /\ pc["main"] = "closeRecords" /\ pc'["main"] = "joinMetadata"
            \/ AsyncFail("main")
         /\ \E l, r : pc' = [pc EXCEPT !["main"] = l]
                      /\ (resume' = resume \/ resume' = [resume EXCEPT !["main"] = r])
<1>0. /\ pc \in [Threads -> Places] /\ resume \in [Threads -> Places]
      /\ hand \in [Threads -> Slots \cup {0}] /\ LabelsOK /\ DataOK /\ "main" \in Threads
  BY DEF IInv, LabelsOK, DataOK, Threads
<1> USE DEF Keeps, MainKeeps, Ordering, Emitting
<1>1. CASE Order
  BY <1>0, <1>1 DEF Order, Pop, Fail, Goto, control, slots
<1>2. CASE EmitDetections
  BY <1>0, <1>2 DEF EmitDetections, Enqueue, Drop, Fail, Goto
<1>3. CASE EmitEncode
  BY <1>0, <1>3 DEF EmitEncode, Emitted, Abandon, Drop, Fail, Goto
<1>4. CASE EmitTiming
  BY <1>0, <1>4 DEF EmitTiming, Enqueue, Record, Emitted, Abandon, Drop, Fail, Goto, slots
<1>5. CASE JudgePending
  BY <1>0, <1>5 DEF JudgePending, Fail, Goto, slots
<1>6. CASE Close("main", "closeEncode", "encode", "join")
  BY <1>0, <1>6 DEF Close, Goto, slots
<1>7. CASE Join
  BY <1>0, <1>7 DEF Join, Goto, slots
<1>8. CASE Close("main", "closeRecords", "records", "joinMetadata")
  BY <1>0, <1>8 DEF Close, Goto, slots
<1>9. CASE Judge
  BY <1>0, <1>9 DEF Judge, Goto, slots
<1>10. CASE Cleanup
  BY <1>0, <1>10 DEF Cleanup, Fail, Goto, slots
<1>11. CASE Reap
  BY <1>0, <1>11 DEF Reap, Goto
<1>12. CASE AsyncFail("main")
  <2>1. OnlyMoves("main")
    BY <1>0, <1>12, FailMoves
  <2>2. (failed => failed') /\ closed \subseteq closed'
    BY <1>0, <1>12, FailMoves DEF Inside
  <2> QED BY <1>0, <1>12, <2>1, <2>2, FailMoves DEF OnlyMoves
<1> QED BY <1>1, <1>2, <1>3, <1>4, <1>5, <1>6, <1>7, <1>8, <1>9, <1>10, <1>11, <1>12 DEF MainNext

LEMMA GpuFlow ==
  ASSUME GpuNext \/ UNCHANGED vars
  PROVE  UNCHANGED <<given, pc, resume, failed, closed, records, freeRecords, queue, hand, frame,
                     found, decoded, laneSlots, decodedClosed, pending, next, rows, measured,
                     encoded, result>>
BY DEF GpuNext, vars, control, shared, meta, slots, scheduling, ordering, output

(* What no step takes back. *)
LEMMA Onward ==
  ASSUME IInv, [Next]_vars
  PROVE  /\ config' = config /\ video' = video /\ Total' = Total
         /\ failed => failed'
         /\ closed \subseteq closed'
         /\ Failing => Failing'
<1>0. pc \in [Threads -> Places] /\ "main" \in Threads
  BY DEF IInv, LabelsOK, Threads
<1> SUFFICES /\ UNCHANGED given /\ (failed => failed') /\ closed \subseteq closed'
             /\ \A t \in Threads : pc[t] = "fail" => failed' \/ pc'[t] = "fail"
  BY DEF given, Total, Failing
<1> USE DEF OnlyMoves, Keeps
<1>1. ASSUME NEW t \in Threads, AsyncFail(t), pc[t] = "fail" PROVE failed'
  BY <1>1, FailMoves DEF IInv
<1>2. CASE DecoderNext
  BY <1>0, <1>1, <1>2, DecoderFlow DEF Threads, Stages
<1>3. CASE SchedulerNext
  BY <1>0, <1>1, <1>3, SchedulerFlow DEF Threads, Stages
<1>4. CASE EncoderNext
  BY <1>0, <1>1, <1>4, EncoderFlow DEF Threads, Stages
<1>5. CASE MetadataNext
  BY <1>0, <1>1, <1>5, MetadataFlow DEF Threads, Stages
<1>6. CASE MainNext /\ ~Create
  <2>1. pc["main"] = "fail" => failed' \/ pc'["main"] = "fail"
    BY <1>0, <1>1, <1>6, MainFlow DEF Ordering, Emitting
  <2>2. \A t \in Threads \ {"main"} : pc'[t] = pc[t]
    BY <1>6, MainFlow
  <2>3. UNCHANGED given /\ (failed => failed') /\ closed \subseteq closed'
    BY <1>6, MainFlow
  <2> QED BY <2>1, <2>2, <2>3
<1>7. CASE Create
  <2>1. \A t \in Stages : pc[t] = "fail" => pc'[t] = "fail"
    BY <1>7, CreateMoves DEF Starts
  <2> QED BY <1>7, <2>1, CreateMoves DEF Threads
<1>8. CASE GpuNext \/ UNCHANGED vars
  BY <1>8, GpuFlow
<1> QED BY <1>2, <1>3, <1>4, <1>5, <1>6, <1>7, <1>8, StepOf

-----------------------------------------------------------------------------
(* Labels, failures and hands.                                             *)

LEMMA LabelsStep ==
  ASSUME IInv, [Next]_vars
  PROVE  LabelsOK'
<1>0. LabelsOK /\ Failures /\ DataOK
  BY DEF IInv
<1> DEFINE Moved(t) == \E l, r : /\ pc' = [pc EXCEPT ![t] = l]
                                 /\ resume' = resume \/ resume' = [resume EXCEPT ![t] = r]
<1>1. ASSUME NEW t \in Threads, Moved(t), pc'[t] \in Places, resume'[t] \in Places
      PROVE  /\ pc' \in [Threads -> Places] /\ resume' \in [Threads -> Places]
             /\ \A u \in Threads \ {t} : pc'[u] = pc[u]
  BY <1>0, <1>1 DEF LabelsOK
<1> HIDE DEF Moved
<1>2. ASSUME NEW t \in Threads, AsyncFail(t)
      PROVE  /\ Moved(t) /\ resume'[t] \in Places
             /\ pc'[t] = "closing" \/ (pc'[t] = resume[t] /\ pc[t] \in Inside)
  BY <1>0, <1>2, FailMoves DEF LabelsOK, Inside, Places, Moved
<1>3. \A t \in Threads : pc[t] \in Places /\ resume[t] \in Places
  BY <1>0 DEF LabelsOK
<1>4. CASE DecoderNext
  <2>1. pc'["decoder"] \in DecoderLabels /\ resume'["decoder"] \in Places /\ Moved("decoder")
    BY <1>0, <1>2, <1>3, <1>4, DecoderFlow DEF DecoderLabels, Inside, Failures, Places, Moved, Threads, Stages
  <2>2. DecoderLabels \subseteq Places /\ "decoder" \in Threads
    BY DEF DecoderLabels, Inside, Places, Threads, Stages
  <2> QED BY <1>0, <1>1, <2>1, <2>2 DEF LabelsOK, Threads, Stages
<1>5. CASE SchedulerNext
  <2>1. pc'["scheduler"] \in SchedulerLabels /\ resume'["scheduler"] \in Places /\ Moved("scheduler")
    BY <1>0, <1>2, <1>3, <1>5, SchedulerFlow DEF SchedulerLabels, Inside, Failures, Places, Moved, Threads, Stages
  <2>2. SchedulerLabels \subseteq Places /\ "scheduler" \in Threads
    BY DEF SchedulerLabels, Inside, Places, Threads, Stages
  <2> QED BY <1>0, <1>1, <2>1, <2>2 DEF LabelsOK, Threads, Stages
<1>6. CASE EncoderNext
  <2>1. pc'["encoder"] \in EncoderLabels /\ resume'["encoder"] \in Places /\ Moved("encoder")
    BY <1>0, <1>2, <1>3, <1>6, EncoderFlow DEF EncoderLabels, Inside, Failures, Places, Moved, Threads, Stages
  <2>2. EncoderLabels \subseteq Places /\ "encoder" \in Threads
    BY DEF EncoderLabels, Inside, Places, Threads, Stages
  <2> QED BY <1>0, <1>1, <2>1, <2>2 DEF LabelsOK, Threads, Stages
<1>7. CASE MetadataNext
  <2>1. pc'["metadata"] \in MetadataLabels /\ resume'["metadata"] \in Places /\ Moved("metadata")
    BY <1>0, <1>2, <1>3, <1>7, MetadataFlow DEF MetadataLabels, Inside, Failures, Places, Moved, Threads, Stages
  <2>2. MetadataLabels \subseteq Places /\ "metadata" \in Threads
    BY DEF MetadataLabels, Inside, Places, Threads, Stages
  <2> QED BY <1>0, <1>1, <2>1, <2>2 DEF LabelsOK, Threads, Stages
<1>8. CASE MainNext /\ ~Create
  <2>1. pc'["main"] \in MainLabels /\ resume'["main"] \in Places /\ Moved("main")
    BY <1>0, <1>2, <1>3, <1>8, MainFlow
       DEF MainLabels, Ordering, Emitting, Leaving, Inside, Failures, Places, Moved, Threads, Stages
  <2>2. MainLabels \subseteq Places /\ "main" \in Threads
    BY DEF MainLabels, Ordering, Emitting, Leaving, Inside, Places, Threads, Stages
  <2> QED BY <1>0, <1>1, <2>1, <2>2 DEF LabelsOK, Threads, Stages
<1>9. CASE Create
  <2>1. \A t \in Stages : pc'[t] = pc[t] \/ (pc[t] = "none" /\ pc'[t] = FirstPlace(t))
    BY <1>9, CreateMoves DEF Starts
  <2>2. pc'["main"] \in {"create", "pop", "fail"}
    BY <1>9, CreateMoves
  <2>3. /\ pc'["decoder"] \in DecoderLabels /\ pc'["scheduler"] \in SchedulerLabels
        /\ pc'["encoder"] \in EncoderLabels /\ pc'["metadata"] \in MetadataLabels
    BY <1>0, <2>1 DEF LabelsOK, FirstPlace, DecoderLabels, SchedulerLabels, EncoderLabels,
       MetadataLabels, Stages
  <2> QED BY <1>9, <2>2, <2>3, CreateMoves DEF LabelsOK, MainLabels, Ordering, Inside
<1>10. CASE GpuNext \/ UNCHANGED vars
  BY <1>0, <1>10, GpuFlow DEF LabelsOK
<1> QED BY <1>4, <1>5, <1>6, <1>7, <1>8, <1>9, <1>10, StepOf

LEMMA FailuresStep ==
  ASSUME IInv, [Next]_vars
  PROVE  Failures'
<1>0. LabelsOK /\ Failures /\ DataOK /\ LabelsOK'
  BY LabelsStep DEF IInv
<1>1. failed => failed'
  BY Onward
<1> DEFINE New(t) == pc'[t] = "closing" => failed'
           NoneNew == closed' \cap {"free", "freeMetadata"} # {} => failed'
<1>2. ASSUME NEW t \in Threads, AsyncFail(t)
      PROVE  New(t) /\ NoneNew /\ (pc[t] = "closing" => failed')
             /\ (pc'[t] \in Inside => pc[t] \in Inside /\ resume'[t] = resume[t])
             /\ (pc'[t] \notin Inside => failed')
  <2>1. pc[t] \in Inside => resume[t] \notin Inside
    BY <1>0 DEF Failures, Inside, Threads, Stages
  <2>2. pc[t] = "closing" => failed
    BY <1>0 DEF Failures
  <2>3. CASE pc[t] = "fail"
    BY <1>0, <1>2, <2>3, FailMoves DEF Failures, Inside
  <2>4. CASE pc[t] = "closing"
    BY <1>0, <1>2, <2>1, <2>2, <2>4, FailMoves DEF Inside
  <2> QED BY <1>0, <1>2, <2>3, <2>4, FailMoves DEF Inside
<1> USE DEF OnlyMoves, Keeps
<1>3. CASE DecoderNext
  <2>1. New("decoder") /\ NoneNew
    BY <1>0, <1>1, <1>2, <1>3, DecoderFlow DEF Failures, Threads, Stages
  <2>2. pc'["decoder"] \in Inside => resume'["decoder"] = "close"
    BY <1>0, <1>1, <1>2, <1>3, DecoderFlow DEF Failures, Threads, Stages, Inside
  <2> QED BY <1>0, <1>1, <1>3, <2>1, <2>2, DecoderFlow DEF Failures, Threads, Stages, Inside
<1>4. CASE SchedulerNext
  <2>1. New("scheduler") /\ NoneNew
    BY <1>0, <1>1, <1>2, <1>4, SchedulerFlow DEF Failures, Threads, Stages
  <2>2. pc'["scheduler"] \in Inside => resume'["scheduler"] \in {"drain", "close"}
    BY <1>0, <1>1, <1>2, <1>4, SchedulerFlow DEF Failures, Threads, Stages, Inside
  <2> QED BY <1>0, <1>1, <1>4, <2>1, <2>2, SchedulerFlow DEF Failures, Threads, Stages, Inside
<1>5. CASE EncoderNext
  <2>1. New("encoder") /\ NoneNew
    BY <1>0, <1>1, <1>2, <1>5, EncoderFlow DEF Failures, Threads, Stages
  <2>2. pc'["encoder"] \in Inside => resume'["encoder"] \in {"pop", "recycle"}
    BY <1>0, <1>1, <1>2, <1>5, EncoderFlow DEF Failures, Threads, Stages, Inside
  <2> QED BY <1>0, <1>1, <1>5, <2>1, <2>2, EncoderFlow DEF Failures, Threads, Stages, Inside
<1>6. CASE MetadataNext
  <2>1. New("metadata") /\ NoneNew
    BY <1>0, <1>1, <1>2, <1>6, MetadataFlow DEF Failures, Threads, Stages
  <2>2. pc'["metadata"] \in Inside => resume'["metadata"] = "done"
    BY <1>0, <1>1, <1>2, <1>6, MetadataFlow DEF Failures, Threads, Stages, Inside
  <2> QED BY <1>0, <1>1, <1>6, <2>1, <2>2, MetadataFlow DEF Failures, Threads, Stages, Inside
<1>7. CASE MainNext /\ ~Create
  <2>1. New("main") /\ NoneNew
    BY <1>0, <1>1, <1>2, <1>7, MainFlow DEF Failures, Threads, Stages
  <2>2. pc'["main"] \in Inside => resume'["main"] \in {"judgePending", "closeEncode", "cleanup", "reap"}
    BY <1>0, <1>1, <1>2, <1>7, MainFlow DEF Failures, Threads, Stages, Inside
  <2>3. pc'["main"] \in {"reap", "done"} => failed'
    BY <1>0, <1>1, <1>2, <1>7, MainFlow DEF Failures, Threads, Stages, Inside
  <2> QED BY <1>0, <1>1, <1>7, <2>1, <2>2, <2>3, MainFlow DEF Failures, Threads, Stages, Inside
<1>8. CASE Create
  <2>1. \A t \in Stages : pc'[t] \in Inside => pc'[t] = pc[t] /\ resume'[t] = resume[t]
    BY <1>8, CreateMoves DEF Starts, Inside, FirstPlace
  <2>2. /\ pc'["main"] \in Inside => resume'["main"] = "cleanup"
        /\ pc'["main"] \notin {"closing", "reap", "done"} /\ UNCHANGED <<failed, closed>>
    BY <1>8, CreateMoves DEF Inside
  <2> QED BY <1>0, <2>1, <2>2 DEF Failures, Threads, Stages, Inside
<1>9. CASE GpuNext \/ UNCHANGED vars
  BY <1>0, <1>9, GpuFlow DEF Failures
<1> QED BY <1>3, <1>4, <1>5, <1>6, <1>7, <1>8, <1>9, StepOf

-----------------------------------------------------------------------------
(* Who holds a slot, and how it goes from one to another.                  *)

Where == \A x \in Slots :
    /\ \A q \in SlotQueues : <<q, 0>> \in Holders /\ (x \in Held(<<q, 0>>) <=> x \in Elements(queue[q]))
    /\ \A t \in Threads : <<t, 0>> \in Holders /\ (x \in Held(<<t, 0>>) <=> hand[t] = x)
    /\ \A l \in Lanes : <<"lane", l>> \in Holders /\ (x \in Held(<<"lane", l>>) <=> laneSlots[l] = x)
    /\ <<"pending", 0>> \in Holders /\ (x \in Held(<<"pending", 0>>) <=> x \in pending)
OneOf(h) == \/ \E q \in SlotQueues : h = <<q, 0>>
            \/ \E t \in Threads : h = <<t, 0>>
            \/ \E l \in Lanes : h = <<"lane", l>>
            \/ h = <<"pending", 0>>
LEMMA WhereIs == Where /\ Where' /\ \A h \in Holders : OneOf(h)
<1>1. /\ \A q \in SlotQueues : <<q, 0>> \in Holders
      /\ \A t \in Threads : <<t, 0>> \in Holders /\ t \notin SlotQueues /\ t # "pending" /\ t # "lane"
      /\ \A l \in Lanes : <<"lane", l>> \in Holders
      /\ <<"pending", 0>> \in Holders
      /\ "pending" \notin SlotQueues /\ "lane" \notin SlotQueues
  BY DEF Holders, SlotQueues, Threads, Stages
<1>2. \A x \in Slots : x # 0
  BY DEF Slots
<1>3. Where
  BY <1>1, <1>2 DEF Where, Held
<1>4. Where'
  BY <1>1, <1>2 DEF Where, Held
<1>5. \A h \in Holders : OneOf(h)
  BY DEF Holders, OneOf
<1> QED BY <1>3, <1>4, <1>5

(* Slot x is with h, and with nobody else. *)
OnlyAt(h, x) == /\ \A q \in SlotQueues : h # <<q, 0>> => x \notin Elements(queue[q])
                /\ \A t \in Threads : h # <<t, 0>> => hand[t] # x
                /\ \A l \in Lanes : h # <<"lane", l>> => laneSlots[l] # x
                /\ h # <<"pending", 0>> => x \notin pending
LEMMA OnlyThere ==
  ASSUME Owned, NEW x \in Slots, NEW h \in Holders, x \in Held(h)
  PROVE  OnlyAt(h, x)
<1>1. \A k \in Holders : x \in Held(k) => h = k
  BY DEF Owned
<1> QED BY <1>1, WhereIs DEF OnlyAt, Where

(* A step puts slot s with k and slot r with j and leaves the others. *)
Move(s, k, r, j) == \A h \in Holders : \A x \in Slots :
    x \in Held(h)' <=> (IF x = s THEN h = k ELSE IF x = r THEN h = j ELSE x \in Held(h))
QueuesMove(s, k, r, j) == \A q \in SlotQueues : \A x \in Slots :
    x \in Elements(queue'[q])
      <=> (IF x = s THEN k = <<q, 0>> ELSE IF x = r THEN j = <<q, 0>> ELSE x \in Elements(queue[q]))
HandsMove(s, k, r, j) == \A t \in Threads : \A x \in Slots :
    hand'[t] = x <=> (IF x = s THEN k = <<t, 0>> ELSE IF x = r THEN j = <<t, 0>> ELSE hand[t] = x)
LanesMove(s, k, r, j) == \A l \in Lanes : \A x \in Slots :
    laneSlots'[l] = x
      <=> (IF x = s THEN k = <<"lane", l>> ELSE IF x = r THEN j = <<"lane", l>> ELSE laneSlots[l] = x)
PendingMoves(s, k, r, j) == \A x \in Slots :
    x \in pending'
      <=> (IF x = s THEN k = <<"pending", 0>> ELSE IF x = r THEN j = <<"pending", 0>> ELSE x \in pending)

LEMMA MoveIs ==
  ASSUME NEW s, NEW k, NEW r, NEW j,
         QueuesMove(s, k, r, j), HandsMove(s, k, r, j), LanesMove(s, k, r, j), PendingMoves(s, k, r, j)
  PROVE  Move(s, k, r, j)
<1> SUFFICES ASSUME NEW h \in Holders, NEW x \in Slots
             PROVE  x \in Held(h)' <=> (IF x = s THEN h = k ELSE IF x = r THEN h = j ELSE x \in Held(h))
  BY DEF Move
<1>1. CASE \E q \in SlotQueues : h = <<q, 0>>
  <2> PICK q \in SlotQueues : h = <<q, 0>>
    BY <1>1
  <2>1. /\ x \in Held(<<q, 0>>) <=> x \in Elements(queue[q])
        /\ x \in Held(<<q, 0>>)' <=> x \in Elements(queue'[q])
    BY WhereIs DEF Where
  <2> QED BY <2>1 DEF QueuesMove
<1>2. CASE \E t \in Threads : h = <<t, 0>>
  <2> PICK t \in Threads : h = <<t, 0>>
    BY <1>2
  <2>1. /\ x \in Held(<<t, 0>>) <=> hand[t] = x
        /\ x \in Held(<<t, 0>>)' <=> hand'[t] = x
    BY WhereIs DEF Where
  <2> QED BY <2>1 DEF HandsMove
<1>3. CASE \E l \in Lanes : h = <<"lane", l>>
  <2> PICK l \in Lanes : h = <<"lane", l>>
    BY <1>3
  <2>1. /\ x \in Held(<<"lane", l>>) <=> laneSlots[l] = x
        /\ x \in Held(<<"lane", l>>)' <=> laneSlots'[l] = x
    BY WhereIs DEF Where
  <2> QED BY <2>1 DEF LanesMove
<1>4. CASE h = <<"pending", 0>>
  <2>1. /\ x \in Held(<<"pending", 0>>) <=> x \in pending
        /\ x \in Held(<<"pending", 0>>)' <=> x \in pending'
    BY WhereIs DEF Where
  <2> QED BY <1>4, <2>1 DEF PendingMoves
<1> QED BY <1>1, <1>2, <1>3, <1>4, WhereIs DEF OneOf

-----------------------------------------------------------------------------
(* The queues without a slot, and with it again.                           *)

Queues(Q) == Q \in [SlotQueues -> Seq(Slots)] /\ \A q \in SlotQueues : Distinct(Q[q])
Without(Q, s) == /\ Queues(Q)
                 /\ \A q \in SlotQueues : \A x \in Slots :
                       x \in Elements(Q[q]) <=> x # s /\ x \in Elements(queue[q])
NoQueue(k) == \A q \in SlotQueues : k # <<q, 0>>
Out == <<"out", 0>>

LEMMA PoppedIs ==
  ASSUME DataOK, Owned, NEW q \in SlotQueues, queue[q] # <<>>
  PROVE  /\ Head(queue[q]) \in Slots /\ Without(Popped(q), Head(queue[q]))
         /\ OnlyAt(<<q, 0>>, Head(queue[q]))
         /\ \A r \in SlotQueues \ {q} : Popped(q)[r] = queue[r]
         /\ Popped(q)[q] = Tail(queue[q])
<1>1. queue \in [SlotQueues -> Seq(Slots)] /\ \A r \in SlotQueues : Distinct(queue[r])
  BY DEF DataOK, Owned
<1>2. /\ Head(queue[q]) \in Slots /\ Head(queue[q]) \in Elements(queue[q])
      /\ Tail(queue[q]) \in Seq(Slots) /\ Distinct(Tail(queue[q]))
      /\ Elements(Tail(queue[q])) = Elements(queue[q]) \ {Head(queue[q])}
  <2>1. queue[q] \in Seq(Slots) /\ Distinct(queue[q])
    BY <1>1
  <2> QED BY <2>1, TailElements
<1>3. PICK s \in Slots : s = Head(queue[q])
  BY <1>2
<1>4. OnlyAt(<<q, 0>>, s)
  BY <1>2, <1>3, OnlyThere, WhereIs DEF Where
<1>5. /\ Popped(q) \in [SlotQueues -> Seq(Slots)]
      /\ Popped(q)[q] = Tail(queue[q])
      /\ \A r \in SlotQueues \ {q} : Popped(q)[r] = queue[r]
  BY <1>1, <1>2 DEF Popped
<1>6. ASSUME NEW r \in SlotQueues
      PROVE  /\ Distinct(Popped(q)[r])
             /\ \A x \in Slots : x \in Elements(Popped(q)[r]) <=> x # s /\ x \in Elements(queue[r])
  <2>1. CASE r = q
    BY <1>2, <1>3, <1>5, <2>1
  <2>2. CASE r # q
    <3>1. Popped(q)[r] = queue[r] /\ s \notin Elements(queue[r])
      BY <1>4, <1>5, <2>2 DEF OnlyAt
    <3> QED BY <1>1, <3>1
  <2> QED BY <2>1, <2>2
<1> QED BY <1>3, <1>4, <1>5, <1>6 DEF Without, Queues

LEMMA UntouchedIs ==
  ASSUME DataOK, Owned, NEW s, \A q \in SlotQueues : s \notin Elements(queue[q])
  PROVE  Without(queue, s)
BY DEF DataOK, Owned, Without, Queues

LEMMA AddedIs ==
  ASSUME NEW Q, NEW s \in Slots, Without(Q, s), NEW q \in SlotQueues,
         queue' = [Q EXCEPT ![q] = Append(@, s)]
  PROVE  Queues(queue') /\ QueuesMove(s, <<q, 0>>, s, <<q, 0>>)
<1>1. Q[q] \in Seq(Slots) /\ Distinct(Q[q]) /\ s \notin Elements(Q[q])
  BY DEF Without, Queues
<1>2. /\ Append(Q[q], s) \in Seq(Slots) /\ Distinct(Append(Q[q], s))
      /\ Elements(Append(Q[q], s)) = Elements(Q[q]) \cup {s}
  BY <1>1, AppendElements
<1>3. /\ queue' \in [SlotQueues -> Seq(Slots)] /\ queue'[q] = Append(Q[q], s)
      /\ \A r \in SlotQueues \ {q} : queue'[r] = Q[r]
  BY <1>2 DEF Without, Queues
<1>4. ASSUME NEW r \in SlotQueues
      PROVE  /\ Distinct(queue'[r])
             /\ \A x \in Slots : x \in Elements(queue'[r]) <=> (IF x = s THEN q = r ELSE x \in Elements(queue[r]))
  <2>1. \A x \in Slots : x \in Elements(Q[r]) <=> x # s /\ x \in Elements(queue[r])
    BY DEF Without
  <2>2. CASE r = q
    BY <1>2, <1>3, <2>1, <2>2
  <2>3. CASE r # q
    <3>1. queue'[r] = Q[r] /\ Distinct(Q[r])
      BY <1>3, <2>3 DEF Without, Queues
    <3> QED BY <2>1, <2>3, <3>1
  <2> QED BY <2>2, <2>3
<1>5. Queues(queue')
  BY <1>3, <1>4 DEF Queues
<1>6. QueuesMove(s, <<q, 0>>, s, <<q, 0>>)
  BY <1>4 DEF QueuesMove
<1> QED BY <1>5, <1>6

LEMMA TakenIs ==
  ASSUME NEW s, NEW k, Without(queue', s), NoQueue(k)
  PROVE  Queues(queue') /\ QueuesMove(s, k, s, k)
BY DEF Without, NoQueue, QueuesMove

(* release_and_recycle_slot. *)
LEMMA RecycledIs ==
  ASSUME DataOK, NEW Q, NEW s \in Slots, Without(Q, s), RecycleInto(Q, s)
  PROVE  /\ \E k \in {<<"free", 0>>, Out} : Queues(queue') /\ QueuesMove(s, k, s, k)
         /\ frame' \in [Slots -> Frames \cup {NoFrame}] /\ found' \in [Slots -> Frames \cup {NoFrame}]
         /\ frame'[s] = NoFrame
         /\ \A x \in Slots \ {s} : frame'[x] = frame[x] /\ found'[x] = found[x]
         /\ \A q \in SlotQueues \ {"free"} : queue'[q] = Q[q]
<1>1. CASE queue' = [Q EXCEPT !["free"] = Append(@, s)]
  <2>1. "free" \in SlotQueues
    BY DEF SlotQueues
  <2>2. Queues(queue') /\ QueuesMove(s, <<"free", 0>>, s, <<"free", 0>>)
    BY <1>1, <2>1, AddedIs
  <2>3. \A q \in SlotQueues \ {"free"} : queue'[q] = Q[q]
    BY <1>1 DEF Without, Queues
  <2> QED BY <2>2, <2>3 DEF RecycleInto, DataOK
<1>2. CASE queue' = Q
  <2>1. NoQueue(Out)
    BY DEF NoQueue, Out, SlotQueues
  <2>2. Queues(queue') /\ QueuesMove(s, Out, s, Out)
    BY <1>2, <2>1, TakenIs
  <2> QED BY <1>2, <2>2 DEF RecycleInto, DataOK
<1> QED BY <1>1, <1>2 DEF RecycleInto

(* The same for hands, lanes and the pending list. *)
NoHand(k) == \A t \in Threads : k # <<t, 0>>
NoLane(k) == \A l \in Lanes : k # <<"lane", l>>
NotPending(k) == k # <<"pending", 0>>

LEMMA Kinds ==
  /\ \A q \in SlotQueues : /\ NoHand(<<q, 0>>) /\ NoLane(<<q, 0>>) /\ NotPending(<<q, 0>>)
                           /\ <<q, 0>> \in Holders
  /\ \A t \in Threads : /\ NoQueue(<<t, 0>>) /\ NoLane(<<t, 0>>) /\ NotPending(<<t, 0>>)
                        /\ <<t, 0>> \in Holders
  /\ \A l \in Lanes : /\ NoQueue(<<"lane", l>>) /\ NoHand(<<"lane", l>>) /\ NotPending(<<"lane", l>>)
                      /\ <<"lane", l>> \in Holders
  /\ NoQueue(<<"pending", 0>>) /\ NoHand(<<"pending", 0>>) /\ NoLane(<<"pending", 0>>)
  /\ <<"pending", 0>> \in Holders
  /\ NoQueue(Out) /\ NoHand(Out) /\ NoLane(Out) /\ NotPending(Out) /\ Out \notin Holders
<1>1. \A l \in Lanes : l # 0
  BY DEF Lanes
<1> QED BY <1>1 DEF NoQueue, NoHand, NoLane, NotPending, Out, Holders, SlotQueues, Threads, Stages

HandStep(h, s, k) ==
    \/ hand' = hand /\ NoHand(h) /\ NoHand(k)
    \/ \E t \in Threads : /\ hand' = [hand EXCEPT ![t] = 0]
                          /\ h = <<t, 0>> /\ hand[t] = s /\ NoHand(k)
    \/ \E t \in Threads : /\ hand' = [hand EXCEPT ![t] = s]
                          /\ NoHand(h) /\ hand[t] = 0 /\ k = <<t, 0>>
LaneStep(h, s, k) ==
    \/ laneSlots' = laneSlots /\ NoLane(h) /\ NoLane(k)
    \/ \E l \in Lanes : /\ laneSlots' = [laneSlots EXCEPT ![l] = 0]
                        /\ h = <<"lane", l>> /\ laneSlots[l] = s /\ NoLane(k)
    \/ \E l \in Lanes : /\ laneSlots' = [laneSlots EXCEPT ![l] = s]
                        /\ NoLane(h) /\ laneSlots[l] = 0 /\ k = <<"lane", l>>
PendingStep(h, s, k) ==
    /\ NotPending(h)
    /\ \/ pending' = pending /\ NotPending(k)
       \/ pending' = pending \cup {s} /\ k = <<"pending", 0>>

LEMMA HandsIs ==
  ASSUME DataOK, NEW s \in Slots, NEW h, NEW k, OnlyAt(h, s), HandStep(h, s, k)
  PROVE  hand' \in [Threads -> Slots \cup {0}] /\ HandsMove(s, k, s, k)
<1>0. hand \in [Threads -> Slots \cup {0}] /\ \A x \in Slots : x # 0
  BY DEF DataOK, Slots
<1>1. CASE hand' = hand /\ NoHand(h) /\ NoHand(k)
  BY <1>0, <1>1 DEF HandsMove, NoHand, OnlyAt
<1>2. ASSUME NEW t \in Threads, hand' = [hand EXCEPT ![t] = 0], h = <<t, 0>>, hand[t] = s, NoHand(k)
      PROVE  hand' \in [Threads -> Slots \cup {0}] /\ HandsMove(s, k, s, k)
  BY <1>0, <1>2 DEF HandsMove, NoHand, OnlyAt
<1>3. ASSUME NEW t \in Threads, hand' = [hand EXCEPT ![t] = s], NoHand(h), hand[t] = 0, k = <<t, 0>>
      PROVE  hand' \in [Threads -> Slots \cup {0}] /\ HandsMove(s, k, s, k)
  BY <1>0, <1>3 DEF HandsMove, NoHand, OnlyAt
<1> QED BY <1>1, <1>2, <1>3 DEF HandStep

LEMMA LanesIs ==
  ASSUME DataOK, NEW s \in Slots, NEW h, NEW k, OnlyAt(h, s), LaneStep(h, s, k)
  PROVE  laneSlots' \in [Lanes -> Slots \cup {0}] /\ LanesMove(s, k, s, k)
<1>0. laneSlots \in [Lanes -> Slots \cup {0}] /\ \A x \in Slots : x # 0
  BY DEF DataOK, Slots
<1>1. CASE laneSlots' = laneSlots /\ NoLane(h) /\ NoLane(k)
  BY <1>0, <1>1 DEF LanesMove, NoLane, OnlyAt
<1>2. ASSUME NEW l \in Lanes, laneSlots' = [laneSlots EXCEPT ![l] = 0], h = <<"lane", l>>, NoLane(k), laneSlots[l] = s
      PROVE  laneSlots' \in [Lanes -> Slots \cup {0}] /\ LanesMove(s, k, s, k)
  BY <1>0, <1>2 DEF LanesMove, NoLane, OnlyAt
<1>3. ASSUME NEW l \in Lanes, laneSlots' = [laneSlots EXCEPT ![l] = s], NoLane(h), laneSlots[l] = 0, k = <<"lane", l>>
      PROVE  laneSlots' \in [Lanes -> Slots \cup {0}] /\ LanesMove(s, k, s, k)
  BY <1>0, <1>3 DEF LanesMove, NoLane, OnlyAt
<1> QED BY <1>1, <1>2, <1>3 DEF LaneStep

LEMMA PendingIs ==
  ASSUME DataOK, NEW s \in Slots, NEW h, NEW k, OnlyAt(h, s), PendingStep(h, s, k)
  PROVE  pending' \subseteq Slots /\ PendingMoves(s, k, s, k)
BY DEF DataOK, PendingStep, PendingMoves, NotPending, OnlyAt

-----------------------------------------------------------------------------
(* What a step does to the slot it moves.                                  *)

(* What a holder's slots are like, for every kind of holder. *)
Good(h, x) == /\ h \in Unread => frame[x] = NoFrame
              /\ h \in Output => frame[x] \in 0 .. next - 1
              /\ h \in Coming => frame[x] >= next
              /\ h = <<"pending", 0>> => frame[x] > next
              /\ h = <<"main", 0>> => frame[x] = next
              /\ h \in Collected => found[x] = frame[x]

LEMMA HeldIsGood ==
  ASSUME IInv, pc["main"] # "done", NEW h \in Holders, NEW x \in Slots, x \in Held(h)
  PROVE  Good(h, x)
<1>1. h = <<"main", 0>> => x = hand["main"] /\ hand["main"] # 0
  BY DEF Held, SlotQueues, Slots
<1>2. h = <<"pending", 0>> => x \in pending
  BY DEF Held, SlotQueues
<1> QED BY <1>1, <1>2 DEF IInv, Filled, Holding, Good

(* Slot s goes from h to k, with its frame or without; slot r, if it is another, from *)
(* the pending list to the main thread.                                               *)
Changes(s, k) ==
    /\ frame' \in [Slots -> Frames \cup {NoFrame}] /\ found' \in [Slots -> Frames \cup {NoFrame}]
    /\ \A x \in Slots \ {s} : frame'[x] = frame[x] /\ found'[x] = found[x]
    /\ k \in Holders => Good(k, s)'
    /\ \/ frame'[s] = frame[s] /\ decoded' = decoded
       \/ /\ frame'[s] = NoFrame /\ decoded' = decoded
          /\ Failing' \/ frame[s] = NoFrame \/ frame[s] < next'
       \/ /\ frame[s] = NoFrame /\ frame'[s] = decoded /\ decoded' = decoded + 1
          /\ decoded < Total /\ k \in Holders
    /\ k \notin Holders => frame'[s] = NoFrame \/ Failing'
Carries(h, s, k, r, j) ==
    /\ h \in Holders /\ s \in Slots /\ r \in Slots /\ s \in Held(h)
    /\ Queues(queue') /\ Move(s, k, r, j) /\ Changes(s, k)
    /\ hand' \in [Threads -> Slots \cup {0}] /\ laneSlots' \in [Lanes -> Slots \cup {0}]
    /\ pending' \subseteq Slots
    /\ \/ r = s /\ j = k
       \/ r # s /\ j = <<"main", 0>> /\ r \in pending /\ frame[r] = next + 1 /\ next' = next + 1
    /\ \/ next' = next
       \/ /\ next' = next + 1 /\ h = <<"main", 0>>
          /\ \A x \in pending : frame[x] = next + 1 => x = r
Still == UNCHANGED <<queue, hand, laneSlots, pending, frame, found, decoded, next>>

(* The single moves, from what became of each variable. *)
LEMMA OneMove ==
  ASSUME IInv, NEW s \in Slots, NEW h \in Holders, NEW k, s \in Held(h),
         Queues(queue'), QueuesMove(s, k, s, k), HandStep(h, s, k), LaneStep(h, s, k),
         PendingStep(h, s, k), Changes(s, k), next' = next
  PROVE  Carries(h, s, k, s, k)
<1>1. OnlyAt(h, s) /\ DataOK
  BY OnlyThere DEF IInv
<1>2. hand' \in [Threads -> Slots \cup {0}] /\ HandsMove(s, k, s, k)
  <2> HIDE DEF HandsMove
  <2> QED BY <1>1, HandsIs
<1>3. laneSlots' \in [Lanes -> Slots \cup {0}] /\ LanesMove(s, k, s, k)
  BY <1>1, LanesIs
<1>4. pending' \subseteq Slots /\ PendingMoves(s, k, s, k)
  BY <1>1, PendingIs
<1>5. Move(s, k, s, k)
  BY <1>2, <1>3, <1>4, MoveIs
<1> QED BY <1>2, <1>3, <1>4, <1>5 DEF Carries

LEMMA RecycleCarries ==
  ASSUME IInv, NEW s \in Slots, NEW h \in Holders, s \in Held(h),
         NEW Q, Without(Q, s), RecycleInto(Q, s), HandStep(h, s, Out), LaneStep(h, s, Out),
         NotPending(h), pending' = pending, next' = next, decoded' = decoded,
         Failing' \/ frame[s] = NoFrame \/ frame[s] < next'
  PROVE  \E k : k \in {<<"free", 0>>, Out} /\ Carries(h, s, k, s, k)
<1>1. DataOK
  BY DEF IInv
<1>2. PICK k \in {<<"free", 0>>, Out} : Queues(queue') /\ QueuesMove(s, k, s, k)
  BY <1>1, RecycledIs
<1>3. NoHand(k) /\ NoLane(k) /\ NotPending(k)
  BY <1>2, Kinds DEF SlotQueues
<1>4. Changes(s, k)
  <2>1. /\ frame' \in [Slots -> Frames \cup {NoFrame}] /\ found' \in [Slots -> Frames \cup {NoFrame}]
        /\ frame'[s] = NoFrame
        /\ \A x \in Slots \ {s} : frame'[x] = frame[x] /\ found'[x] = found[x]
    BY <1>1, RecycledIs
  <2>2. k \in Holders => k = <<"free", 0>>
    BY <1>2, Kinds
  <2>3. Good(<<"free", 0>>, s)'
    BY <2>1 DEF Good, Output, Coming, Collected, Unread
  <2>4. k \in Holders => Good(k, s)'
    BY <2>2, <2>3
  <2> HIDE DEF Good
  <2> QED BY <2>1, <2>4 DEF Changes
<1>5. HandStep(h, s, k)
  BY <1>3, Kinds DEF HandStep
<1>6. LaneStep(h, s, k)
  BY <1>3, Kinds DEF LaneStep, Out
<1>7. PendingStep(h, s, k)
  BY <1>3 DEF PendingStep
<1>8. Carries(h, s, k, s, k)
  BY <1>2, <1>4, <1>5, <1>6, <1>7, OneMove
<1> QED BY <1>2, <1>8

(* A pop: the slot goes from a queue into a hand. *)
LEMMA PopCarries ==
  ASSUME IInv, NEW t \in Threads, NEW q \in SlotQueues, Pop(t, q), hand[t] = 0,
         UNCHANGED <<laneSlots, pending, next, decoded, frame, found>>,
         pc["main"] # "done", Good(<<q, 0>>, Head(queue[q])) => Good(<<t, 0>>, Head(queue[q]))
  PROVE  /\ Carries(<<q, 0>>, Head(queue[q]), <<t, 0>>, Head(queue[q]), <<t, 0>>)
         /\ Head(queue[q]) \in Slots /\ hand'[t] = Head(queue[q])
<1>1. DataOK /\ Owned /\ queue[q] # <<>>
  BY DEF IInv, Pop
<1>2. /\ Head(queue[q]) \in Slots /\ Without(Popped(q), Head(queue[q]))
      /\ OnlyAt(<<q, 0>>, Head(queue[q]))
  BY <1>1, PoppedIs
<1> PICK s \in Slots : s = Head(queue[q])
  BY <1>2
<1>3. queue' = Popped(q) /\ hand' = [hand EXCEPT ![t] = s]
  BY DEF Pop
<1>4. Queues(queue') /\ QueuesMove(s, <<t, 0>>, s, <<t, 0>>)
  BY <1>2, <1>3, TakenIs, Kinds
<1>5. <<q, 0>> \in Holders /\ s \in Held(<<q, 0>>)
  <2>1. s \in Elements(queue[q])
    <3>1. queue[q] \in Seq(Slots) /\ Distinct(queue[q])
      BY <1>1 DEF DataOK, Owned
    <3> QED BY <1>1, <3>1, TailElements
  <2> QED BY <2>1, WhereIs DEF Where
<1>6. Good(<<t, 0>>, s)'
  <2>1. Good(<<t, 0>>, s)
    BY <1>5, HeldIsGood
  <2> QED BY <2>1 DEF Good
<1>7. HandStep(<<q, 0>>, s, <<t, 0>>) /\ LaneStep(<<q, 0>>, s, <<t, 0>>) /\ PendingStep(<<q, 0>>, s, <<t, 0>>)
  BY <1>3, Kinds DEF HandStep, LaneStep, PendingStep
<1>8. Changes(s, <<t, 0>>)
  BY <1>1, <1>6, Kinds DEF DataOK, Changes
<1>9. Carries(<<q, 0>>, s, <<t, 0>>, s, <<t, 0>>)
  BY <1>2, <1>4, <1>5, <1>7, <1>8, OneMove
<1> QED BY <1>1, <1>3, <1>9 DEF DataOK

(* A thread with a slot has it nowhere else. *)
LEMMA InHand ==
  ASSUME IInv, NEW t \in Threads, hand[t] # 0
  PROVE  /\ hand[t] \in Slots /\ hand[t] \in Held(<<t, 0>>) /\ <<t, 0>> \in Holders
         /\ OnlyAt(<<t, 0>>, hand[t]) /\ Without(queue, hand[t])
<1>1. DataOK /\ Owned /\ hand[t] \in Slots
  BY DEF IInv, DataOK
<1>2. hand[t] \in Held(<<t, 0>>) /\ <<t, 0>> \in Holders
  BY <1>1, WhereIs DEF Where
<1>3. OnlyAt(<<t, 0>>, hand[t])
  BY <1>1, <1>2, OnlyThere
<1>4. \A q \in SlotQueues : hand[t] \notin Elements(queue[q])
  BY <1>3, Kinds DEF OnlyAt, NoQueue
<1> QED BY <1>1, <1>2, <1>3, <1>4, UntouchedIs

DecoderMoves == Still \/ \E h, s, k : /\ Carries(h, s, k, s, k)
                                      /\ h \in {<<"free", 0>>, <<"decoder", 0>>}
                                      /\ k \in {<<"decoder", 0>>, <<"decoded", 0>>, <<"free", 0>>, Out}
LEMMA DecoderCarries ==
  ASSUME IInv, DecoderNext, pc["main"] # "done"
  PROVE  DecoderMoves
<1> USE DEF DecoderMoves
<1>0. /\ DataOK /\ Holding /\ "decoder" \in Threads /\ "free" \in SlotQueues /\ "decoded" \in SlotQueues
  BY DEF IInv, Threads, Stages, SlotQueues
<1>1. CASE DecoderPop
  <2>0. UNCHANGED <<laneSlots, pending, next, decoded, frame, found>>
    BY <1>1 DEF DecoderPop, DecoderKeeps, scheduling, ordering
  <2>1. CASE Pop("decoder", "free")
    <3>1. hand["decoder"] = 0
      BY <1>0, <1>1 DEF Holding, DecoderPop
    <3>2. Good(<<"free", 0>>, Head(queue["free"])) => Good(<<"decoder", 0>>, Head(queue["free"]))
      BY DEF Good, Unread, Output, Coming, Collected
    <3> QED BY <1>0, <2>0, <2>1, <3>1, <3>2, PopCarries
  <2>2. CASE ~Pop("decoder", "free")
    BY <1>1, <2>0, <2>2 DEF DecoderPop, Still
  <2> QED BY <2>1, <2>2
<1>2. CASE DecoderRead
  <2> PICK s : s = hand["decoder"]
    OBVIOUS
  <2>1. hand["decoder"] # 0 /\ pc["decoder"] = "read"
    BY <1>0, <1>2 DEF Holding, DecoderRead
  <2>2. /\ s \in Slots /\ s \in Held(<<"decoder", 0>>) /\ <<"decoder", 0>> \in Holders
        /\ OnlyAt(<<"decoder", 0>>, s) /\ Without(queue, s)
    BY <1>0, <2>1, InHand
  <2>3. frame[s] = NoFrame
    BY <2>2, HeldIsGood DEF Good, Unread
  <2>4. /\ hand' = [hand EXCEPT !["decoder"] = 0]
        /\ UNCHANGED <<laneSlots, pending, next>>
    BY <1>2 DEF DecoderRead, Drop, DecoderKeeps, scheduling, ordering
  <2>5. \A k : NoHand(k) /\ NoLane(k) /\ NotPending(k) =>
          /\ HandStep(<<"decoder", 0>>, s, k) /\ LaneStep(<<"decoder", 0>>, s, k)
          /\ PendingStep(<<"decoder", 0>>, s, k)
    BY <1>0, <2>4, Kinds DEF HandStep, LaneStep, PendingStep
  <2>6. CASE Recycle(s) /\ UNCHANGED decoded
    <3>1. \E k : k \in {<<"free", 0>>, Out} /\ Carries(<<"decoder", 0>>, s, k, s, k)
      BY <1>0, <2>2, <2>3, <2>4, <2>5, <2>6, Kinds, RecycleCarries DEF Recycle
    <3> QED BY <3>1
  <2>7. CASE queue' = (IF "free" \in closed THEN queue ELSE Added("free", s)) /\ UNCHANGED <<frame, found, decoded>>
    <3>0. \A k : (k = <<"free", 0>> \/ k = Out) => Changes(s, k)
      <4>1. Good(<<"free", 0>>, s)'
        BY <2>3, <2>7 DEF Good, Output, Coming, Collected, Unread
      <4> QED BY <1>0, <2>3, <2>7, <4>1, Kinds DEF DataOK, Changes
    <3>1. CASE "free" \in closed
      <4>1. Queues(queue') /\ QueuesMove(s, Out, s, Out)
        BY <2>2, <2>7, <3>1, TakenIs, Kinds
      <4>2. Carries(<<"decoder", 0>>, s, Out, s, Out)
        BY <2>2, <2>4, <2>5, <3>0, <4>1, Kinds, OneMove
      <4> QED BY <4>2
    <3>2. CASE "free" \notin closed
      <4>1. Queues(queue') /\ QueuesMove(s, <<"free", 0>>, s, <<"free", 0>>)
        BY <1>0, <2>2, <2>7, <3>2, AddedIs DEF Added
      <4>2. Carries(<<"decoder", 0>>, s, <<"free", 0>>, s, <<"free", 0>>)
        BY <1>0, <2>2, <2>4, <2>5, <3>0, <4>1, Kinds, OneMove
      <4> QED BY <4>2
    <3> QED BY <3>1, <3>2
  <2>8. CASE /\ decoded < video /\ frame' = [frame EXCEPT ![s] = decoded]
             /\ queue' = Added("decoded", s) /\ decoded' = decoded + 1 /\ UNCHANGED found
    <3>1. Queues(queue') /\ QueuesMove(s, <<"decoded", 0>>, s, <<"decoded", 0>>)
      BY <1>0, <2>2, <2>8, AddedIs DEF Added
    <3>2. decoded < Total /\ decoded \in Frames /\ next <= decoded
      BY <1>0, <2>1, <2>8, Basics DEF IInv, Ending, Frames
    <3>3. /\ frame' \in [Slots -> Frames \cup {NoFrame}] /\ frame'[s] = decoded
          /\ \A x \in Slots \ {s} : frame'[x] = frame[x]
      BY <1>0, <2>2, <2>8, <3>2 DEF DataOK
    <3>4. Good(<<"decoded", 0>>, s)'
      BY <2>4, <3>2, <3>3 DEF Good, Output, Coming, Collected, Unread
    <3>5. Changes(s, <<"decoded", 0>>)
      BY <1>0, <2>3, <2>8, <3>2, <3>3, <3>4, Kinds DEF DataOK, Changes
    <3>6. Carries(<<"decoder", 0>>, s, <<"decoded", 0>>, s, <<"decoded", 0>>)
      BY <1>0, <2>2, <2>4, <2>5, <3>1, <3>5, Kinds, OneMove
    <3> QED BY <3>6
  <2> QED BY <1>2, <2>6, <2>7, <2>8 DEF DecoderRead
<1>3. CASE Close("decoder", "close", "decoded", "done") \/ AsyncFail("decoder")
  BY <1>3 DEF Close, AsyncFail, Still, slots, scheduling, ordering
<1> QED BY <1>1, <1>2, <1>3 DEF DecoderNext

LEMMA InLane ==
  ASSUME IInv, NEW l \in Lanes, laneSlots[l] # 0
  PROVE  /\ laneSlots[l] \in Slots /\ laneSlots[l] \in Held(<<"lane", l>>) /\ <<"lane", l>> \in Holders
         /\ OnlyAt(<<"lane", l>>, laneSlots[l]) /\ Without(queue, laneSlots[l])
<1>1. DataOK /\ Owned /\ laneSlots[l] \in Slots
  BY DEF IInv, DataOK
<1>2. laneSlots[l] \in Held(<<"lane", l>>) /\ <<"lane", l>> \in Holders
  BY <1>1, WhereIs DEF Where
<1>3. OnlyAt(<<"lane", l>>, laneSlots[l])
  BY <1>1, <1>2, OnlyThere
<1>4. \A q \in SlotQueues : laneSlots[l] \notin Elements(queue[q])
  BY <1>3, Kinds DEF OnlyAt, NoQueue
<1> QED BY <1>1, <1>2, <1>3, <1>4, UntouchedIs

(* A thread that fails. *)
LEMMA FailsNow ==
  ASSUME LabelsOK, NEW t \in Threads, NEW to, Fail(t, to)
  PROVE  Failing'
BY DEF LabelsOK, Fail, Failing

LaneHolders == {<<"lane", l>> : l \in Lanes}
SchedulerMoves == Still \/ \E h, s, k : /\ Carries(h, s, k, s, k)
                                        /\ h \in {<<"decoded", 0>>} \cup LaneHolders
                                        /\ k \in {<<"completed", 0>>, <<"free", 0>>, Out} \cup LaneHolders

LEMMA CollectCarries ==
  ASSUME IInv, pc["main"] # "done", pc["scheduler"] = "collect", NEW l \in Lanes, laneSlots[l] # 0, Collect(l),
         UNCHANGED <<hand, pending, next, decoded>>
  PROVE  \E s, k : k \in {<<"completed", 0>>, <<"free", 0>>, Out} /\ Carries(<<"lane", l>>, s, k, s, k)
<1> PICK s : s = laneSlots[l]
  OBVIOUS
<1>0. DataOK /\ LabelsOK /\ Scheduling /\ "completed" \in SlotQueues /\ "scheduler" \in Threads
  BY DEF IInv, SlotQueues, Threads, Stages
<1>1. /\ s \in Slots /\ s \in Held(<<"lane", l>>) /\ <<"lane", l>> \in Holders
      /\ OnlyAt(<<"lane", l>>, s) /\ Without(queue, s) /\ Good(<<"lane", l>>, s)
  BY InLane, HeldIsGood
<1>2. laneSlots' = [laneSlots EXCEPT ![l] = 0]
  BY DEF Collect
<1>3. \A k : NoHand(k) /\ NoLane(k) /\ NotPending(k) =>
          /\ HandStep(<<"lane", l>>, s, k) /\ LaneStep(<<"lane", l>>, s, k)
          /\ PendingStep(<<"lane", l>>, s, k)
  BY <1>2, Kinds DEF HandStep, LaneStep, PendingStep
<1>4. CASE /\ found' = [found EXCEPT ![s] = lanes[l].frame] /\ queue' = Added("completed", s)
           /\ UNCHANGED frame
  <2>1. Queues(queue') /\ QueuesMove(s, <<"completed", 0>>, s, <<"completed", 0>>)
    BY <1>0, <1>1, <1>4, AddedIs DEF Added
  <2>2. lanes[l].frame = frame[s] /\ frame[s] \in Frames \cup {NoFrame}
    BY <1>0, <1>1 DEF Scheduling, DataOK
  <2>3. found' \in [Slots -> Frames \cup {NoFrame}] /\ found'[s] = frame[s]
        /\ \A x \in Slots \ {s} : found'[x] = found[x]
    BY <1>0, <1>1, <1>4, <2>2 DEF DataOK
  <2>4. Good(<<"completed", 0>>, s)'
    BY <1>1, <1>4, <2>3 DEF Good, Output, Coming, Collected, Unread
  <2>5. Changes(s, <<"completed", 0>>)
    BY <1>0, <1>4, <2>3, <2>4, Kinds DEF DataOK, Changes
  <2>6. Carries(<<"lane", l>>, s, <<"completed", 0>>, s, <<"completed", 0>>)
    BY <1>0, <1>1, <1>3, <2>1, <2>5, Kinds, OneMove
  <2> QED BY <2>6
<1>5. CASE Recycle(s) /\ Fail("scheduler", "drain")
  <2>1. Failing'
    BY <1>0, <1>5, FailsNow
  <2>2. \E k : k \in {<<"free", 0>>, Out} /\ Carries(<<"lane", l>>, s, k, s, k)
    BY <1>1, <1>3, <1>5, <2>1, Kinds, RecycleCarries DEF Recycle
  <2> QED BY <2>2
<1> QED BY <1>4, <1>5 DEF Collect

LEMMA SubmitCarries ==
  ASSUME IInv, pc["main"] # "done", NEW l \in Lanes, laneSlots[l] = 0, queue["decoded"] # <<>>,
         Submit(l, Head(queue["decoded"])), UNCHANGED <<hand, pending, next, decoded>>
  PROVE  \E s, k : /\ k \in {<<"lane", l>>, <<"free", 0>>, Out}
                   /\ Carries(<<"decoded", 0>>, s, k, s, k)
<1>0. DataOK /\ LabelsOK /\ Owned /\ "decoded" \in SlotQueues /\ "scheduler" \in Threads
  BY DEF IInv, SlotQueues, Threads, Stages
<1>1. /\ Head(queue["decoded"]) \in Slots /\ Without(Popped("decoded"), Head(queue["decoded"]))
      /\ OnlyAt(<<"decoded", 0>>, Head(queue["decoded"]))
  BY <1>0, PoppedIs
<1> PICK s \in Slots : s = Head(queue["decoded"])
  BY <1>1
<1>2. <<"decoded", 0>> \in Holders /\ s \in Held(<<"decoded", 0>>)
  <2>1. s \in Elements(queue["decoded"])
    <3>1. queue["decoded"] \in Seq(Slots) /\ Distinct(queue["decoded"])
      BY <1>0 DEF DataOK, Owned
    <3> QED BY <3>1, TailElements
  <2> QED BY <1>0, <2>1, WhereIs DEF Where
<1>3. Good(<<"decoded", 0>>, s)
  BY <1>2, HeldIsGood
<1>4. CASE /\ queue' = Popped("decoded") /\ laneSlots' = [laneSlots EXCEPT ![l] = s]
           /\ UNCHANGED <<frame, found>>
  <2>1. Queues(queue') /\ QueuesMove(s, <<"lane", l>>, s, <<"lane", l>>)
    BY <1>1, <1>4, TakenIs, Kinds
  <2>2. Good(<<"lane", l>>, s)'
    <3>1. <<"lane", l>> \notin Unread \cup Output \cup Collected
      BY DEF Unread, Output, Collected, Lanes
    <3>2. <<"lane", l>> # <<"pending", 0>> /\ <<"lane", l>> # <<"main", 0>>
      OBVIOUS
    <3> QED BY <1>3, <1>4, <3>1, <3>2 DEF Good, Coming
  <2>3. Changes(s, <<"lane", l>>)
    BY <1>0, <1>4, <2>2, Kinds DEF DataOK, Changes
  <2>4. /\ HandStep(<<"decoded", 0>>, s, <<"lane", l>>) /\ LaneStep(<<"decoded", 0>>, s, <<"lane", l>>)
        /\ PendingStep(<<"decoded", 0>>, s, <<"lane", l>>)
    BY <1>0, <1>4, Kinds DEF HandStep, LaneStep, PendingStep
  <2>5. Carries(<<"decoded", 0>>, s, <<"lane", l>>, s, <<"lane", l>>)
    BY <1>0, <1>2, <2>1, <2>3, <2>4, Kinds, OneMove
  <2> QED BY <2>5
<1>5. CASE RecycleInto(Popped("decoded"), s) /\ Fail("scheduler", "drain") /\ UNCHANGED laneSlots
  <2>1. Failing'
    BY <1>0, <1>5, FailsNow
  <2>2. /\ HandStep(<<"decoded", 0>>, s, Out) /\ LaneStep(<<"decoded", 0>>, s, Out)
    BY <1>0, <1>5, Kinds DEF HandStep, LaneStep
  <2>3. \E k : k \in {<<"free", 0>>, Out} /\ Carries(<<"decoded", 0>>, s, k, s, k)
    BY <1>0, <1>1, <1>2, <1>5, <2>1, <2>2, Kinds, RecycleCarries
  <2> QED BY <2>3
<1> QED BY <1>4, <1>5 DEF Submit

LEMMA SchedulerCarries ==
  ASSUME IInv, SchedulerNext, pc["main"] # "done"
  PROVE  SchedulerMoves
<1> USE DEF SchedulerMoves
<1>0. DataOK /\ LabelsOK /\ Ending /\ "scheduler" \in Threads
  BY DEF IInv, Threads, Stages
<1>1. CASE SchedulerCollect
  <2>0. UNCHANGED <<hand, pending, next, decoded>> /\ pc["scheduler"] = "collect"
    BY <1>1 DEF SchedulerCollect, SchedulerKeeps, ordering
  <2> PICK l \in First(Busy) :
       \/ UNCHANGED <<queue, frame, found, laneSlots>>
       \/ Collect(l)
    BY <1>1 DEF SchedulerCollect
  <2>1. l \in Lanes /\ laneSlots[l] # 0
    BY DEF First, Busy, Occupied
  <2>2. CASE Collect(l)
    BY <2>0, <2>1, <2>2, CollectCarries DEF LaneHolders
  <2>3. CASE UNCHANGED <<queue, frame, found, laneSlots>>
    BY <2>0, <2>3 DEF Still
  <2> QED BY <2>2, <2>3
<1>2. CASE SchedulerFill
  <2>0. UNCHANGED <<hand, pending, next, decoded>>
    BY <1>2 DEF SchedulerFill, SchedulerKeeps, ordering
  <2>1. CASE queue["decoded"] # <<>> /\ \E l \in First(Empty) : Submit(l, Head(queue["decoded"]))
    <3> PICK l \in First(Empty) : Submit(l, Head(queue["decoded"]))
      BY <2>1
    <3>1. l \in Lanes /\ laneSlots[l] = 0
      BY DEF First, Empty, Occupied
    <3>2. \E s, k : /\ k \in {<<"lane", l>>, <<"free", 0>>, Out}
                    /\ Carries(<<"decoded", 0>>, s, k, s, k)
      BY <2>0, <2>1, <3>1, SubmitCarries
    <3> QED BY <3>1, <3>2 DEF LaneHolders
  <2>2. CASE UNCHANGED <<queue, frame, found, laneSlots>>
    BY <2>0, <2>2 DEF Still
  <2> QED BY <1>2, <2>1, <2>2 DEF SchedulerFill
<1>3. CASE SchedulerDrain
  <2>0. UNCHANGED <<hand, pending, next, decoded>>
    BY <1>3 DEF SchedulerDrain, SchedulerKeeps, ordering
  <2>1. CASE \E l \in First(Occupied) : /\ Recycle(laneSlots[l])
                                        /\ laneSlots' = [laneSlots EXCEPT ![l] = 0]
    <3> PICK l \in First(Occupied) : /\ Recycle(laneSlots[l])
                                     /\ laneSlots' = [laneSlots EXCEPT ![l] = 0]
      BY <2>1
    <3>1. l \in Lanes /\ laneSlots[l] # 0 /\ l \in Occupied
      BY DEF First, Occupied
    <3>2. Failing'
      <4>1. failed
        BY <1>0, <1>3, <3>1 DEF Ending, SchedulerDrain
      <4> QED BY <1>3, <4>1 DEF Failing, SchedulerDrain, SchedulerKeeps, shared
    <3> PICK s : s = laneSlots[l]
      OBVIOUS
    <3>3. /\ s \in Slots /\ s \in Held(<<"lane", l>>) /\ <<"lane", l>> \in Holders /\ Without(queue, s)
      BY <3>1, InLane
    <3>4. HandStep(<<"lane", l>>, s, Out) /\ LaneStep(<<"lane", l>>, s, Out) /\ NotPending(<<"lane", l>>)
      BY <2>0, <3>1, Kinds DEF HandStep, LaneStep
    <3>5. \E k : k \in {<<"free", 0>>, Out} /\ Carries(<<"lane", l>>, s, k, s, k)
      BY <2>0, <3>2, <3>3, <3>4, RecycleCarries DEF Recycle
    <3> QED BY <3>1, <3>5 DEF LaneHolders
  <2>2. CASE UNCHANGED <<queue, frame, found, laneSlots>>
    BY <2>0, <2>2 DEF Still
  <2> QED BY <1>3, <2>1, <2>2 DEF SchedulerDrain
<1>4. CASE SchedulerStart
  BY <1>4 DEF SchedulerStart, SchedulerKeeps, ordering, Still
<1>5. CASE Close("scheduler", "close", "completed", "done") \/ AsyncFail("scheduler")
  BY <1>5 DEF Close, AsyncFail, Still, slots, scheduling, ordering
<1> QED BY <1>1, <1>2, <1>3, <1>4, <1>5 DEF SchedulerNext

EncoderMoves == Still \/ \E h, s, k : /\ Carries(h, s, k, s, k)
                                      /\ h \in {<<"encode", 0>>, <<"encoder", 0>>}
                                      /\ k \in {<<"encoder", 0>>, <<"free", 0>>, Out}
LEMMA EncoderCarries ==
  ASSUME IInv, EncoderNext, pc["main"] # "done"
  PROVE  EncoderMoves
<1> USE DEF EncoderMoves
<1>0. DataOK /\ LabelsOK /\ Holding /\ "encoder" \in Threads /\ "encode" \in SlotQueues
  BY DEF IInv, Threads, Stages, SlotQueues
<1>1. CASE EncoderDraw
  <2>0. UNCHANGED <<laneSlots, pending, next, decoded, frame, found>>
    BY <1>1 DEF EncoderDraw, EncoderKeeps, scheduling, ordering
  <2>1. CASE Pop("encoder", "encode")
    <3>1. hand["encoder"] = 0
      BY <1>0, <1>1 DEF Holding, EncoderDraw, Inside
    <3>2. Good(<<"encode", 0>>, Head(queue["encode"])) => Good(<<"encoder", 0>>, Head(queue["encode"]))
      BY DEF Good, Unread, Output, Coming, Collected
    <3> QED BY <1>0, <2>0, <2>1, <3>1, <3>2, PopCarries
  <2>2. CASE ~Pop("encoder", "encode")
    BY <1>1, <2>0, <2>2 DEF EncoderDraw, Still
  <2> QED BY <2>1, <2>2
<1>2. CASE EncoderRecycle
  <2> PICK s : s = hand["encoder"]
    OBVIOUS
  <2>1. hand["encoder"] # 0
    BY <1>0, <1>2 DEF Holding, EncoderRecycle
  <2>2. /\ s \in Slots /\ s \in Held(<<"encoder", 0>>) /\ <<"encoder", 0>> \in Holders
        /\ Without(queue, s)
    BY <1>0, <2>1, InHand
  <2>3. frame[s] \in 0 .. next - 1
    BY <2>2, HeldIsGood DEF Good, Output
  <2>4. /\ hand' = [hand EXCEPT !["encoder"] = 0]
        /\ UNCHANGED <<laneSlots, pending, next, decoded>>
    BY <1>2 DEF EncoderRecycle, Drop, EncoderKeeps, scheduling, ordering
  <2>5. /\ HandStep(<<"encoder", 0>>, s, Out) /\ LaneStep(<<"encoder", 0>>, s, Out)
        /\ NotPending(<<"encoder", 0>>)
    BY <1>0, <2>4, Kinds DEF HandStep, LaneStep
  <2>6. frame[s] < next'
    BY <1>0, <2>3, <2>4, Basics
  <2>7. \E k : k \in {<<"free", 0>>, Out} /\ Carries(<<"encoder", 0>>, s, k, s, k)
    BY <1>2, <2>2, <2>4, <2>5, <2>6, RecycleCarries DEF EncoderRecycle, Recycle
  <2> QED BY <2>7
<1>3. CASE EncoderStart \/ EncoderEncode \/ EncoderMeasure
  BY <1>3 DEF EncoderStart, EncoderEncode, EncoderMeasure, EncoderKeeps, slots, scheduling, ordering, Still
<1>4. CASE AsyncFail("encoder")
  BY <1>4 DEF AsyncFail, Still, slots, scheduling, ordering
<1> QED BY <1>1, <1>2, <1>3, <1>4 DEF EncoderNext

MainMoves == Still \/ \E h, s, k, r, j : /\ Carries(h, s, k, r, j)
                                         /\ h \in {<<"completed", 0>>, <<"main", 0>>}
                                         /\ k \in {<<"main", 0>>, <<"pending", 0>>, <<"encode", 0>>,
                                                   <<"free", 0>>, Out}

LEMMA OrderCarries ==
  ASSUME IInv, Order
  PROVE  MainMoves
<1> USE DEF MainMoves
<1>0. /\ DataOK /\ LabelsOK /\ Owned /\ Holding /\ "main" \in Threads /\ "completed" \in SlotQueues
      /\ pc["main"] = "pop"
  BY DEF IInv, Threads, Stages, SlotQueues, Order
<1>1. UNCHANGED <<laneSlots, next, decoded>>
  BY DEF Order, MainKeeps, scheduling
<1>2. CASE queue["completed"] # <<>>
  <2>1. /\ Head(queue["completed"]) \in Slots /\ Without(Popped("completed"), Head(queue["completed"]))
        /\ OnlyAt(<<"completed", 0>>, Head(queue["completed"]))
    BY <1>0, <1>2, PoppedIs
  <2> PICK s \in Slots : s = Head(queue["completed"])
    BY <2>1
  <2>2. <<"completed", 0>> \in Holders /\ s \in Held(<<"completed", 0>>)
    <3>1. s \in Elements(queue["completed"])
      <4>1. queue["completed"] \in Seq(Slots) /\ Distinct(queue["completed"])
        BY <1>0 DEF DataOK, Owned
      <4> QED BY <1>2, <4>1, TailElements
    <3> QED BY <1>0, <3>1, WhereIs DEF Where
  <2>3. Good(<<"completed", 0>>, s)
    BY <1>0, <2>2, HeldIsGood
  <2>4. CASE Turn(s) /\ Pop("main", "completed") /\ UNCHANGED <<frame, found, pending>>
    <3>1. hand["main"] = 0
      BY <1>0 DEF Holding, Emitting
    <3>2. Good(<<"completed", 0>>, s) => Good(<<"main", 0>>, s)
      BY <2>4 DEF Good, Unread, Output, Coming, Collected, Turn
    <3>3. Carries(<<"completed", 0>>, s, <<"main", 0>>, s, <<"main", 0>>)
      BY <1>0, <1>1, <2>4, <3>1, <3>2, PopCarries
    <3> QED BY <3>3
  <2>5. CASE /\ ~Turn(s) /\ queue' = Popped("completed") /\ pending' = pending \cup {s}
             /\ UNCHANGED <<hand, frame, found>>
    <3>1. Queues(queue') /\ QueuesMove(s, <<"pending", 0>>, s, <<"pending", 0>>)
      BY <2>1, <2>5, TakenIs, Kinds
    <3>2. frame[s] >= next /\ frame[s] # next /\ frame[s] \in Int /\ next \in Int
      <4>1. frame[s] >= next
        BY <2>3 DEF Good, Coming
      <4>2. next \in Int /\ NoFrame \in Int
        BY <1>0, Basics
      <4>3. frame[s] \in Frames \cup {NoFrame}
        BY <1>0 DEF DataOK
      <4>4. frame[s] \in Int
        BY <4>2, <4>3 DEF Frames
      <4> QED BY <2>5, <4>1, <4>2, <4>4 DEF Turn
    <3>3. Good(<<"pending", 0>>, s)'
      BY <1>1, <2>3, <2>5, <3>2 DEF Good, Output, Coming, Collected, Unread
    <3>4. Changes(s, <<"pending", 0>>)
      BY <1>0, <1>1, <2>5, <3>3, Kinds DEF DataOK, Changes
    <3>5. /\ HandStep(<<"completed", 0>>, s, <<"pending", 0>>)
          /\ LaneStep(<<"completed", 0>>, s, <<"pending", 0>>)
          /\ PendingStep(<<"completed", 0>>, s, <<"pending", 0>>)
      BY <1>0, <1>1, <2>5, Kinds DEF HandStep, LaneStep, PendingStep
    <3>6. Carries(<<"completed", 0>>, s, <<"pending", 0>>, s, <<"pending", 0>>)
      BY <1>1, <2>2, <3>1, <3>4, <3>5, OneMove
    <3> QED BY <3>6
  <2>6. CASE RecycleInto(Popped("completed"), s) /\ Fail("main", "judgePending") /\ UNCHANGED <<hand, pending>>
    <3>1. Failing'
      BY <1>0, <2>6, FailsNow
    <3>2. HandStep(<<"completed", 0>>, s, Out) /\ LaneStep(<<"completed", 0>>, s, Out)
      BY <1>0, <1>1, <2>6, Kinds DEF HandStep, LaneStep
    <3>3. \E k : k \in {<<"free", 0>>, Out} /\ Carries(<<"completed", 0>>, s, k, s, k)
      BY <1>0, <1>1, <2>1, <2>2, <2>6, <3>1, <3>2, Kinds, RecycleCarries
    <3> QED BY <3>3
  <2> QED BY <1>2, <2>4, <2>5, <2>6 DEF Order, NoMore
<1>3. CASE queue["completed"] = <<>>
  BY <1>1, <1>3 DEF Order, slots, Still
<1> QED BY <1>2, <1>3

(* The end of emit_ordered_slot: the slot of the main thread goes on, and the pending *)
(* one whose turn it is follows it.                                                   *)
LEMMA EmittedCarries ==
  ASSUME IInv, Emitted, hand["main"] # 0, pc["main"] # "done", NEW k, NoHand(k), NoLane(k), NotPending(k),
         Queues(queue'), QueuesMove(hand["main"], k, hand["main"], k), Changes(hand["main"], k),
         laneSlots' = laneSlots
  PROVE  \E r, j : Carries(<<"main", 0>>, hand["main"], k, r, j)
<1> DEFINE follows == {s \in pending : frame[s] = next + 1}
<1> PICK s : s = hand["main"]
  OBVIOUS
<1>0. /\ DataOK /\ Owned /\ Filled /\ "main" \in Threads /\ next \in Nat
      /\ hand \in [Threads -> Slots \cup {0}] /\ pending \subseteq Slots /\ \A x \in Slots : x # 0
  BY Basics DEF IInv, Threads, DataOK, Slots
<1>1. /\ s \in Slots /\ s \in Held(<<"main", 0>>) /\ <<"main", 0>> \in Holders
      /\ OnlyAt(<<"main", 0>>, s)
  BY <1>0, InHand
<1>2. next' = next + 1 /\ pending' = pending \ follows
  BY DEF Emitted
<1>3. laneSlots' \in [Lanes -> Slots \cup {0}] /\ LanesMove(s, k, s, k)
  <2>1. LaneStep(<<"main", 0>>, s, k)
    BY <1>0, Kinds DEF LaneStep
  <2> QED BY <1>0, <1>1, <2>1, LanesIs
<1>4. CASE follows = {} /\ Drop("main")
  <2>1. hand' \in [Threads -> Slots \cup {0}] /\ HandsMove(s, k, s, k)
    <3>1. HandStep(<<"main", 0>>, s, k)
      BY <1>0, <1>4 DEF HandStep, Drop
    <3> QED BY <1>0, <1>1, <3>1, HandsIs
  <2>2. pending' = pending
    BY <1>2, <1>4
  <2>3. pending' \subseteq Slots /\ PendingMoves(s, k, s, k)
    <3>1. PendingStep(<<"main", 0>>, s, k)
      BY <1>0, <2>2, Kinds DEF PendingStep
    <3> QED BY <1>0, <1>1, <3>1, PendingIs
  <2>4. Move(s, k, s, k)
    BY <1>3, <2>1, <2>3, MoveIs
  <2>5. \A x \in pending : frame[x] # next + 1
    BY <1>4
  <2>6. Carries(<<"main", 0>>, s, k, s, k)
    BY <1>1, <1>2, <1>3, <2>1, <2>3, <2>4, <2>5 DEF Carries
  <2> QED BY <2>6
<1>5. ASSUME NEW r \in follows, hand' = [hand EXCEPT !["main"] = r]
      PROVE  Carries(<<"main", 0>>, s, k, r, <<"main", 0>>)
  <2>1. r \in Slots /\ r \in pending /\ frame[r] = next + 1 /\ r # s
    BY <1>0, <1>1, Kinds DEF OnlyAt, NotPending
  <2>2. \A x \in pending : frame[x] = next + 1 => x = r
    <3>1. next + 1 # NoFrame
      BY <1>0 DEF NoFrame
    <3> QED BY <1>0, <2>1, <3>1 DEF Filled
  <2>3. follows = {r}
    BY <2>1, <2>2
  <2>4. OnlyAt(<<"pending", 0>>, r)
    <3>1. <<"pending", 0>> \in Holders /\ r \in Held(<<"pending", 0>>)
      BY <2>1, WhereIs DEF Where
    <3> QED BY <1>0, <2>1, <3>1, OnlyThere
  <2>5. QueuesMove(s, k, r, <<"main", 0>>)
    <3>1. \A q \in SlotQueues : r \notin Elements(queue[q]) /\ <<"main", 0>> # <<q, 0>>
      BY <1>0, <2>4, Kinds DEF OnlyAt, NoQueue
    <3> QED BY <3>1 DEF QueuesMove
  <2>6. LanesMove(s, k, r, <<"main", 0>>)
    <3>1. \A l \in Lanes : laneSlots[l] # r /\ <<"main", 0>> # <<"lane", l>>
      BY <1>0, <2>4, Kinds DEF OnlyAt, NoLane
    <3> QED BY <1>3, <3>1 DEF LanesMove
  <2>7. hand' \in [Threads -> Slots \cup {0}] /\ HandsMove(s, k, r, <<"main", 0>>)
    <3>1. \A t \in Threads : hand[t] # r /\ (t # "main" => hand[t] # s)
      BY <1>1, <2>4, Kinds DEF OnlyAt, NoHand
    <3>2. hand' \in [Threads -> Slots \cup {0}] /\ hand'["main"] = r
          /\ \A t \in Threads \ {"main"} : hand'[t] = hand[t]
      BY <1>0, <1>5, <2>1
    <3>3. \A t \in Threads : <<"main", 0>> = <<t, 0>> <=> t = "main"
      OBVIOUS
    <3> QED BY <2>1, <3>1, <3>2, <3>3 DEF HandsMove, NoHand
  <2>8. pending' \subseteq Slots /\ PendingMoves(s, k, r, <<"main", 0>>)
    <3>1. s \notin pending
      BY <1>1, Kinds DEF OnlyAt, NotPending
    <3>2. pending' = pending \ {r}
      BY <1>2, <2>3
    <3> HIDE DEF follows
    <3> QED BY <1>0, <2>1, <3>1, <3>2 DEF PendingMoves, NotPending
  <2>9. Move(s, k, r, <<"main", 0>>)
    BY <2>5, <2>6, <2>7, <2>8, MoveIs
  <2> HIDE DEF follows
  <2> QED BY <1>1, <1>2, <1>3, <2>1, <2>2, <2>7, <2>8, <2>9 DEF Carries
<1> QED BY <1>4, <1>5 DEF Emitted

LEMMA MainCarries ==
  ASSUME IInv, MainNext, ~Reap
  PROVE  MainMoves
<1> USE DEF MainMoves
<1>0. /\ DataOK /\ LabelsOK /\ Holding /\ "main" \in Threads /\ "encode" \in SlotQueues
  BY DEF IInv, Threads, Stages, SlotQueues
<1> PICK s : s = hand["main"]
  OBVIOUS
<1>1. ASSUME pc["main"] \in Emitting
      PROVE  /\ hand["main"] # 0 /\ s \in Slots /\ s \in Held(<<"main", 0>>) /\ <<"main", 0>> \in Holders
             /\ OnlyAt(<<"main", 0>>, s) /\ Without(queue, s)
             /\ Good(<<"main", 0>>, s) /\ frame[s] = next
  <2>1. hand["main"] # 0 /\ pc["main"] # "done"
    BY <1>0, <1>1 DEF Holding, Emitting
  <2>2. /\ s \in Slots /\ s \in Held(<<"main", 0>>) /\ <<"main", 0>> \in Holders
        /\ OnlyAt(<<"main", 0>>, s) /\ Without(queue, s)
    BY <1>0, <2>1, InHand
  <2>3. Good(<<"main", 0>>, s)
    BY <2>1, <2>2, HeldIsGood
  <2> QED BY <2>1, <2>2, <2>3 DEF Good
<1>2. ASSUME Drop("main"), laneSlots' = laneSlots
      PROVE  /\ HandStep(<<"main", 0>>, s, Out) /\ LaneStep(<<"main", 0>>, s, Out)
             /\ NotPending(<<"main", 0>>)
  BY <1>0, <1>2, Kinds DEF HandStep, LaneStep, Drop
<1>3. ASSUME pc["main"] \in Emitting, Abandon, laneSlots' = laneSlots, decoded' = decoded
      PROVE  MainMoves
  <2>1. Failing'
    BY <1>0, <1>3, FailsNow DEF Abandon
  <2>2. \E k : k \in {<<"free", 0>>, Out} /\ Carries(<<"main", 0>>, s, k, s, k)
    BY <1>1, <1>2, <1>3, <2>1, RecycleCarries DEF Abandon, Recycle, ordering
  <2> QED BY <2>2
<1>4. CASE Order
  BY <1>4, OrderCarries
<1>5. CASE EmitDetections
  <2>0. /\ UNCHANGED <<queue, frame, found, laneSlots, pending, next, decoded>>
        /\ pc["main"] = "emit"
    BY <1>5 DEF EmitDetections, MainKeeps, scheduling, ordering
  <2>1. CASE UNCHANGED hand
    BY <2>0, <2>1 DEF Still
  <2>2. CASE Fail("main", "judgePending") /\ Drop("main")
    <3>1. Failing'
      BY <1>0, <2>2, FailsNow
    <3>2. Changes(s, Out)
      BY <1>0, <2>0, <3>1, Kinds DEF Changes, DataOK
    <3>3. Queues(queue') /\ QueuesMove(s, Out, s, Out)
      BY <1>1, <2>0, TakenIs, Kinds DEF Emitting
    <3>4. PendingStep(<<"main", 0>>, s, Out)
      BY <1>0, <2>0, Kinds DEF PendingStep
    <3>5. Carries(<<"main", 0>>, s, Out, s, Out)
      BY <1>1, <1>2, <2>0, <2>2, <3>2, <3>3, <3>4, OneMove DEF Emitting
    <3> QED BY <3>5
  <2> QED BY <1>5, <2>1, <2>2 DEF EmitDetections, Enqueue
<1>6. CASE EmitEncode
  <2>0. UNCHANGED <<laneSlots, decoded>> /\ pc["main"] = "emitEncode"
    BY <1>6 DEF EmitEncode, MainKeeps, scheduling
  <2>1. CASE queue' = Added("encode", s) /\ Emitted /\ UNCHANGED <<frame, found>>
    <3>0. next' = next + 1 /\ next \in Nat
      BY <1>0, <2>1, Basics DEF Emitted
    <3>1. Queues(queue') /\ QueuesMove(s, <<"encode", 0>>, s, <<"encode", 0>>)
      BY <1>0, <1>1, <2>0, <2>1, AddedIs DEF Added, Emitting
    <3>2. Good(<<"encode", 0>>, s)'
      BY <1>1, <2>0, <2>1, <3>0 DEF Good, Output, Coming, Collected, Unread, Emitting
    <3>3. Changes(s, <<"encode", 0>>)
      BY <1>0, <2>0, <2>1, <3>2, Kinds DEF Changes, DataOK
    <3>4. \E r, j : Carries(<<"main", 0>>, s, <<"encode", 0>>, r, j)
      BY <1>0, <1>1, <2>0, <2>1, <3>1, <3>3, Kinds, EmittedCarries DEF Emitting
    <3> QED BY <3>4
  <2> QED BY <1>3, <1>6, <2>0, <2>1 DEF EmitEncode, Emitting
<1>7. CASE EmitTiming
  <2>0. UNCHANGED <<laneSlots, decoded>> /\ pc["main"] \in {"emitTiming", "emitRecycle"}
    BY <1>7 DEF EmitTiming, MainKeeps, scheduling
  <2>1. CASE UNCHANGED <<slots, found, ordering>>
    BY <2>0, <2>1 DEF Still, slots, ordering
  <2>2. CASE Abandon
    BY <1>3, <2>0, <2>2 DEF Emitting
  <2>3. CASE Recycle(s) /\ Emitted
    <3>0. next' = next + 1 /\ next \in Nat
      BY <1>0, <2>3, Basics DEF Emitted
    <3>1. PICK k \in {<<"free", 0>>, Out} : Queues(queue') /\ QueuesMove(s, k, s, k)
      BY <1>0, <1>1, <2>0, <2>3, RecycledIs DEF Recycle, Emitting
    <3>2. /\ frame' \in [Slots -> Frames \cup {NoFrame}] /\ found' \in [Slots -> Frames \cup {NoFrame}]
          /\ frame'[s] = NoFrame
          /\ \A x \in Slots \ {s} : frame'[x] = frame[x] /\ found'[x] = found[x]
      BY <1>0, <1>1, <2>0, <2>3, RecycledIs DEF Recycle, Emitting
    <3>3. NoHand(k) /\ NoLane(k) /\ NotPending(k) /\ (k \in Holders => k = <<"free", 0>>)
      BY <3>1, Kinds DEF SlotQueues
    <3>4. Good(<<"free", 0>>, s)'
      BY <3>2 DEF Good, Output, Coming, Collected, Unread
    <3>5. frame[s] < next'
      BY <1>1, <2>0, <3>0 DEF Emitting
    <3>6. Changes(s, k)
      <4> HIDE DEF Good
      <4> QED BY <2>0, <3>2, <3>3, <3>4, <3>5 DEF Changes
    <3>7. \E r, j : Carries(<<"main", 0>>, s, k, r, j)
      BY <1>0, <1>1, <2>0, <2>3, <3>1, <3>3, <3>6, EmittedCarries DEF Emitting
    <3> QED BY <3>7
  <2> QED BY <1>7, <2>1, <2>2, <2>3 DEF EmitTiming, Enqueue
<1>8. CASE Create \/ JudgePending \/ Join \/ Judge \/ Cleanup
  BY <1>8 DEF Create, JudgePending, Join, Judge, Cleanup, MainKeeps, slots, scheduling, ordering, Still
<1>9. CASE \/ Close("main", "closeEncode", "encode", "join")
           \/ Close("main", "closeRecords", "records", "joinMetadata") \/ AsyncFail("main")
  BY <1>9 DEF Close, AsyncFail, Still, slots, scheduling, ordering
<1> QED BY <1>4, <1>5, <1>6, <1>7, <1>8, <1>9 DEF MainNext

-----------------------------------------------------------------------------
(* Hands, owners and frames, after any step.                               *)

(* Nobody but the GPU goes on when the main thread has returned. *)
LEMMA Over ==
  ASSUME IInv, [Next]_vars, pc["main"] = "done"
  PROVE  GpuNext \/ UNCHANGED vars
<1>0. \A t \in Stages : pc[t] \in {"none", "done"}
  BY DEF IInv, Judged
<1>1. ~DecoderNext
  BY <1>0, DecoderFlow, FailMoves DEF IInv, Stages, Threads, Inside
<1>2. ~SchedulerNext
  BY <1>0, SchedulerFlow, FailMoves DEF IInv, Stages, Threads, Inside
<1>3. ~EncoderNext
  BY <1>0, EncoderFlow, FailMoves DEF IInv, Stages, Threads, Inside
<1>4. ~MetadataNext
  BY <1>0, MetadataFlow, FailMoves DEF IInv, Stages, Threads, Inside
<1>5. ~(MainNext /\ ~Create)
  BY MainFlow, FailMoves DEF IInv, Threads, Inside, Ordering, Emitting
<1>6. ~Create
  BY DEF Create
<1> QED BY <1>1, <1>2, <1>3, <1>4, <1>5, <1>6, StepOf

LEMMA SlotsStep ==
  ASSUME IInv, [Next]_vars
  PROVE  \/ Still
         \/ pc["main"] # "done" /\ \E h, s, k, r, j : Carries(h, s, k, r, j)
         \/ Reap
<1>1. CASE GpuNext \/ UNCHANGED vars
  BY <1>1, GpuFlow DEF Still
<1>2. CASE ~(GpuNext \/ UNCHANGED vars)
  <2>1. pc["main"] # "done"
    BY <1>2, Over
  <2>2. CASE DecoderNext
    BY <2>1, <2>2, DecoderCarries DEF DecoderMoves
  <2>3. CASE SchedulerNext
    BY <2>1, <2>3, SchedulerCarries DEF SchedulerMoves
  <2>4. CASE EncoderNext
    BY <2>1, <2>4, EncoderCarries DEF EncoderMoves
  <2>5. CASE MetadataNext
    BY <2>5, MetadataFlow DEF Still, slots, scheduling, ordering
  <2>6. CASE MainNext
    BY <2>1, <2>6, MainCarries DEF MainMoves
  <2> QED BY <1>2, <2>2, <2>3, <2>4, <2>5, <2>6, StepOf
<1> QED BY <1>1, <1>2

LEMMA HoldingStep ==
  ASSUME IInv, [Next]_vars
  PROVE  Holding'
<1>0. /\ LabelsOK /\ Holding /\ DataOK /\ Failures /\ hand \in [Threads -> Slots \cup {0}]
      /\ Owned /\ Threads = {"metadata", "encoder", "decoder", "scheduler", "main"}
  BY DEF IInv, DataOK, Threads, Stages
<1> USE DEF OnlyMoves, Keeps
<1>1. ASSUME NEW t \in Threads, NEW q \in SlotQueues, Pop(t, q)
      PROVE  hand'[t] # 0
  <2>1. Head(queue[q]) \in Slots
    BY <1>0, <1>1, PoppedIs DEF Pop
  <2> QED BY <1>0, <1>1, <2>1 DEF Pop, Slots
<1>2. ASSUME NEW t \in Threads, Drop(t)
      PROVE  hand'[t] = 0
  BY <1>0, <1>2 DEF Drop
<1>3. CASE DecoderNext
  <2>1. hand'["decoder"] # 0 <=> pc'["decoder"] = "read"
    <3>1. CASE DecoderPop
      BY <1>0, <1>1, <3>1 DEF DecoderPop, Goto, LabelsOK, Holding, SlotQueues
    <3>2. CASE DecoderRead
      BY <1>0, <1>2, <3>2 DEF DecoderRead, Goto, Fail, LabelsOK
    <3>3. CASE Close("decoder", "close", "decoded", "done")
      BY <1>0, <3>3 DEF Close, Goto, LabelsOK, Holding, slots
    <3>4. CASE AsyncFail("decoder")
      BY <1>0, <3>4, FailMoves DEF Holding, Failures, slots, Inside
    <3> QED BY <1>3, <3>1, <3>2, <3>3, <3>4 DEF DecoderNext
  <2> QED BY <1>0, <1>3, <2>1, DecoderFlow DEF Holding
<1>4. CASE SchedulerNext
  BY <1>0, <1>4, SchedulerFlow DEF Holding
<1>5. CASE EncoderNext
  <2>1. hand'["encoder"] # 0 <=> \/ pc'["encoder"] \in {"encode", "measure", "recycle"}
                                 \/ pc'["encoder"] \in Inside /\ resume'["encoder"] = "recycle"
    <3>1. CASE EncoderDraw
      BY <1>0, <1>1, <3>1 DEF EncoderDraw, Goto, Fail, LabelsOK, Holding, SlotQueues, Inside
    <3>2. CASE EncoderRecycle
      BY <1>0, <1>2, <3>2 DEF EncoderRecycle, Goto, LabelsOK, Inside
    <3>3. CASE EncoderStart \/ EncoderEncode \/ EncoderMeasure
      BY <1>0, <3>3 DEF EncoderStart, EncoderEncode, EncoderMeasure, Enqueue, Goto, Fail, LabelsOK, Holding, Inside, slots
    <3>4. CASE AsyncFail("encoder")
      <4>1. hand' = hand
        BY <3>4 DEF AsyncFail, slots
      <4> QED BY <1>0, <3>4, <4>1, FailMoves DEF Holding, Failures, Inside, LabelsOK
    <3> QED BY <1>5, <3>1, <3>2, <3>3, <3>4 DEF EncoderNext
  <2> QED BY <1>0, <1>5, <2>1, EncoderFlow DEF Holding
<1>6. CASE MetadataNext
  BY <1>0, <1>6, MetadataFlow DEF Holding
<1>7. CASE MainNext /\ ~Create
  <2>1. hand'["main"] # 0 <=> pc'["main"] \in Emitting
    <3>1. CASE Order
      BY <1>0, <1>1, <3>1 DEF Order, Goto, Fail, LabelsOK, Holding, SlotQueues, Emitting, control, slots
    <3>2. CASE EmitDetections
      BY <1>0, <1>2, <3>2 DEF EmitDetections, Enqueue, Goto, Fail, LabelsOK, Holding, Emitting
    <3>3. ASSUME Emitted PROVE hand'["main"] # 0 <=> pc'["main"] \in Emitting
      <4>1. \A x \in pending : x # 0
        BY <1>0 DEF DataOK, Slots
      <4> QED BY <1>0, <1>2, <3>3, <4>1 DEF Emitted, Goto, LabelsOK, Emitting
    <3>4. ASSUME Abandon PROVE hand'["main"] # 0 <=> pc'["main"] \in Emitting
      BY <1>0, <1>2, <3>4 DEF Abandon, Fail, LabelsOK, Emitting
    <3>5. CASE EmitEncode
      BY <3>3, <3>4, <3>5 DEF EmitEncode
    <3>6. CASE EmitTiming
      <4>1. CASE Goto("main", "emitRecycle") /\ UNCHANGED slots /\ pc["main"] = "emitTiming"
        BY <1>0, <4>1 DEF Goto, LabelsOK, Holding, Emitting, slots
      <4> QED BY <3>3, <3>4, <3>6, <4>1 DEF EmitTiming, Enqueue
    <3>7. CASE JudgePending \/ Join \/ Judge \/ Cleanup \/ Reap
      BY <1>0, <3>7 DEF JudgePending, Join, Judge, Cleanup, Reap, Goto, Fail, LabelsOK, Holding, Emitting, slots
    <3>8. CASE \/ Close("main", "closeEncode", "encode", "join")
               \/ Close("main", "closeRecords", "records", "joinMetadata")
      BY <1>0, <3>8 DEF Close, Goto, LabelsOK, Holding, Emitting, slots
    <3>9. CASE AsyncFail("main")
      <4>1. hand' = hand
        BY <3>9 DEF AsyncFail, slots
      <4> QED BY <1>0, <3>9, <4>1, FailMoves DEF Holding, Failures, Emitting, Inside, LabelsOK
    <3> QED BY <1>7, <3>1, <3>2, <3>5, <3>6, <3>7, <3>8, <3>9 DEF MainNext
  <2> QED BY <1>0, <1>7, <2>1, MainFlow DEF Holding
<1>8. CASE Create
  <2>1. \A t \in Stages : pc'[t] # pc[t] => /\ pc[t] = "none" /\ pc'[t] = FirstPlace(t)
    BY <1>8, CreateMoves DEF Starts
  <2>2. pc'["main"] \in {"create", "pop", "fail"} /\ hand' = hand /\ pc["main"] = "create"
        /\ \A t \in Stages : resume'[t] = resume[t]
    BY <1>8, CreateMoves
  <2> QED BY <1>0, <2>1, <2>2 DEF Holding, FirstPlace, Stages, Inside, Emitting
<1>9. CASE GpuNext \/ UNCHANGED vars
  BY <1>0, <1>9, GpuFlow DEF Holding
<1> QED BY <1>3, <1>4, <1>5, <1>6, <1>7, <1>8, <1>9, StepOf

(* What is held is a slot. *)
Typed == /\ queue \in [SlotQueues -> Seq(Slots)] /\ hand \in [Threads -> Slots \cup {0}]
         /\ laneSlots \in [Lanes -> Slots \cup {0}] /\ pending \subseteq Slots
AllSlots == \A h \in Holders : Held(h) \subseteq Slots
LEMMA HeldSlots == Typed => AllSlots
<1> SUFFICES ASSUME Typed, NEW h \in Holders, NEW x \in Held(h) PROVE x \in Slots
  BY DEF AllSlots
<1>1. CASE h[1] \in SlotQueues
  BY <1>1, ElementOfSeq DEF Typed, Held, Elements
<1>2. CASE h[1] = "pending" /\ h[1] \notin SlotQueues
  BY <1>2 DEF Typed, Held
<1>3. CASE h[1] = "lane" /\ h[1] \notin SlotQueues
  <2>1. h[2] \in Lanes
    BY <1>3 DEF Holders, SlotQueues, Threads, Stages
  <2> QED BY <1>3, <2>1 DEF Typed, Held
<1>4. CASE h[1] \notin SlotQueues \cup {"pending", "lane"}
  <2>1. h[1] \in Threads
    BY <1>4 DEF Holders
  <2> QED BY <1>4, <2>1 DEF Typed, Held
<1> QED BY <1>1, <1>2, <1>3, <1>4

LEMMA TypedStep ==
  ASSUME IInv, [Next]_vars
  PROVE  /\ Typed' /\ AllSlots'
         /\ frame' \in [Slots -> Frames \cup {NoFrame}] /\ found' \in [Slots -> Frames \cup {NoFrame}]
         /\ \A q \in SlotQueues : Distinct(queue'[q])
<1>0. DataOK /\ Owned
  BY DEF IInv
<1> DEFINE Goal == /\ Typed'
                   /\ frame' \in [Slots -> Frames \cup {NoFrame}]
                   /\ found' \in [Slots -> Frames \cup {NoFrame}]
                   /\ \A q \in SlotQueues : Distinct(queue'[q])
<1>1. ASSUME Typed, UNCHANGED queue, UNCHANGED hand, UNCHANGED laneSlots, pending' \subseteq pending
      PROVE  Typed'
  BY <1>1 DEF Typed
<1>9. /\ Typed /\ frame \in [Slots -> Frames \cup {NoFrame}] /\ found \in [Slots -> Frames \cup {NoFrame}]
      /\ \A q \in SlotQueues : Distinct(queue[q])
  BY <1>0 DEF DataOK, Typed, Owned
<1>2. ASSUME NEW h, NEW s, NEW k, NEW r, NEW j, Carries(h, s, k, r, j) PROVE Goal
  BY <1>2 DEF Carries, Changes, Queues, Typed
<1>3. ASSUME Reap PROVE Goal
  <2>1. /\ UNCHANGED queue /\ UNCHANGED hand /\ UNCHANGED laneSlots /\ pending' \subseteq pending
        /\ frame' = [x \in Slots |-> NoFrame] /\ found' = [x \in Slots |-> NoFrame]
    BY <1>3 DEF Reap, MainKeeps, scheduling
  <2>2. Typed'
    BY <1>1, <1>9, <2>1
  <2>3. \A q \in SlotQueues : Distinct(queue'[q])
    BY <1>9, <2>1
  <2> QED BY <2>1, <2>2, <2>3
<1>8. ASSUME Still PROVE Goal
  <2>1. /\ UNCHANGED queue /\ UNCHANGED hand /\ UNCHANGED laneSlots /\ pending' \subseteq pending
        /\ frame' = frame /\ found' = found
    BY <1>8 DEF Still
  <2>2. Typed'
    BY <1>1, <1>9, <2>1
  <2>3. \A q \in SlotQueues : Distinct(queue'[q])
    BY <1>9, <2>1
  <2> QED BY <1>9, <2>1, <2>2, <2>3
<1>4. Goal
  BY <1>2, <1>3, <1>8, SlotsStep
<1>5. AllSlots'
  BY <1>4, HeldSlots, PTL
<1> QED BY <1>4, <1>5

LEMMA OwnedStep ==
  ASSUME IInv, [Next]_vars
  PROVE  Owned'
<1>0. Owned /\ AllSlots' /\ \A q \in SlotQueues : Distinct(queue'[q])
  BY TypedStep DEF IInv
<1> SUFFICES ASSUME NEW a \in Holders, NEW b \in Holders, a # b,
                    NEW x \in Slots, x \in Held(a)', x \in Held(b)'
             PROVE  FALSE
  BY <1>0 DEF Owned, AllSlots
<1>1. ~(x \in Held(a) /\ x \in Held(b))
  BY <1>0 DEF Owned
<1>2. CASE Still \/ Reap
  <2>1. Held(a)' \subseteq Held(a) /\ Held(b)' \subseteq Held(b)
    BY <1>2 DEF Still, Reap, MainKeeps, scheduling, Held
  <2> QED BY <1>1, <2>1
<1>3. ASSUME NEW h, NEW s, NEW k, NEW r, NEW j, Carries(h, s, k, r, j) PROVE FALSE
  BY <1>1, <1>3 DEF Carries, Move
<1> QED BY <1>2, <1>3, SlotsStep

(* The main thread ends with the release of everything. *)
LEMMA Finishes ==
  ASSUME IInv, [Next]_vars, pc'["main"] = "done"
  PROVE  pc["main"] = "done" \/ Reap
<1>0. LabelsOK /\ DataOK /\ Failures
  BY DEF IInv
<1>1. CASE MainNext /\ ~Create
  <2>1. AsyncFail("main") => pc'["main"] # "done"
    BY <1>0, FailMoves DEF Failures, Inside, Threads
  <2> QED BY <1>1, <2>1, MainFlow DEF Ordering, Emitting
<1>2. CASE Create
  BY <1>2, CreateMoves
<1>3. CASE DecoderNext \/ SchedulerNext \/ EncoderNext \/ MetadataNext
  <2>1. pc'["main"] = pc["main"]
    BY <1>3, DecoderFlow, SchedulerFlow, EncoderFlow, MetadataFlow DEF OnlyMoves, Keeps, Threads, Stages
  <2> QED BY <2>1
<1>4. CASE GpuNext \/ UNCHANGED vars
  BY <1>4, GpuFlow
<1> QED BY <1>1, <1>2, <1>3, <1>4, StepOf

AllGood == \A h \in Holders : \A x \in Slots : x \in Held(h) => Good(h, x)
Fitting ==
    /\ \A h \in Unread : \A s \in Held(h) : frame[s] = NoFrame
    /\ \A h \in Output : \A s \in Held(h) : frame[s] \in 0 .. next - 1
    /\ \A h \in Coming : \A s \in Held(h) : frame[s] >= next
    /\ \A s \in pending : frame[s] > next
    /\ pc["main"] \in Emitting => frame[hand["main"]] = next
    /\ \A h \in Collected : \A s \in Held(h) : found[s] = frame[s]
LEMMA GoodFits == AllGood /\ AllSlots /\ Holding => Fitting
<1> SUFFICES ASSUME AllGood, AllSlots, Holding PROVE Fitting
  OBVIOUS
<1>1. Unread \cup Output \cup Coming \cup Collected \subseteq Holders
  BY DEF Unread, Output, Coming, Collected, Holders, SlotQueues, Threads, Stages
<1>2. \A h \in Holders : \A x \in Held(h) : Good(h, x)
  BY DEF AllGood, AllSlots
<1>3. \A s \in pending : frame[s] > next
  <2>1. Held(<<"pending", 0>>) = pending
    BY DEF Held, SlotQueues
  <2> QED BY <1>2, <2>1, Kinds DEF Good
<1>4. pc["main"] \in Emitting => frame[hand["main"]] = next
  <2>1. hand["main"] # 0 => hand["main"] \in Held(<<"main", 0>>)
    BY DEF Held, SlotQueues
  <2>2. <<"main", 0>> \in Holders
    BY Kinds DEF Threads
  <2> QED BY <1>2, <2>1, <2>2 DEF Good, Holding
<1> QED BY <1>1, <1>2, <1>3, <1>4 DEF Fitting, Good

LEMMA GoodStep ==
  ASSUME IInv, pc["main"] # "done", NEW h, NEW s, NEW k, NEW r, NEW j, Carries(h, s, k, r, j)
  PROVE  AllGood'
<1> SUFFICES ASSUME NEW a \in Holders, NEW x \in Slots, x \in Held(a)' PROVE Good(a, x)'
  BY DEF AllGood
<1>0. /\ DataOK /\ Filled /\ next \in Nat /\ frame \in [Slots -> Frames \cup {NoFrame}]
      /\ \A y \in Slots : frame[y] \in Int
      /\ s \in Slots /\ r \in Slots
  BY Basics DEF IInv, DataOK, Frames, NoFrame, Carries
<1>1. CASE x = s
  <2>1. a = k
    BY <1>1 DEF Carries, Move
  <2> QED BY <1>1, <2>1 DEF Carries, Changes
<1>2. CASE x # s /\ x = r
  <2>1. /\ a = j /\ j = <<"main", 0>> /\ r \in pending /\ frame[r] = next + 1 /\ next' = next + 1
        /\ frame'[r] = frame[r] /\ found'[r] = found[r]
    BY <1>0, <1>2 DEF Carries, Move, Changes
  <2>2. r \in Held(<<"pending", 0>>) /\ <<"pending", 0>> \in Holders
    BY <1>0, <2>1, WhereIs DEF Where
  <2>3. found[r] = frame[r]
    BY <1>0, <2>2, HeldIsGood DEF Good, Collected
  <2> QED BY <1>2, <2>1, <2>3 DEF Good, Unread, Output, Coming
<1>3. CASE x # s /\ x # r
  <2>1. x \in Held(a) /\ frame'[x] = frame[x] /\ found'[x] = found[x]
    BY <1>3 DEF Carries, Move, Changes
  <2>2. Good(a, x)
    BY <2>1, HeldIsGood
  <2>3. CASE next' = next
    BY <2>1, <2>2, <2>3 DEF Good
  <2>4. CASE /\ next' = next + 1 /\ h = <<"main", 0>>
             /\ \A y \in pending : frame[y] = next + 1 => y = r
    <3>1. s = hand["main"] /\ frame[s] = next
      <4>1. s \in Held(<<"main", 0>>) /\ <<"main", 0>> \in Holders
        BY <2>4 DEF Carries
      <4> QED BY <1>0, <4>1, HeldIsGood, WhereIs DEF Where, Threads, Good
    <3>2. frame[x] # next
      <4>1. next # NoFrame
        BY <1>0 DEF NoFrame
      <4> QED BY <1>0, <1>3, <3>1, <4>1 DEF Filled
    <3>3. a # <<"main", 0>>
      <4>1. a = <<"main", 0>> => hand["main"] = x
        BY <2>1, WhereIs DEF Where, Threads
      <4> QED BY <1>3, <3>1, <4>1
    <3>4. a = <<"pending", 0>> => frame[x] # next + 1
      <4>1. a = <<"pending", 0>> => x \in pending
        BY <2>1, WhereIs DEF Where
      <4> QED BY <1>3, <2>4, <4>1
    <3>5. frame[x] \in Int
      BY <1>0
    <3> QED BY <1>0, <2>1, <2>2, <2>4, <3>2, <3>3, <3>4, <3>5 DEF Good
  <2> QED BY <2>3, <2>4 DEF Carries
<1> QED BY <1>1, <1>2, <1>3

LEMMA FilledStep ==
  ASSUME IInv, [Next]_vars
  PROVE  Filled'
<1>0. /\ DataOK /\ Filled /\ AllSlots' /\ Holding' /\ next \in Nat /\ decoded \in Nat
      /\ frame \in [Slots -> Frames \cup {NoFrame}] /\ \A x \in Slots : frame[x] \in Int
      /\ NoFrame = -1
  <2>1. DataOK /\ Filled
    BY DEF IInv
  <2>2. frame \in [Slots -> Frames \cup {NoFrame}]
    BY <2>1 DEF DataOK
  <2>3. \A x \in Slots : frame[x] \in Int
    BY <2>2 DEF Frames, NoFrame
  <2> QED BY <2>1, <2>2, <2>3, TypedStep, HoldingStep, Basics
<1> DEFINE F1 == \A x \in Slots : frame[x] # NoFrame => frame[x] \in 0 .. decoded - 1
           F2 == \A x, y \in Slots : x # y /\ frame[x] # NoFrame => frame[x] # frame[y]
<1>1. F1 /\ F2
  BY <1>0 DEF Filled
<1>2. ASSUME pc["main"] # "done", NEW h, NEW s, NEW k, NEW r, NEW j, Carries(h, s, k, r, j)
      PROVE  Filled'
  <2>0. /\ s \in Slots /\ \A x \in Slots \ {s} : frame'[x] = frame[x]
        /\ \/ (frame'[s] = frame[s] \/ frame'[s] = NoFrame) /\ decoded' = decoded
           \/ frame'[s] = decoded /\ decoded' = decoded + 1
    BY <1>2 DEF Carries, Changes
  <2>1. F1'
    <3> SUFFICES ASSUME NEW x \in Slots, frame'[x] # NoFrame PROVE frame'[x] \in 0 .. decoded' - 1
      OBVIOUS
    <3>1. frame[x] # NoFrame => frame[x] \in 0 .. decoded - 1
      BY <1>1
    <3>2. CASE x = s
      BY <1>0, <2>0, <3>1, <3>2
    <3>3. CASE x # s
      BY <1>0, <2>0, <3>1, <3>3
    <3> QED BY <3>2, <3>3
  <2>2. F2'
    <3> SUFFICES ASSUME NEW x \in Slots, NEW y \in Slots, x # y, frame'[x] # NoFrame
                 PROVE  frame'[x] # frame'[y]
      OBVIOUS
    <3>1. /\ frame[x] # NoFrame => frame[x] \in 0 .. decoded - 1 /\ frame[x] # frame[y]
          /\ frame[y] # NoFrame => frame[y] \in 0 .. decoded - 1 /\ frame[x] # frame[y]
      BY <1>1
    <3>2. decoded # NoFrame /\ decoded \notin 0 .. decoded - 1
      BY <1>0
    <3>3. CASE x = s
      BY <2>0, <3>1, <3>2, <3>3
    <3>4. CASE y = s
      BY <2>0, <3>1, <3>2, <3>4
    <3>5. CASE x # s /\ y # s
      BY <2>0, <3>1, <3>5
    <3> QED BY <3>3, <3>4, <3>5
  <2>3. AllGood'
    BY <1>2, GoodStep
  <2>4. Fitting'
    BY <1>0, <2>3, GoodFits, PTL
  <2>5. pc'["main"] # "done" \/ Reap
    BY <1>2, Finishes
  <2>6. CASE pc'["main"] # "done"
    BY <2>1, <2>2, <2>4, <2>6 DEF Filled, Fitting
  <2>7. CASE Reap
    BY <2>1, <2>2, <1>0, <2>7 DEF Filled, Reap, Goto, IInv, LabelsOK, Threads
  <2> QED BY <2>5, <2>6, <2>7
<1>3. CASE Reap
  <2>1. \A x \in Slots : frame'[x] = NoFrame
    BY <1>3 DEF Reap
  <2>2. pc'["main"] = "done"
    BY <1>3 DEF Reap, Goto, IInv, LabelsOK, Threads
  <2> QED BY <2>1, <2>2 DEF Filled
<1>4. CASE Still
  <2>1. F1' /\ F2'
    BY <1>1, <1>4 DEF Still
  <2>2. CASE pc["main"] = "done"
    <3>1. pc' = pc
      BY <2>2, Over, GpuFlow
    <3> QED BY <1>0, <1>4, <2>1, <2>2, <3>1 DEF Still, Filled
  <2>3. CASE pc["main"] # "done"
    <3>1. AllGood
      BY <2>3, HeldIsGood DEF AllGood
    <3>2. AllGood'
      <4>1. \A h \in Holders : Held(h)' = Held(h)
        BY <1>4 DEF Still, Held
      <4>2. \A h, x : Good(h, x)' <=> Good(h, x)
        BY <1>4 DEF Still, Good
      <4> QED BY <3>1, <4>1, <4>2 DEF AllGood
    <3>3. Fitting'
      BY <1>0, <3>2, GoodFits, PTL
    <3>4. pc'["main"] # "done" \/ Reap
      BY <2>3, Finishes
    <3> QED BY <1>3, <2>1, <3>3, <3>4 DEF Filled, Fitting
  <2> QED BY <2>2, <2>3
<1> QED BY <1>2, <1>3, <1>4, SlotsStep

LEMMA CoveredStep ==
  ASSUME IInv, [Next]_vars
  PROVE  Covered'
<1> SUFFICES ASSUME ~Failing'
             PROVE  /\ \A x \in Slots : frame'[x] # NoFrame => \E h \in Holders : x \in Held(h)'
                    /\ \A f \in next' .. decoded' - 1 : \E x \in Slots : frame'[x] = f
  BY DEF Covered
<1>0. /\ ~Failing /\ Covered /\ DataOK /\ next \in Nat /\ decoded \in Nat /\ AllSlots
      /\ \A x \in Slots : frame[x] \in Int
  <2>1. DataOK /\ Covered
    BY DEF IInv
  <2>2. frame \in [Slots -> Frames \cup {NoFrame}] /\ Typed
    BY <2>1 DEF DataOK, Typed
  <2>3. \A x \in Slots : frame[x] \in Int
    BY <2>2 DEF Frames, NoFrame
  <2>4. ~Failing
    BY Onward
  <2> QED BY <2>1, <2>2, <2>3, <2>4, Basics, HeldSlots
<1>1. CASE Still
  <2>1. \A h \in Holders : Held(h)' = Held(h)
    BY <1>1 DEF Still, Held
  <2> QED BY <1>0, <1>1, <2>1 DEF Still, Covered
<1>2. ASSUME NEW h, NEW s, NEW k, NEW r, NEW j, Carries(h, s, k, r, j)
      PROVE  /\ \A x \in Slots : frame'[x] # NoFrame => \E a \in Holders : x \in Held(a)'
             /\ \A f \in next' .. decoded' - 1 : \E x \in Slots : frame'[x] = f
  <2>0. /\ s \in Slots /\ r \in Slots /\ \A x \in Slots \ {s} : frame'[x] = frame[x]
        /\ k \in Holders \/ frame'[s] = NoFrame
        /\ r = s \/ j = <<"main", 0>>
        /\ next' = next \/ next' = next + 1
        /\ \/ frame'[s] = frame[s] /\ decoded' = decoded
           \/ frame'[s] = NoFrame /\ decoded' = decoded /\ (frame[s] = NoFrame \/ frame[s] < next')
           \/ frame[s] = NoFrame /\ frame'[s] = decoded /\ decoded' = decoded + 1
    BY <1>2 DEF Carries, Changes
  <2>1. ASSUME NEW x \in Slots, frame'[x] # NoFrame PROVE \E a \in Holders : x \in Held(a)'
    <3>1. CASE x = s
      BY <1>2, <2>0, <2>1, <3>1 DEF Carries, Move
    <3>2. CASE x # s /\ x = r
      <4>1. <<"main", 0>> \in Holders
        BY Kinds DEF Threads
      <4> QED BY <1>2, <2>0, <3>2, <4>1 DEF Carries, Move
    <3>3. CASE x # s /\ x # r
      <4>1. PICK a \in Holders : x \in Held(a)
        BY <1>0, <2>0, <2>1, <3>3 DEF Covered
      <4> QED BY <1>2, <3>3, <4>1 DEF Carries, Move
    <3> QED BY <3>1, <3>2, <3>3
  <2>2. ASSUME NEW f \in next' .. decoded' - 1 PROVE \E x \in Slots : frame'[x] = f
    <3>1. CASE f \in next .. decoded - 1
      <4>1. PICK x \in Slots : frame[x] = f
        BY <1>0, <3>1 DEF Covered
      <4>2. CASE x # s
        BY <2>0, <4>1, <4>2
      <4>3. CASE x = s
        <5>1. f # NoFrame /\ ~(f < next') /\ f # decoded
          BY <1>0, <2>0, <3>1 DEF NoFrame
        <5>2. CASE frame'[s] = frame[s]
          BY <4>1, <4>3, <5>2
        <5> QED BY <2>0, <4>1, <4>3, <5>1, <5>2
      <4> QED BY <4>2, <4>3
    <3>2. CASE f \notin next .. decoded - 1
      <4>1. f = decoded /\ decoded' = decoded + 1 /\ frame'[s] = decoded
        BY <1>0, <2>0, <2>2, <3>2
      <4> QED BY <2>0, <4>1
    <3> QED BY <3>1, <3>2
  <2> QED BY <2>1, <2>2
<1>3. CASE Reap
  <2>1. failed' = failed /\ failed
    BY <1>3 DEF Reap, MainKeeps, IInv, Failures
  <2> QED BY <2>1 DEF Failing
<1> QED BY <1>1, <1>2, <1>3, SlotsStep
-----------------------------------------------------------------------------
(* The rest of the types.                                                  *)

(* The main thread has a slot with the frame whose turn it is, the encoder  *)
(* one whose turn is over.                                                  *)
LEMMA InMain ==
  ASSUME IInv, pc["main"] \in Emitting
  PROVE  /\ hand["main"] \in Slots /\ frame[hand["main"]] = next /\ found[hand["main"]] = next
         /\ next \in Frames /\ next < decoded
<1>1. pc["main"] # "done" /\ hand["main"] # 0
  BY DEF Emitting, IInv, Holding
<1>2. /\ hand["main"] \in Slots /\ hand["main"] \in Held(<<"main", 0>>) /\ <<"main", 0>> \in Holders
  BY <1>1, InHand DEF Threads
<1>3. frame[hand["main"]] = next /\ found[hand["main"]] = next
  BY <1>1, <1>2, HeldIsGood DEF Good, Collected
<1>4. next \in Nat /\ NoFrame = -1
  BY Basics DEF IInv
<1>5. frame[hand["main"]] \in Frames \cup {NoFrame}
  BY <1>2 DEF IInv, DataOK
<1>6. next < decoded
  BY <1>2, <1>3, <1>4, Basics DEF IInv, Filled
<1> QED BY <1>2, <1>3, <1>4, <1>5, <1>6

LEMMA InEncoder ==
  ASSUME IInv, pc["encoder"] \in {"encode", "measure", "recycle"}
  PROVE  /\ pc["main"] # "done" /\ hand["encoder"] \in Slots
         /\ frame[hand["encoder"]] \in Frames /\ frame[hand["encoder"]] < next
<1>1. pc["main"] # "done" /\ hand["encoder"] # 0
  BY DEF IInv, Judged, Holding, Stages
<1>2. /\ hand["encoder"] \in Slots /\ hand["encoder"] \in Held(<<"encoder", 0>>)
      /\ <<"encoder", 0>> \in Holders
  BY <1>1, InHand DEF Threads, Stages
<1>3. frame[hand["encoder"]] \in 0 .. next - 1
  BY <1>1, <1>2, HeldIsGood DEF Good, Output
<1>4. frame[hand["encoder"]] \in Frames \cup {NoFrame} /\ next \in Nat /\ NoFrame = -1
  BY <1>2, Basics DEF IInv, DataOK
<1> QED BY <1>1, <1>2, <1>3, <1>4

LEMMA CountersStep ==
  ASSUME IInv, [Next]_vars
  PROVE  /\ decoded' \in 0 .. Total /\ next' \in 0 .. decoded'
         /\ decoded \in Nat /\ next \in Nat /\ Total \in Nat
         /\ decoded' \in {decoded, decoded + 1} /\ next' \in {next, next + 1}
<1>0. /\ decoded \in Nat /\ next \in Nat /\ Total \in Nat /\ decoded <= Total /\ next <= decoded
  BY Basics DEF IInv
<1>1. CASE Still \/ Reap
  <2>1. next' = next /\ decoded' = decoded
    BY <1>1 DEF Still, Reap, MainKeeps
  <2> QED BY <1>0, <2>1
<1>2. ASSUME pc["main"] # "done", NEW h, NEW s, NEW k, NEW r, NEW j, Carries(h, s, k, r, j)
      PROVE  /\ decoded' = decoded \/ (decoded' = decoded + 1 /\ decoded < Total)
             /\ next' = next \/ (next' = next + 1 /\ next < decoded)
  <2>1. decoded' = decoded \/ (decoded' = decoded + 1 /\ decoded < Total)
    BY <1>2 DEF Carries, Changes
  <2>2. next' # next => next' = next + 1 /\ h = <<"main", 0>> /\ s \in Slots /\ s \in Held(h)
    BY <1>2 DEF Carries
  <2>3. next' # next => hand["main"] # 0
    BY <2>2, WhereIs DEF Where, Threads, Slots
  <2>4. next' # next => next < decoded
    BY <2>3, InMain DEF IInv, Holding
  <2> QED BY <2>1, <2>2, <2>4
<1>3. CASE pc["main"] # "done" /\ \E h, s, k, r, j : Carries(h, s, k, r, j)
  BY <1>0, <1>2, <1>3
<1> QED BY <1>1, <1>3, SlotsStep

LEMMA FlagsStep ==
  ASSUME IInv, [Next]_vars
  PROVE  failed' \in BOOLEAN /\ decodedClosed' \in BOOLEAN /\ result' \in {"none", "ok", "error"}
<1>0. failed \in BOOLEAN /\ decodedClosed \in BOOLEAN /\ result \in {"none", "ok", "error"}
  BY DEF IInv, DataOK
<1>1. ASSUME NEW t \in Threads, AsyncFail(t)
      PROVE  failed' \in BOOLEAN /\ UNCHANGED <<scheduling, result>>
  BY <1>0, <1>1 DEF AsyncFail, SetFailed, CloseNext
<1> USE DEF shared, scheduling, Close
<1>2. CASE DecoderNext
  BY <1>0, <1>1, <1>2 DEF DecoderNext, DecoderPop, DecoderRead, DecoderKeeps, Threads, Stages
<1>3. CASE SchedulerNext
  BY <1>0, <1>1, <1>3 DEF SchedulerNext, SchedulerStart, SchedulerCollect, SchedulerFill, SchedulerDrain,
     SchedulerKeeps, Threads, Stages
<1>4. CASE EncoderNext
  BY <1>0, <1>1, <1>4 DEF EncoderNext, EncoderStart, EncoderDraw, EncoderEncode, EncoderMeasure,
     EncoderRecycle, EncoderKeeps, Threads, Stages
<1>5. CASE MetadataNext
  BY <1>0, <1>1, <1>5 DEF MetadataNext, MetadataWrite, MetadataEnd, MetadataKeeps, Threads, Stages
<1>6. CASE MainNext
  BY <1>0, <1>1, <1>6 DEF MainNext, Create, Order, EmitDetections, EmitEncode, EmitTiming, JudgePending,
     Join, Judge, Cleanup, Reap, MainKeeps, Threads
<1>7. CASE GpuNext \/ UNCHANGED vars
  BY <1>0, <1>7, GpuFlow
<1> QED BY <1>2, <1>3, <1>4, <1>5, <1>6, <1>7, StepOf

(* A lane is used by the scheduler and the GPU alone. *)
LEMMA LanesStep ==
  ASSUME IInv, [Next]_vars
  PROVE  lanes' \in [Lanes -> LaneStates(Frames)]
<1>0. /\ lanes \in [Lanes -> LaneStates(Frames)] /\ \A s \in Slots : frame[s] \in Frames \cup {NoFrame}
      /\ DataOK /\ Owned
  BY DEF IInv, DataOK
<1>1. ASSUME NEW l \in Lanes, FinishLane(l) PROVE lanes' \in [Lanes -> LaneStates(Frames)]
  BY <1>0, <1>1 DEF FinishLane, IdleLane, LaneStates
<1>2. ASSUME NEW l \in Lanes, NEW f \in Frames \cup {NoFrame}, SubmitLane(l, f) \/ SubmitFails(l, f)
      PROVE  lanes' \in [Lanes -> LaneStates(Frames)]
  <2>1. \A a \in BOOLEAN : [active |-> a, gpu |-> "running", frame |-> f] \in LaneStates(Frames)
    BY DEF LaneStates
  <2>2. CASE SubmitLane(l, f)
    BY <1>0, <2>1, <2>2 DEF SubmitLane
  <2>3. CASE SubmitFails(l, f)
    BY <1>0, <2>1, <2>3 DEF SubmitFails
  <2> QED BY <1>2, <2>2, <2>3
<1>3. CASE SchedulerCollect
  <2>1. PICK l \in First(Busy) : UNCHANGED lanes \/ Collect(l) \/ FinishLane(l)
    BY <1>3 DEF SchedulerCollect
  <2>2. l \in Lanes
    BY DEF First, Busy, Occupied
  <2> QED BY <1>0, <1>1, <2>1, <2>2 DEF Collect
<1>4. CASE SchedulerFill
  <2>1. CASE UNCHANGED lanes
    BY <1>0, <2>1
  <2>2. CASE queue["decoded"] # <<>> /\ \E l \in First(Empty) : Submit(l, Head(queue["decoded"]))
    <3>1. PICK l \in First(Empty) : Submit(l, Head(queue["decoded"]))
      BY <2>2
    <3>2. l \in Lanes /\ Head(queue["decoded"]) \in Slots
      BY <1>0, <2>2, PoppedIs DEF First, Empty, SlotQueues
    <3> QED BY <1>0, <1>2, <3>1, <3>2 DEF Submit
  <2> QED BY <1>4, <2>1, <2>2 DEF SchedulerFill
<1>5. CASE SchedulerStart \/ SchedulerDrain \/ Close("scheduler", "close", "completed", "done")
           \/ AsyncFail("scheduler")
  BY <1>0, <1>5 DEF SchedulerStart, SchedulerDrain, Close, AsyncFail
<1>6. CASE GpuNext
  <2>1. PICK l \in Lanes : lanes' = [lanes EXCEPT ![l].gpu = "done"]
    BY <1>6 DEF GpuNext, LaneCompletes
  <2> QED BY <1>0, <2>1 DEF LaneStates
<1>7. CASE DecoderNext \/ EncoderNext \/ MetadataNext \/ (MainNext /\ ~Create)
  BY <1>0, <1>7, DecoderFlow, EncoderFlow, MetadataFlow, MainFlow
<1>8. CASE Create \/ UNCHANGED vars
  BY <1>0, <1>8 DEF Create, MainKeeps, vars
<1> QED BY <1>3, <1>4, <1>5, <1>6, <1>7, <1>8, StepOf DEF SchedulerNext

(* What a step does to the records: one is sent, one is refused, or one is  *)
(* taken.                                                                   *)
Sends(record) == /\ freeRecords > 0 /\ freeRecords' = freeRecords - 1 /\ "records" \notin closed
                 /\ records' = Append(records, record)
Refuses == /\ records' = records
           /\ freeRecords' = freeRecords \/ (freeRecords > 0 /\ freeRecords' = freeRecords - 1)
Takes == /\ records # <<>> /\ records' = Tail(records) /\ MetadataWrite
         /\ freeRecords' = freeRecords \/ freeRecords' = freeRecords + 1
RecordTypes == [kind : {"detections", "timing"}, frame : Frames]

LEMMA RecordsMove ==
  ASSUME IInv, [Next]_vars
  PROVE  \/ Refuses
         \/ EmitDetections /\ Sends(Record("detections", next)) /\ pc'["main"] # "fail"
         \/ EmitTiming /\ Sends(Record("timing", next)) /\ pc'["main"] # "fail"
         \/ EncoderMeasure /\ Sends(Record("timing", frame[hand["encoder"]])) /\ pc'["encoder"] # "fail"
         \/ Takes
<1>0. LabelsOK /\ pc \in [Threads -> Places]
  BY DEF IInv, LabelsOK
<1>1. CASE DecoderNext
  BY <1>1, DecoderFlow DEF meta, Refuses
<1>2. CASE SchedulerNext
  BY <1>2, SchedulerFlow DEF meta, Refuses
<1>3. CASE EncoderNext
  <2>1. CASE EncoderMeasure
    BY <1>0, <2>1 DEF EncoderMeasure, Enqueue, Goto, Refuses, Sends, Threads, Stages, meta
  <2> QED BY <1>3, <2>1 DEF EncoderNext, EncoderStart, EncoderDraw, EncoderEncode, EncoderRecycle,
       AsyncFail, meta, Refuses
<1>4. CASE MetadataNext
  BY <1>4 DEF MetadataNext, MetadataWrite, MetadataEnd, AsyncFail, meta, Refuses, Takes
<1>5. CASE MainNext
  <2>1. CASE EmitDetections
    <3>1. found[hand["main"]] = next
      BY <2>1, InMain DEF EmitDetections, Emitting
    <3> QED BY <1>0, <2>1, <3>1 DEF EmitDetections, Enqueue, Goto, Refuses, Sends, Threads, meta
  <2>2. CASE EmitTiming
    <3>1. frame[hand["main"]] = next
      BY <2>2, InMain DEF EmitTiming, Emitting
    <3> QED BY <1>0, <2>2, <3>1 DEF EmitTiming, Enqueue, Goto, Refuses, Sends, Threads, meta
  <2> QED BY <1>5, <2>1, <2>2 DEF MainNext, Create, Order, EmitEncode, JudgePending, Join, Judge,
       Cleanup, Reap, Close, AsyncFail, meta, Refuses
<1>6. CASE GpuNext \/ UNCHANGED vars
  BY <1>6, GpuFlow DEF Refuses
<1> QED BY <1>1, <1>2, <1>3, <1>4, <1>5, <1>6, StepOf

LEMMA RecordsStep ==
  ASSUME IInv, [Next]_vars
  PROVE  /\ records' \in Seq(RecordTypes) /\ freeRecords' \in Nat
         /\ freeRecords' + Len(records') <= RecordCount
<1>0. /\ records \in Seq(RecordTypes) /\ freeRecords \in Nat /\ Len(records) \in Nat
      /\ freeRecords + Len(records) <= RecordCount /\ RecordCount \in Nat
  <2>1. records \in Seq(RecordTypes)
    BY DEF IInv, DataOK, RecordTypes
  <2>2. Len(records) \in Nat
    BY <2>1, LenProperties
  <2>3. DataOK /\ RecordCount \in Nat
    BY Basics DEF IInv, RecordCount
  <2>4. freeRecords \in Nat /\ freeRecords + Len(records) <= RecordCount
    BY <2>3 DEF DataOK
  <2> QED BY <2>1, <2>2, <2>3, <2>4
<1>1. ASSUME NEW record \in RecordTypes, Sends(record)
      PROVE  /\ records' \in Seq(RecordTypes) /\ freeRecords' \in Nat
             /\ freeRecords' + Len(records') <= RecordCount
  <2>1. Len(records') = Len(records) + 1 /\ records' \in Seq(RecordTypes)
    BY <1>0, <1>1, AppendProperties DEF Sends
  <2> QED BY <1>0, <1>1, <2>1 DEF Sends
<1>2. CASE Takes
  <2>1. Len(records') = Len(records) - 1 /\ records' \in Seq(RecordTypes)
    BY <1>0, <1>2, HeadTailProperties DEF Takes
  <2> QED BY <1>0, <1>2, <2>1 DEF Takes
<1>3. CASE Refuses
  BY <1>0, <1>3 DEF Refuses
<1>4. ASSUME EmitDetections \/ EmitTiming
      PROVE  Record("detections", next) \in RecordTypes /\ Record("timing", next) \in RecordTypes
  <2>1. next \in Frames
    BY <1>4, InMain DEF EmitDetections, EmitTiming, Emitting
  <2> QED BY <2>1 DEF RecordTypes, Record
<1>5. ASSUME EncoderMeasure PROVE Record("timing", frame[hand["encoder"]]) \in RecordTypes
  <2>1. frame[hand["encoder"]] \in Frames
    BY <1>5, InEncoder DEF EncoderMeasure
  <2> QED BY <2>1 DEF RecordTypes, Record
<1> QED BY <1>1, <1>2, <1>3, <1>4, <1>5, RecordsMove
LEMMA OutputsStep ==
  ASSUME IInv, [Next]_vars
  PROVE  /\ rows' \in Seq(Nat) /\ measured' \in Seq(Nat) /\ encoded' \in Seq(Nat)
         /\ ~MetadataNext => rows' = rows /\ measured' = measured
         /\ ~EncoderEncode => encoded' = encoded
<1>0. /\ rows \in Seq(Nat) /\ measured \in Seq(Nat) /\ encoded \in Seq(Nat)
      /\ records \in Seq(RecordTypes) /\ DataOK
  BY DEF IInv, DataOK, RecordTypes
<1>9. \A s \in Seq(Nat) : \A e \in Nat : Append(s, e) \in Seq(Nat)
  BY AppendProperties
<1>1. CASE MetadataNext
  <2>1. encoded' = encoded
    BY <1>1, MetadataFlow
  <2>2. records # <<>> => Head(records).frame \in Nat
    <3>1. records # <<>> => Head(records) \in RecordTypes
      BY <1>0, HeadTailProperties
    <3> QED BY <3>1 DEF RecordTypes, Frames
  <2>3. rows' = rows \/ (records # <<>> /\ rows' = Append(rows, Head(records).frame))
    BY <1>1 DEF MetadataNext, MetadataWrite, MetadataEnd, AsyncFail, output
  <2>4. measured' = measured \/ (records # <<>> /\ measured' = Append(measured, Head(records).frame))
    BY <1>1 DEF MetadataNext, MetadataWrite, MetadataEnd, AsyncFail, output
  <2>5. rows' \in Seq(Nat)
    BY <1>0, <1>9, <2>2, <2>3
  <2>6. measured' \in Seq(Nat)
    BY <1>0, <1>9, <2>2, <2>4
  <2> QED BY <1>0, <1>1, <2>1, <2>5, <2>6
<1>2. CASE EncoderNext
  <2>1. rows' = rows /\ measured' = measured
    BY <1>2, EncoderFlow
  <2>2. CASE EncoderEncode
    <3>1. frame[hand["encoder"]] \in Nat
      BY <2>2, InEncoder DEF EncoderEncode, Frames
    <3>2. encoded' = encoded \/ encoded' = Append(encoded, frame[hand["encoder"]])
      BY <2>2 DEF EncoderEncode
    <3>3. encoded' \in Seq(Nat)
      BY <1>0, <1>9, <3>1, <3>2
    <3> QED BY <1>0, <2>1, <2>2, <3>3
  <2>3. CASE ~EncoderEncode
    <3>1. encoded' = encoded
      BY <1>2, <2>3 DEF EncoderNext, EncoderStart, EncoderDraw, EncoderMeasure, EncoderRecycle, AsyncFail, output
    <3> QED BY <1>0, <2>1, <3>1
  <2> QED BY <2>2, <2>3
<1>3. CASE ~MetadataNext /\ ~EncoderNext
  <2>1. UNCHANGED <<rows, measured, encoded>>
    <3>1. CASE DecoderNext \/ SchedulerNext \/ (MainNext /\ ~Create)
      BY <3>1, DecoderFlow, SchedulerFlow, MainFlow DEF output
    <3>2. CASE Create \/ GpuNext \/ UNCHANGED vars
      BY <3>2, GpuFlow DEF Create, MainKeeps, output
    <3> QED BY <1>3, <3>1, <3>2, StepOf
  <2> QED BY <1>0, <2>1
<1> QED BY <1>1, <1>2, <1>3

LEMMA DataStep ==
  ASSUME IInv, [Next]_vars
  PROVE  DataOK'
<1>1. config' \in Configs /\ video' \in Frames /\ Total' = Total
  BY Onward DEF IInv, DataOK
<1>2. Typed' /\ frame' \in [Slots -> Frames \cup {NoFrame}] /\ found' \in [Slots -> Frames \cup {NoFrame}]
  BY TypedStep
<1>3. /\ records' \in Seq([kind : {"detections", "timing"}, frame : Frames])
      /\ freeRecords' \in Nat /\ freeRecords' + Len(records') <= RecordCount
  BY RecordsStep DEF RecordTypes
<1>4. rows' \in Seq(Nat) /\ measured' \in Seq(Nat) /\ encoded' \in Seq(Nat)
  BY OutputsStep
<1> QED BY <1>1, <1>2, <1>3, <1>4, FlagsStep, LanesStep, CountersStep DEF DataOK, Typed
-----------------------------------------------------------------------------
(* The queues between the threads: a step takes the oldest slot, or puts    *)
(* one behind the others where there is room.                               *)

Takeover(q) == queue[q] # <<>> /\ queue'[q] = Tail(queue[q])
PutsIn(q) == HasRoom(q) /\ \E s \in Slots : queue'[q] = Append(queue[q], s)
LEMMA QueueStep ==
  ASSUME IInv, [Next]_vars
  PROVE  \A q \in SlotQueues \ {"free"} : queue'[q] = queue[q] \/ Takeover(q) \/ PutsIn(q)
<1>0. /\ queue \in [SlotQueues -> Seq(Slots)] /\ hand \in [Threads -> Slots \cup {0}]
      /\ laneSlots \in [Lanes -> Slots \cup {0}] /\ Holding
      /\ {"free", "decoded", "completed", "encode"} = SlotQueues
  BY DEF IInv, DataOK, SlotQueues
<1> DEFINE Goal == \A q \in SlotQueues \ {"free"} : queue'[q] = queue[q] \/ Takeover(q) \/ PutsIn(q)
<1>1. ASSUME NEW s, RecycleInto(queue, s) PROVE Goal
  BY <1>0, <1>1 DEF RecycleInto
<1>2. ASSUME NEW r \in SlotQueues, NEW s, queue[r] # <<>>, RecycleInto(Popped(r), s) PROVE Goal
  BY <1>0, <1>2 DEF RecycleInto, Popped, Takeover
<1>3. ASSUME NEW r \in SlotQueues, queue[r] # <<>>, queue' = Popped(r) PROVE Goal
  BY <1>0, <1>3 DEF Popped, Takeover
<1>4. ASSUME NEW r \in SlotQueues, NEW s \in Slots, HasRoom(r) \/ r = "free", queue' = Added(r, s) PROVE Goal
  BY <1>0, <1>4 DEF Added, PutsIn
<1>5. ASSUME queue' = queue PROVE Goal
  BY <1>5
<1> HIDE DEF Goal
<1>6. ASSUME DecoderNext PROVE Goal
  <2>1. hand["decoder"] \in Slots \/ pc["decoder"] # "read"
    BY <1>0 DEF Holding, Threads, Stages
  <2> QED BY <1>0, <1>1, <1>3, <1>4, <1>5, <1>6, <2>1
          DEF DecoderNext, DecoderPop, DecoderRead, Pop, Recycle, Close, AsyncFail, slots
<1>7. ASSUME SchedulerNext PROVE Goal
  <2>1. CASE SchedulerCollect
    <3>1. PICK l \in First(Busy) : UNCHANGED queue \/ Collect(l)
      BY <2>1 DEF SchedulerCollect
    <3>2. laneSlots[l] \in Slots
      BY <1>0 DEF First, Busy, Occupied
    <3> QED BY <1>0, <1>1, <1>4, <1>5, <3>1, <3>2 DEF Collect, Recycle
  <2>2. CASE SchedulerFill
    BY <1>0, <1>2, <1>3, <1>5, <2>2 DEF SchedulerFill, Submit
  <2>3. CASE SchedulerDrain
    BY <1>1, <1>5, <2>3 DEF SchedulerDrain, Recycle
  <2> QED BY <1>5, <1>7, <2>1, <2>2, <2>3 DEF SchedulerNext, SchedulerStart, Close, AsyncFail, slots
<1>8. ASSUME EncoderNext PROVE Goal
  BY <1>0, <1>1, <1>3, <1>5, <1>8 DEF EncoderNext, EncoderStart, EncoderDraw, EncoderEncode, EncoderMeasure,
     EncoderRecycle, Pop, Recycle, AsyncFail, slots
<1>9. ASSUME MetadataNext PROVE Goal
  BY <1>5, <1>9, MetadataFlow DEF slots
<1>10. ASSUME MainNext PROVE Goal
  <2>1. CASE EmitEncode
    <3>1. hand["main"] \in Slots
      BY <2>1, InMain DEF EmitEncode, Emitting
    <3> QED BY <1>0, <1>1, <1>4, <2>1, <3>1 DEF EmitEncode, Abandon, Recycle
  <2>2. CASE Order
    BY <1>0, <1>2, <1>3, <1>5, <2>2 DEF Order, Pop, slots
  <2>3. CASE EmitDetections \/ EmitTiming
    BY <1>1, <1>5, <2>3 DEF EmitDetections, EmitTiming, Enqueue, Abandon, Recycle, slots
  <2> QED BY <1>5, <1>10, <2>1, <2>2, <2>3 DEF MainNext, Create, JudgePending, Join, Judge, Cleanup, Reap,
       Close, AsyncFail, slots
<1>11. ASSUME GpuNext \/ UNCHANGED vars PROVE Goal
  BY <1>5, <1>11, GpuFlow
<1> QED BY <1>6, <1>7, <1>8, <1>9, <1>10, <1>11, StepOf DEF Goal

(* A queue that is closed and empty is done with. *)
LEMMA StaysEmpty ==
  ASSUME IInv, [Next]_vars, NEW q \in SlotQueues \ {"free"}, q \in closed, queue[q] = <<>>
  PROVE  queue'[q] = <<>>
BY QueueStep DEF Takeover, PutsIn, HasRoom

-----------------------------------------------------------------------------
(* The scheduler and its lanes.                                            *)

(* The other threads leave it its lanes, and their slots the frames. *)
LEMMA SchedulerWaits ==
  ASSUME IInv, [Next]_vars, ~SchedulerNext
  PROVE  /\ laneSlots' = laneSlots /\ decodedClosed' = decodedClosed
         /\ resume'["scheduler"] = resume["scheduler"]
         /\ \/ pc'["scheduler"] = pc["scheduler"]
            \/ pc["scheduler"] = "none" /\ pc'["scheduler"] = "start"
         /\ lanes' = lanes \/ GpuNext
         /\ \A l \in Lanes : laneSlots[l] # 0 => frame'[laneSlots[l]] = frame[laneSlots[l]]
<1>0. /\ laneSlots \in [Lanes -> Slots \cup {0}]
  BY DEF IInv, DataOK
<1> DEFINE Kept == \A l \in Lanes : laneSlots[l] # 0 => frame'[laneSlots[l]] = frame[laneSlots[l]]
<1>1. ASSUME NEW h \in SlotQueues \cup Threads, NEW s, NEW k, NEW r, NEW j, Carries(<<h, 0>>, s, k, r, j)
      PROVE  Kept
  <2> SUFFICES ASSUME NEW l \in Lanes, laneSlots[l] # 0 PROVE frame'[laneSlots[l]] = frame[laneSlots[l]]
    OBVIOUS
  <2>1. laneSlots[l] \in Slots /\ OnlyAt(<<"lane", l>>, laneSlots[l])
    BY InLane
  <2>2. s \in Slots /\ s \in Held(<<h, 0>>) /\ \A x \in Slots \ {s} : frame'[x] = frame[x]
    BY <1>1 DEF Carries, Changes
  <2>3. s # laneSlots[l]
    <3>1. CASE h \in SlotQueues
      BY <2>1, <2>2, <3>1, WhereIs, Kinds DEF Where, OnlyAt, NoLane
    <3>2. CASE h \in Threads
      BY <2>1, <2>2, <3>2, WhereIs, Kinds DEF Where, OnlyAt, NoLane
    <3> QED BY <3>1, <3>2
  <2> QED BY <2>1, <2>2, <2>3
<1>2. ASSUME Still PROVE Kept
  BY <1>2 DEF Still
<1>3. CASE GpuNext \/ UNCHANGED vars
  <2>1. lanes' = lanes \/ GpuNext
    BY <1>3 DEF vars
  <2> QED BY <1>3, <2>1, GpuFlow
<1>4. CASE pc["main"] # "done" /\ DecoderNext
  <2>1. Kept
    BY <1>1, <1>2, <1>4, DecoderCarries DEF DecoderMoves, SlotQueues, Threads, Stages
  <2> QED BY <1>4, <2>1, DecoderFlow DEF scheduling, OnlyMoves, Keeps, Threads, Stages
<1>5. CASE pc["main"] # "done" /\ EncoderNext
  <2>1. Kept
    BY <1>1, <1>2, <1>5, EncoderCarries DEF EncoderMoves, SlotQueues, Threads, Stages
  <2> QED BY <1>5, <2>1, EncoderFlow DEF scheduling, OnlyMoves, Keeps, Threads, Stages
<1>6. CASE MetadataNext
  BY <1>6, MetadataFlow DEF scheduling, OnlyMoves, Keeps, Threads, Stages, slots
<1>7. CASE pc["main"] # "done" /\ MainNext /\ ~Create
  <2>1. CASE Reap
    <3>1. pc["scheduler"] \in {"none", "done"}
      BY <2>1 DEF Reap, Returned, Started, Stages
    <3>2. Kept
      BY <3>1 DEF IInv, Scheduling, Occupied
    <3> QED BY <1>7, <3>2, MainFlow DEF scheduling, Keeps, Threads, Stages
  <2>2. CASE ~Reap
    <3>1. Kept
      BY <1>1, <1>2, <1>7, <2>2, MainCarries DEF MainMoves, SlotQueues, Threads
    <3> QED BY <1>7, <3>1, MainFlow DEF scheduling, Keeps, Threads, Stages
  <2> QED BY <2>1, <2>2
<1>8. CASE Create
  <2>1. Kept /\ lanes' = lanes /\ laneSlots' = laneSlots /\ decodedClosed' = decodedClosed
    BY <1>8 DEF Create, slots, MainKeeps, scheduling
  <2> QED BY <1>8, <2>1, CreateMoves DEF Starts, Stages, FirstPlace
<1> QED BY <1>3, <1>4, <1>5, <1>6, <1>7, <1>8, StepOf, Over
(* A lane and the slot it has. *)
LaneFits(l) == IF laneSlots[l] = 0 THEN lanes[l] = IdleLane
               ELSE /\ lanes[l].active /\ lanes[l].gpu # "idle"
                    /\ lanes[l].frame = frame[laneSlots[l]]
AtWork == pc["scheduler"] \in {"none", "start", "collect", "fill"} \/ ~Failing
LEMMA LanesFit ==
  ASSUME IInv, [Next]_vars, AtWork', NEW l \in Lanes
  PROVE  LaneFits(l)'
<1>0. /\ lanes \in [Lanes -> LaneStates(Frames)] /\ laneSlots \in [Lanes -> Slots \cup {0}]
      /\ DataOK /\ Owned /\ LabelsOK /\ Ending /\ \A x \in Slots : x # 0
      /\ "scheduler" \in Threads /\ "decoded" \in SlotQueues
  BY Basics DEF IInv, DataOK, Threads, Stages, SlotQueues
<1>1. AtWork
  <2>1. ~Failing' => ~Failing
    BY Onward
  <2>2. CASE SchedulerNext
    <3>1. AsyncFail("scheduler") => pc'["scheduler"] \notin {"none", "start", "collect", "fill"}
      BY <1>0, FailMoves DEF IInv, Failures, Inside
    <3> QED BY <2>1, <2>2, <3>1, SchedulerFlow DEF AtWork
  <2>3. CASE ~SchedulerNext
    BY <2>1, <2>3, SchedulerWaits DEF AtWork
  <2> QED BY <2>2, <2>3
<1>2. LaneFits(l)
  BY <1>1 DEF IInv, Scheduling, AtWork, LaneFits
<1>3. ASSUME UNCHANGED <<lanes, laneSlots>>, frame'[laneSlots[l]] = frame[laneSlots[l]] \/ laneSlots[l] = 0
      PROVE  LaneFits(l)'
  BY <1>2, <1>3 DEF LaneFits
<1>4. CASE ~SchedulerNext
  <2>1. CASE lanes' = lanes
    BY <1>3, <1>4, <2>1, SchedulerWaits
  <2>2. CASE GpuNext
    <3>1. laneSlots' = laneSlots /\ frame' = frame
      BY <2>2, GpuFlow
    <3>2. PICK k \in Lanes : lanes[k].gpu = "running" /\ lanes' = [lanes EXCEPT ![k].gpu = "done"]
      BY <2>2 DEF GpuNext, LaneCompletes
    <3>3. CASE l = k
      <4>1. lanes[l] # IdleLane /\ laneSlots[l] # 0
        BY <1>2, <3>2, <3>3 DEF LaneFits, IdleLane
      <4>2. lanes'[l].active = lanes[l].active /\ lanes'[l].gpu = "done" /\ lanes'[l].frame = lanes[l].frame
        BY <1>0, <3>2, <3>3 DEF LaneStates
      <4> QED BY <1>2, <3>1, <4>1, <4>2 DEF LaneFits
    <3>4. CASE l # k
      <4>1. lanes'[l] = lanes[l]
        BY <1>0, <3>2, <3>4
      <4> QED BY <1>2, <3>1, <4>1 DEF LaneFits
    <3> QED BY <3>3, <3>4
  <2> QED BY <1>4, <2>1, <2>2, SchedulerWaits
<1>5. ASSUME NEW to, Fail("scheduler", to) PROVE FALSE
  <2>1. Failing' /\ pc'["scheduler"] = "fail"
    BY <1>0, <1>5, FailsNow DEF LabelsOK, Fail
  <2> QED BY <2>1 DEF AtWork
<1>6. CASE SchedulerStart
  BY <1>3, <1>6 DEF SchedulerStart
<1>7. CASE SchedulerCollect
  <2>1. PICK k \in First(Busy) : UNCHANGED <<queue, frame, found, lanes, laneSlots>> \/ Collect(k)
    BY <1>5, <1>7 DEF SchedulerCollect
  <2>2. k \in Lanes
    BY DEF First, Busy, Occupied
  <2>3. CASE Collect(k)
    <3>1. lanes' = [lanes EXCEPT ![k] = IdleLane] /\ laneSlots' = [laneSlots EXCEPT ![k] = 0] /\ frame' = frame
      BY <1>5, <2>3 DEF Collect, FinishLane
    <3>2. CASE l = k
      BY <1>0, <2>2, <3>1, <3>2 DEF LaneFits
    <3>3. CASE l # k
      BY <1>0, <1>2, <2>2, <3>1, <3>3 DEF LaneFits
    <3> QED BY <3>2, <3>3
  <2> QED BY <1>3, <2>1, <2>3
<1>8. CASE SchedulerFill
  <2>1. CASE UNCHANGED <<queue, frame, found, lanes, laneSlots>>
    BY <1>3, <2>1
  <2>2. CASE queue["decoded"] # <<>> /\ \E k \in First(Empty) : Submit(k, Head(queue["decoded"]))
    <3>1. PICK k \in First(Empty) : Submit(k, Head(queue["decoded"]))
      BY <2>2
    <3>2. k \in Lanes /\ Head(queue["decoded"]) \in Slots
      BY <1>0, <2>2, PoppedIs DEF First, Empty
    <3>3. PICK s \in Slots : s = Head(queue["decoded"])
      BY <3>2
    <3>4. /\ lanes' = [lanes EXCEPT ![k] = [active |-> TRUE, gpu |-> "running", frame |-> frame[s]]]
          /\ laneSlots' = [laneSlots EXCEPT ![k] = s] /\ frame' = frame
      BY <1>5, <3>1, <3>3 DEF Submit, SubmitLane
    <3>5. CASE l = k
      BY <1>0, <3>2, <3>4, <3>5 DEF LaneFits
    <3>6. CASE l # k
      BY <1>0, <1>2, <3>2, <3>4, <3>6 DEF LaneFits
    <3> QED BY <3>5, <3>6
  <2> QED BY <1>8, <2>1, <2>2 DEF SchedulerFill
<1>9. CASE SchedulerDrain
  <2>1. ~failed
    <3>1. pc'["scheduler"] \in {"drain", "close"}
      BY <1>0, <1>9 DEF SchedulerDrain, Goto, control, LabelsOK
    <3>2. failed' = failed
      BY <1>9 DEF SchedulerDrain, SchedulerKeeps, shared
    <3> QED BY <3>1, <3>2 DEF AtWork, Failing
  <2>2. Occupied = {}
    BY <1>0, <1>9, <2>1 DEF Ending, SchedulerDrain
  <2>3. UNCHANGED <<lanes, laneSlots, frame>>
    BY <1>9, <2>2 DEF SchedulerDrain, First
  <2> QED BY <1>3, <2>3
<1>10. CASE Close("scheduler", "close", "completed", "done") \/ AsyncFail("scheduler")
  BY <1>3, <1>10 DEF Close, AsyncFail, slots, scheduling
<1> QED BY <1>4, <1>6, <1>7, <1>8, <1>9, <1>10 DEF SchedulerNext

LEMMA SchedulingStep ==
  ASSUME IInv, [Next]_vars
  PROVE  Scheduling'
<1>0. /\ LabelsOK /\ Scheduling /\ Failures /\ DataOK /\ "scheduler" \in Threads /\ "decoded" \in SlotQueues \ {"free"}
      /\ closed \subseteq closed'
  BY Onward DEF IInv, Threads, Stages, SlotQueues
<1>1. AtWork' => \A l \in Lanes : LaneFits(l)'
  BY LanesFit
<1> DEFINE Done == Occupied = {}
<1>2. pc'["scheduler"] \in {"none", "start", "close", "done"} => Done'
  <2>1. CASE ~SchedulerNext
    BY <1>0, <2>1, SchedulerWaits DEF Scheduling, Occupied
  <2>2. CASE SchedulerDrain
    BY <1>0, <2>2 DEF SchedulerDrain, Goto, control, LabelsOK, Occupied
  <2>3. CASE SchedulerStart \/ SchedulerCollect \/ SchedulerFill
    <3>1. pc'["scheduler"] \in {"collect", "fill", "drain", "fail"}
      BY <1>0, <2>3 DEF SchedulerStart, SchedulerCollect, SchedulerFill, Round, Collect, AfterLane, Submit,
         control, Goto, Fail, LabelsOK
    <3> QED BY <3>1
  <2>4. CASE Close("scheduler", "close", "completed", "done")
    BY <1>0, <2>4 DEF Close, scheduling, Scheduling, Occupied
  <2>5. CASE AsyncFail("scheduler")
    <3>1. laneSlots' = laneSlots
      BY <2>5 DEF AsyncFail, scheduling
    <3>2. pc'["scheduler"] \in {"none", "start", "close", "done"} =>
             resume["scheduler"] = "close" /\ pc["scheduler"] \in Inside
      BY <1>0, <2>5, FailMoves DEF Failures, Inside
    <3> QED BY <1>0, <3>1, <3>2 DEF Scheduling, Occupied
  <2> QED BY <2>1, <2>2, <2>3, <2>4, <2>5 DEF SchedulerNext
<1>3. pc'["scheduler"] = "none" => ~decodedClosed'
  <2>1. CASE SchedulerNext
    BY <1>0, <2>1, SchedulerFlow, FailMoves DEF Failures, Inside
  <2>2. CASE ~SchedulerNext
    BY <1>0, <2>2, SchedulerWaits DEF Scheduling
  <2> QED BY <2>1, <2>2
<1>4. decodedClosed' => "decoded" \in closed' /\ queue'["decoded"] = <<>>
  <2>1. CASE decodedClosed
    BY <1>0, <2>1, StaysEmpty DEF Scheduling
  <2>2. CASE ~decodedClosed
    <3>1. decodedClosed' => NoMore("decoded") /\ queue' = queue
      <4>1. CASE ~SchedulerNext
        BY <2>2, <4>1, SchedulerWaits
      <4>2. CASE SchedulerNext
        BY <2>2, <4>2 DEF SchedulerNext, SchedulerStart, SchedulerCollect, SchedulerFill, SchedulerDrain,
           Close, AsyncFail, scheduling
      <4> QED BY <4>1, <4>2
    <3> QED BY <1>0, <3>1 DEF NoMore
  <2> QED BY <2>1, <2>2
<1>5. pc'["scheduler"] \in Inside /\ resume'["scheduler"] = "close" => Done'
  <2>1. CASE ~SchedulerNext
    BY <1>0, <2>1, SchedulerWaits DEF Scheduling, Occupied, Inside
  <2>2. CASE SchedulerStart
    BY <1>0, <2>2 DEF SchedulerStart, Scheduling, Occupied
  <2>3. CASE SchedulerCollect \/ SchedulerFill \/ SchedulerDrain
    <3>1. pc'["scheduler"] \in Inside => resume'["scheduler"] = "drain"
      BY <1>0, <2>3 DEF SchedulerDrain, SchedulerCollect, SchedulerFill, Round, Collect, AfterLane, Submit,
         control, Goto, Fail, LabelsOK, Inside
    <3> QED BY <3>1
  <2>4. CASE Close("scheduler", "close", "completed", "done")
    BY <1>0, <2>4 DEF Close, Goto, LabelsOK, Inside
  <2>5. CASE AsyncFail("scheduler")
    <3>1. laneSlots' = laneSlots
      BY <2>5 DEF AsyncFail, scheduling
    <3>2. pc'["scheduler"] \in Inside => pc["scheduler"] \in Inside /\ resume'["scheduler"] = resume["scheduler"]
      BY <1>0, <2>5, FailMoves DEF Failures, Inside
    <3> QED BY <1>0, <3>1, <3>2 DEF Scheduling, Occupied
  <2> QED BY <2>1, <2>2, <2>3, <2>4, <2>5 DEF SchedulerNext
<1> QED BY <1>1, <1>2, <1>3, <1>4, <1>5 DEF Scheduling, AtWork, LaneFits
-----------------------------------------------------------------------------
(* How the stages end.                                                     *)

(* What a step may do as long as nothing has failed. *)
LEMMA Unfailed ==
  ASSUME IInv, [Next]_vars, ~failed'
  PROVE  /\ ~failed /\ \A t \in Threads : ~AsyncFail(t)
         /\ \A t \in Stages : /\ pc[t] # "none" => pc'[t] # "none"
                              /\ pc[t] = "done" => pc'[t] = "done"
         /\ closed' \subseteq closed \cup {"decoded", "completed", "encode", "records"}
         /\ "decoded" \in closed' => "decoded" \in closed \/ pc'["decoder"] = "done"
         /\ pc'["decoder"] \in {"close", "done"} =>
               pc["decoder"] \in {"close", "done"} \/ DecoderPop \/ DecoderRead
         /\ pc'["encoder"] = "done" => pc["encoder"] = "done" \/ EncoderDraw
         /\ pc'["metadata"] = "done" => pc["metadata"] = "done" \/ MetadataEnd
<1>0. LabelsOK /\ Failures /\ DataOK /\ "main" \in Threads /\ Stages \subseteq Threads /\ "main" \notin Stages
  BY DEF IInv, Threads, Stages
<1>1. ~failed
  BY Onward
<1>2. ASSUME NEW t \in Threads, AsyncFail(t) PROVE FALSE
  <2>1. pc[t] = "fail" \/ pc[t] = "closing"
    BY <1>0, <1>2, FailMoves DEF Inside
  <2>2. pc[t] # "closing"
    BY <1>0, <1>1 DEF Failures
  <2> QED BY <1>0, <1>2, <2>1, <2>2, FailMoves
<1> USE DEF OnlyMoves, Keeps
<1>3. CASE DecoderNext
  <2>1. pc'["decoder"] \in {"close", "done"} =>
               pc["decoder"] \in {"close", "done"} \/ DecoderPop \/ DecoderRead
    BY <1>0, <1>2, <1>3 DEF DecoderNext, Close, Threads, Stages
  <2> QED BY <1>0, <1>1, <1>2, <1>3, <2>1, DecoderFlow DEF Threads, Stages
<1>4. CASE SchedulerNext
  BY <1>0, <1>1, <1>2, <1>4, SchedulerFlow DEF Threads, Stages
<1>5. CASE EncoderNext
  <2>1. pc'["encoder"] = "done" => EncoderDraw
    BY <1>0, <1>1, <1>2, <1>5 DEF EncoderNext, EncoderStart, EncoderEncode, EncoderMeasure, EncoderRecycle,
       Enqueue, Goto, Fail, LabelsOK, Threads, Stages
  <2> QED BY <1>0, <1>1, <1>2, <1>5, <2>1, EncoderFlow DEF Threads, Stages
<1>6. CASE MetadataNext
  <2>1. pc'["metadata"] = "done" => MetadataEnd
    BY <1>0, <1>1, <1>2, <1>6 DEF MetadataNext, MetadataWrite, Goto, Fail, LabelsOK, Threads, Stages
  <2> QED BY <1>0, <1>1, <1>2, <1>6, <2>1, MetadataFlow DEF Threads, Stages
<1>7. CASE MainNext /\ ~Create
  <2>1. \A t \in Stages : pc'[t] = pc[t]
    BY <1>0, <1>7, MainFlow
  <2>2. closed' \subseteq closed \cup {"encode", "records"}
    BY <1>0, <1>2, <1>7, MainFlow
  <2> QED BY <1>0, <1>1, <1>2, <2>1, <2>2 DEF Stages
<1>8. CASE Create
  <2>1. \A t \in Stages : pc'[t] = pc[t] \/ (pc[t] = "none" /\ pc'[t] \in {"pop", "start"})
    BY <1>8, CreateMoves DEF Starts, FirstPlace
  <2>2. closed' = closed
    BY <1>8, CreateMoves
  <2> QED BY <1>0, <1>1, <1>2, <2>1, <2>2 DEF Stages
<1>9. CASE GpuNext \/ UNCHANGED vars
  BY <1>0, <1>1, <1>2, <1>9, GpuFlow DEF Stages
<1> QED BY <1>3, <1>4, <1>5, <1>6, <1>7, <1>8, <1>9, StepOf

(* The decoder stops when the video or the wished frames are at their end. *)
LEMMA DecoderEnds ==
  ASSUME IInv, [Next]_vars
  PROVE  /\ pc'["decoder"] \in {"none", "pop", "read"} => MaxFrames = 0 \/ decoded' < MaxFrames
         /\ ~failed' => /\ pc'["decoder"] \in {"close", "done"} => decoded' = Total
                        /\ "decoded" \in closed' => pc'["decoder"] = "done"
<1>0. /\ LabelsOK /\ Failures /\ Ending /\ DataOK /\ "decoder" \in Threads /\ "decoder" \in Stages
      /\ decoded \in Nat /\ MaxFrames \in Nat
  BY Basics DEF IInv, Threads, Stages
<1>1. pc'["decoder"] \in {"none", "pop", "read"} => MaxFrames = 0 \/ decoded' < MaxFrames
  <2>1. CASE DecoderRead
    <3>1. pc["decoder"] = "read" /\ (MaxFrames = 0 \/ decoded < MaxFrames)
      BY <1>0, <2>1 DEF DecoderRead, Ending
    <3>2. pc'["decoder"] \in {"none", "pop", "read"} => decoded' = decoded + 1 /\ decoded' # MaxFrames
      BY <1>0, <2>1 DEF DecoderRead, Goto, Fail, LabelsOK
    <3> QED BY <1>0, <3>1, <3>2
  <2>2. CASE ~DecoderRead
    <3>1. decoded' = decoded
      <4>1. CASE DecoderNext
        BY <2>2, <4>1 DEF DecoderNext, DecoderPop, Close, AsyncFail
      <4>2. CASE SchedulerNext \/ EncoderNext \/ MetadataNext \/ (MainNext /\ ~Create)
        BY <4>2, SchedulerFlow, EncoderFlow, MetadataFlow, MainFlow
      <4>3. CASE Create \/ GpuNext \/ UNCHANGED vars
        BY <4>3, GpuFlow DEF Create, MainKeeps
      <4> QED BY <4>1, <4>2, <4>3, StepOf
    <3>2. pc'["decoder"] \in {"none", "pop", "read"} => pc["decoder"] \in {"none", "pop", "read"}
      <4>1. CASE DecoderNext
        BY <1>0, <4>1, DecoderFlow, FailMoves DEF Failures, Inside
      <4>2. CASE SchedulerNext \/ EncoderNext \/ MetadataNext \/ (MainNext /\ ~Create)
        BY <1>0, <4>2, SchedulerFlow, EncoderFlow, MetadataFlow, MainFlow DEF OnlyMoves, Keeps, Threads, Stages
      <4>3. CASE Create \/ GpuNext \/ UNCHANGED vars
        BY <1>0, <4>3, GpuFlow, CreateMoves DEF Starts
      <4> QED BY <4>1, <4>2, <4>3, StepOf
    <3> QED BY <1>0, <3>1, <3>2 DEF Ending
  <2> QED BY <2>1, <2>2
<1>2. ASSUME ~failed', pc'["decoder"] \in {"close", "done"} PROVE decoded' = Total
  <2>0. ~failed
    BY <1>2, Unfailed
  <2>1. CASE pc["decoder"] \in {"close", "done"}
    <3>1. decoded = Total
      BY <1>0, <2>0, <2>1 DEF Ending
    <3>2. decoded' \in {decoded, decoded + 1} /\ decoded' \in 0 .. Total /\ Total \in Nat
      BY CountersStep
    <3> QED BY <1>0, <3>1, <3>2
  <2>2. CASE DecoderPop
    <3>1. "free" \in closed
      BY <1>0, <1>2, <2>2 DEF DecoderPop, NoMore, Goto, LabelsOK
    <3> QED BY <1>0, <2>0, <3>1 DEF Failures
  <2>3. CASE DecoderRead
    <3>1. pc["decoder"] = "read" /\ (MaxFrames = 0 \/ decoded < MaxFrames)
      BY <1>0, <2>3 DEF DecoderRead, Ending
    <3>2. "decoded" \notin closed
      BY <1>0, <2>0, <3>1 DEF Ending
    <3>3. \/ decoded = video /\ decoded' = decoded
          \/ decoded < video /\ decoded' = decoded + 1 /\ decoded' = MaxFrames
      BY <1>0, <1>2, <2>0, <2>3, <3>2 DEF DecoderRead, Goto, Fail, LabelsOK
    <3>4. video \in Nat /\ Total = IF MaxFrames > 0 /\ MaxFrames < video THEN MaxFrames ELSE video
      BY <1>0, Basics
    <3> QED BY <1>0, <3>1, <3>3, <3>4
  <2> QED BY <1>2, <2>1, <2>2, <2>3, Unfailed
<1>3. ASSUME ~failed', "decoded" \in closed' PROVE pc'["decoder"] = "done"
  <2>1. "decoded" \in closed => pc["decoder"] = "done"
    BY <1>0, <1>3, Unfailed DEF Ending
  <2> QED BY <1>0, <1>3, <2>1, Unfailed
<1> QED BY <1>1, <1>2, <1>3
(* What becomes of the encoder's queue. *)
LEMMA EncodeStep ==
  ASSUME IInv, [Next]_vars
  PROVE  \/ queue'["encode"] = queue["encode"] /\ ~Pop("encoder", "encode")
         \/ /\ EncoderDraw /\ Pop("encoder", "encode") /\ Takeover("encode")
         \/ /\ EmitEncode /\ HasRoom("encode") /\ Emitted
            /\ queue'["encode"] = Append(queue["encode"], hand["main"])
            /\ UNCHANGED <<frame, found>>
<1>0. /\ queue \in [SlotQueues -> Seq(Slots)] /\ Distinct(queue["encode"])
      /\ {"free", "decoded", "completed", "encode"} = SlotQueues
  BY DEF IInv, DataOK, SlotQueues, Owned
<1> DEFINE Same == queue'["encode"] = queue["encode"] /\ ~Pop("encoder", "encode")
           Goal == \/ Same
                   \/ /\ EncoderDraw /\ Pop("encoder", "encode") /\ Takeover("encode")
                   \/ /\ EmitEncode /\ HasRoom("encode") /\ Emitted
                      /\ queue'["encode"] = Append(queue["encode"], hand["main"])
                      /\ UNCHANGED <<frame, found>>
<1>1. ASSUME queue'["encode"] = queue["encode"] PROVE Goal
  <2>1. CASE Pop("encoder", "encode")
    <3>1. queue["encode"] # <<>> /\ queue'["encode"] = Tail(queue["encode"]) /\ queue["encode"] \in Seq(Slots)
      BY <1>0, <2>1 DEF Pop, Popped
    <3>2. Len(Tail(queue["encode"])) = Len(queue["encode"]) - 1 /\ Len(queue["encode"]) \in Nat
      BY <3>1, HeadTailProperties, LenProperties
    <3>3. Tail(queue["encode"]) = queue["encode"]
      BY <1>1, <3>1
    <3>4. Len(queue["encode"]) = Len(queue["encode"]) - 1
      BY <3>2, <3>3
    <3> QED BY <3>2, <3>4
  <2> QED BY <1>1, <2>1
<1>2. ASSUME NEW s, RecycleInto(queue, s) PROVE Goal
  <2>1. queue'["encode"] = queue["encode"]
    BY <1>0, <1>2 DEF RecycleInto
  <2> QED BY <1>1, <2>1
<1>3. ASSUME NEW r \in SlotQueues \ {"encode"}, NEW s, RecycleInto(Popped(r), s) PROVE Goal
  <2>1. queue'["encode"] = queue["encode"]
    BY <1>0, <1>3 DEF RecycleInto, Popped
  <2> QED BY <1>1, <2>1
<1>4. ASSUME NEW r \in SlotQueues \ {"encode"}, queue' = Popped(r) PROVE Goal
  <2>1. queue'["encode"] = queue["encode"]
    BY <1>0, <1>4 DEF Popped
  <2> QED BY <1>1, <2>1
<1>5. ASSUME NEW r \in SlotQueues \ {"encode"}, NEW s, queue' = Added(r, s) PROVE Goal
  <2>1. queue'["encode"] = queue["encode"]
    BY <1>0, <1>5 DEF Added
  <2> QED BY <1>1, <2>1
<1>6. ASSUME queue' = queue PROVE Goal
  BY <1>1, <1>6
<1>7. ASSUME EncoderDraw, Pop("encoder", "encode") PROVE Goal
  BY <1>0, <1>7 DEF Pop, Popped, Takeover
<1>8. ASSUME EmitEncode PROVE Goal
  <2>1. CASE Abandon
    BY <1>2, <2>1 DEF Abandon, Recycle
  <2>2. CASE HasRoom("encode") /\ queue' = Added("encode", hand["main"]) /\ Emitted /\ UNCHANGED <<frame, found>>
    BY <1>0, <1>8, <2>2 DEF Added
  <2> QED BY <1>8, <2>1, <2>2 DEF EmitEncode
<1> HIDE DEF Goal
<1>9. ASSUME DecoderNext PROVE Goal
  BY <1>0, <1>2, <1>4, <1>5, <1>6, <1>9
     DEF DecoderNext, DecoderPop, DecoderRead, Pop, Recycle, Close, AsyncFail, slots
<1>10. ASSUME SchedulerNext PROVE Goal
  <2>1. CASE SchedulerCollect
    <3>1. PICK l \in First(Busy) : UNCHANGED queue \/ Collect(l)
      BY <2>1 DEF SchedulerCollect
    <3> QED BY <1>0, <1>2, <1>5, <1>6, <3>1 DEF Collect, Recycle
  <2>2. CASE SchedulerFill
    BY <1>0, <1>3, <1>4, <1>6, <2>2 DEF SchedulerFill, Submit
  <2>3. CASE SchedulerDrain
    BY <1>2, <1>6, <2>3 DEF SchedulerDrain, Recycle
  <2> QED BY <1>6, <1>10, <2>1, <2>2, <2>3 DEF SchedulerNext, SchedulerStart, Close, AsyncFail, slots
<1>11. ASSUME EncoderNext PROVE Goal
  BY <1>2, <1>6, <1>7, <1>11 DEF EncoderNext, EncoderStart, EncoderDraw, EncoderEncode, EncoderMeasure,
     EncoderRecycle, Recycle, AsyncFail, slots
<1>12. ASSUME MetadataNext PROVE Goal
  BY <1>6, <1>12, MetadataFlow DEF slots
<1>13. ASSUME MainNext PROVE Goal
  <2>1. CASE Order
    BY <1>0, <1>3, <1>4, <1>6, <2>1 DEF Order, Pop, slots
  <2>2. CASE EmitDetections \/ EmitTiming
    BY <1>2, <1>6, <2>2 DEF EmitDetections, EmitTiming, Enqueue, Abandon, Recycle, slots
  <2> QED BY <1>6, <1>8, <1>13, <2>1, <2>2 DEF MainNext, Create, JudgePending, Join, Judge, Cleanup, Reap,
       Close, AsyncFail, slots
<1>14. ASSUME GpuNext \/ UNCHANGED vars PROVE Goal
  BY <1>6, <1>14, GpuFlow
<1> QED BY <1>9, <1>10, <1>11, <1>12, <1>13, <1>14, StepOf DEF Goal
(* The scheduler drains nothing: it has seen the end of the decoder's queue, *)
(* and its lanes are done.                                                   *)
LEMMA SchedulerEnds ==
  ASSUME IInv, [Next]_vars, ~failed', pc'["scheduler"] \in {"drain", "close", "done"}
  PROVE  decodedClosed' /\ Occupied' = {}
<1>0. /\ LabelsOK /\ Ending /\ ~failed /\ ~AsyncFail("scheduler") /\ "scheduler" \in Threads
  BY Unfailed DEF IInv, Threads, Stages
<1>1. CASE pc["scheduler"] \in {"drain", "close", "done"}
  <2>1. decodedClosed /\ Occupied = {}
    BY <1>0, <1>1 DEF Ending
  <2>2. CASE ~SchedulerNext
    BY <2>1, <2>2, SchedulerWaits DEF Occupied
  <2>3. CASE SchedulerNext
    <3>1. SchedulerDrain \/ Close("scheduler", "close", "completed", "done")
      BY <1>0, <1>1, <2>3 DEF SchedulerNext, SchedulerStart, SchedulerCollect, SchedulerFill
    <3> QED BY <2>1, <3>1 DEF SchedulerDrain, Close, First, scheduling, Occupied
  <2> QED BY <2>2, <2>3
<1>2. CASE pc["scheduler"] \notin {"drain", "close", "done"}
  <2>1. SchedulerStart \/ SchedulerCollect \/ SchedulerFill
    <3>1. SchedulerNext
      BY <1>2, SchedulerWaits
    <3> QED BY <1>0, <1>2, <3>1 DEF SchedulerNext, SchedulerDrain, Close
  <2>2. SchedulerFill
    BY <1>0, <2>1 DEF SchedulerStart, SchedulerCollect, Collect, AfterLane, Round, Goto, Fail, control, LabelsOK
  <2>3. decodedClosed' /\ Occupied = {} /\ laneSlots' = laneSlots
    BY <1>0, <1>2, <2>2 DEF SchedulerFill, Submit, Round, Goto, Fail, control, LabelsOK
  <2> QED BY <2>3 DEF Occupied
<1> QED BY <1>1, <1>2

(* Without --draw-boxes there is no encoder. *)
LEMMA NoEncoder ==
  ASSUME IInv, [Next]_vars
  PROVE  /\ ~config'.draw => pc'["encoder"] = "none" /\ queue'["encode"] = <<>>
         /\ pc'["main"] = "emitEncode" => config'.draw
         /\ pc'["main"] \in {"emitTiming", "emitRecycle"} => ~config'.draw
         /\ pc'["main"] = "emitRecycle" => config'.benchmark
<1>0. /\ LabelsOK /\ Ending /\ Failures /\ config' = config /\ "encode" \in SlotQueues \ {"free"} /\ "encoder" \in Stages
  BY Onward DEF IInv, Stages, SlotQueues
<1> DEFINE Emits == /\ pc'["main"] = "emitEncode" => config.draw
                    /\ pc'["main"] \in {"emitTiming", "emitRecycle"} => ~config.draw
                    /\ pc'["main"] = "emitRecycle" => config.benchmark
<1>1. Emits
  <2>1. CASE MainNext /\ ~Create
    <3>1. AsyncFail("main") => pc'["main"] \notin Emitting
      BY <1>0, FailMoves DEF IInv, Failures, Inside, Emitting, Threads
    <3> QED BY <1>0, <2>1, <3>1, MainFlow DEF Ending, Emitting, Ordering
  <2>2. CASE Create
    BY <2>2, CreateMoves
  <2>3. CASE DecoderNext \/ SchedulerNext \/ EncoderNext \/ MetadataNext
    <3>1. pc'["main"] = pc["main"]
      BY <2>3, DecoderFlow, SchedulerFlow, EncoderFlow, MetadataFlow DEF OnlyMoves, Keeps, Threads, Stages
    <3> QED BY <1>0, <3>1 DEF Ending
  <2>4. CASE GpuNext \/ UNCHANGED vars
    BY <1>0, <2>4, GpuFlow DEF Ending
  <2> QED BY <2>1, <2>2, <2>3, <2>4, StepOf
<1>2. ASSUME ~config.draw PROVE pc'["encoder"] = "none" /\ queue'["encode"] = <<>>
  <2>1. pc["encoder"] = "none" /\ queue["encode"] = <<>> /\ pc["main"] # "emitEncode"
    BY <1>0, <1>2 DEF Ending
  <2>2. pc'["encoder"] = "none"
    <3>1. CASE MainNext /\ ~Create
      BY <2>1, <3>1, MainFlow DEF Keeps, Threads, Stages
    <3>2. CASE Create
      BY <1>0, <1>2, <2>1, <3>2, CreateMoves DEF Starts
    <3>3. CASE DecoderNext \/ SchedulerNext \/ MetadataNext
      BY <2>1, <3>3, DecoderFlow, SchedulerFlow, MetadataFlow DEF OnlyMoves, Keeps, Threads, Stages
    <3>4. CASE EncoderNext
      BY <2>1, <3>4, EncoderFlow, FailMoves DEF IInv, Inside, Threads, Stages
    <3>5. CASE GpuNext \/ UNCHANGED vars
      BY <2>1, <3>5, GpuFlow
    <3> QED BY <3>1, <3>2, <3>3, <3>4, <3>5, StepOf
  <2>3. queue'["encode"] = <<>>
    <3>2. ~EmitEncode
      BY <2>1 DEF EmitEncode
    <3>3. queue'["encode"] = queue["encode"] \/ Takeover("encode")
      BY <1>0, <3>2, EncodeStep
    <3> QED BY <2>1, <3>3 DEF Takeover
  <2> QED BY <2>2, <2>3
<1> QED BY <1>0, <1>1, <1>2
LEMMA MainEnds ==
  ASSUME IInv, [Next]_vars, ~failed'
  PROVE  /\ pc'["main"] \in Leaving => "completed" \in closed' /\ queue'["completed"] = <<>>
         /\ pc'["main"] \in (Ordering \cup Leaving) \ {"create"} =>
               \A t \in Stages : pc'[t] # "none" \/ (t = "encoder" /\ ~config'.draw)
         /\ pc'["main"] \in {"closeRecords", "joinMetadata", "cleanup"} =>
               Stopped("decoder")' /\ Stopped("scheduler")' /\ Stopped("encoder")'
         /\ pc'["main"] = "cleanup" => Stopped("metadata")'
<1>0. /\ LabelsOK /\ Ending /\ ~failed /\ ~AsyncFail("main") /\ config' = config /\ closed \subseteq closed'
      /\ "completed" \in SlotQueues \ {"free"} /\ {"decoder", "scheduler", "encoder", "metadata"} = Stages
  BY Unfailed, Onward DEF IInv, Threads, Stages, SlotQueues
<1>1. \A t \in Stages : /\ pc[t] # "none" => pc'[t] # "none"
                        /\ Stopped(t) => Stopped(t)'
  BY <1>0, Unfailed DEF Stopped
<1>2. CASE pc'["main"] = pc["main"]
  <2>1. pc["main"] \in Leaving => "completed" \in closed' /\ queue'["completed"] = <<>>
    BY <1>0, StaysEmpty DEF Ending
  <2> QED BY <1>0, <1>1, <1>2, <2>1 DEF Ending
<1>3. CASE MainNext /\ pc'["main"] # pc["main"]
  <2>1. CASE pc["main"] = "create"
    <3>1. Create
      BY <1>0, <1>3, <2>1 DEF MainNext, Order, EmitDetections, EmitEncode, EmitTiming, JudgePending, Join,
         Judge, Cleanup, Reap, Close
    <3>2. pc'["main"] \in {"pop", "fail"}
      BY <1>3, <2>1, <3>1, CreateMoves
    <3>3. pc'["main"] = "pop" => \A t \in Stages : pc'[t] # "none" \/ (t = "encoder" /\ ~config'.draw)
      BY <1>0, <1>1, <2>1, <3>1, CreateMoves
    <3> QED BY <3>2, <3>3 DEF Leaving, Ordering, Emitting
  <2>2. CASE pc["main"] # "create"
    <3>0. ~Create
      BY <2>2 DEF Create
    <3>1. pc'["main"] \in Leaving => "completed" \in closed /\ queue["completed"] = <<>>
      <4>1. pc["main"] = "pop" /\ pc'["main"] \in Leaving => NoMore("completed")
        BY <1>0, <1>3 DEF MainNext, Create, Order, EmitDetections, EmitEncode, EmitTiming, JudgePending, Join,
           Judge, Cleanup, Reap, Close, Goto, Fail, control, LabelsOK, Leaving
      <4>2. pc'["main"] \in Leaving => pc["main"] = "pop" \/ pc["main"] \in Leaving
        BY <1>0, <1>3, <3>0, MainFlow DEF Leaving, Ordering, Emitting
      <4> QED BY <1>0, <4>1, <4>2 DEF NoMore, Ending
    <3>2. pc'["main"] \in Leaving => "completed" \in closed' /\ queue'["completed"] = <<>>
      BY <1>0, <3>1, StaysEmpty
    <3>3. pc'["main"] \in (Ordering \cup Leaving) \ {"create"} => pc["main"] \in (Ordering \cup Leaving) \ {"create"}
      BY <1>0, <1>3, <2>2, <3>0, MainFlow DEF Leaving, Ordering, Emitting
    <3>4. pc'["main"] \in (Ordering \cup Leaving) \ {"create"} =>
               \A t \in Stages : pc[t] # "none" \/ (t = "encoder" /\ ~config.draw)
      BY <1>0, <3>3 DEF Ending
    <3>5. ASSUME NEW S, Returned(S), NEW t \in S \cap Stages,
                 pc["main"] \in (Ordering \cup Leaving) \ {"create"}
          PROVE  Stopped(t)
      BY <1>0, <3>5 DEF Returned, Started, Stopped, Ending
    <3>6. pc'["main"] \in {"closeRecords", "joinMetadata", "cleanup"} =>
             Stopped("decoder") /\ Stopped("scheduler") /\ Stopped("encoder")
      <4>1. CASE pc["main"] = "join" /\ Join
        BY <1>0, <3>5, <4>1 DEF Join, Leaving
      <4>2. pc'["main"] \in {"closeRecords", "joinMetadata", "cleanup"} =>
               (pc["main"] = "join" /\ Join) \/ pc["main"] \in {"closeRecords", "joinMetadata", "cleanup"}
        BY <1>0, <1>3, <3>0, MainFlow DEF Ordering, Emitting
      <4> QED BY <1>0, <4>1, <4>2 DEF Ending
    <3>7. pc'["main"] = "cleanup" => Stopped("metadata")
      <4>1. pc'["main"] = "cleanup" => pc["main"] = "joinMetadata" /\ Judge
        BY <1>0, <1>3, <3>0, MainFlow DEF Ordering, Emitting
      <4> QED BY <1>0, <3>5, <4>1 DEF Judge, Leaving
    <3> QED BY <1>0, <1>1, <3>2, <3>4, <3>6, <3>7
  <2> QED BY <2>1, <2>2
<1>4. CASE ~MainNext
  <2>1. pc'["main"] = pc["main"]
    <3>1. CASE DecoderNext \/ SchedulerNext \/ EncoderNext \/ MetadataNext
      BY <3>1, DecoderFlow, SchedulerFlow, EncoderFlow, MetadataFlow DEF OnlyMoves, Keeps, Threads, Stages
    <3>2. CASE GpuNext \/ UNCHANGED vars
      BY <3>2, GpuFlow
    <3> QED BY <1>4, <3>1, <3>2, StepOf
  <2> QED BY <1>2, <2>1
<1> QED BY <1>2, <1>3, <1>4

LEMMA OutputsEnd ==
  ASSUME IInv, [Next]_vars, ~failed'
  PROVE  /\ pc'["encoder"] = "done" => "encode" \in closed' /\ queue'["encode"] = <<>>
         /\ pc'["metadata"] = "done" => "records" \in closed' /\ records' = <<>>
<1>0. /\ LabelsOK /\ Ending /\ ~failed /\ closed \subseteq closed' /\ "encode" \in SlotQueues \ {"free"}
  BY Unfailed, Onward DEF IInv, SlotQueues
<1>1. pc'["encoder"] = "done" => "encode" \in closed /\ queue["encode"] = <<>>
  <2>1. EncoderDraw /\ pc'["encoder"] = "done" => NoMore("encode")
    BY <1>0 DEF EncoderDraw, Goto, Fail, LabelsOK, Threads, Stages
  <2> QED BY <1>0, <2>1, Unfailed DEF Ending, NoMore
<1>2. pc'["metadata"] = "done" => "records" \in closed /\ records = <<>>
  BY <1>0, Unfailed DEF Ending, MetadataEnd
<1>3. "records" \in closed /\ records = <<>> => records' = <<>>
  BY RecordsMove DEF Refuses, Sends, Takes
<1> QED BY <1>0, <1>1, <1>2, <1>3, StaysEmpty

LEMMA EndingStep ==
  ASSUME IInv, [Next]_vars
  PROVE  Ending'
<1>1. pc'["decoder"] \in {"none", "pop", "read"} => MaxFrames = 0 \/ decoded' < MaxFrames
  BY DecoderEnds
<1>2. ASSUME ~failed'
      PROVE  /\ pc'["decoder"] \in {"close", "done"} => decoded' = Total'
             /\ "decoded" \in closed' => pc'["decoder"] = "done"
  BY <1>2, DecoderEnds, Onward
<1>3. ~failed' /\ pc'["scheduler"] \in {"drain", "close", "done"} => decodedClosed' /\ Occupied' = {}
  BY SchedulerEnds
<1> QED BY <1>1, <1>2, <1>3, NoEncoder, MainEnds, OutputsEnd DEF Ending
-----------------------------------------------------------------------------
(* What the encoder writes.                                                *)

(* The frame whose turn it is goes to the encoder, or away. *)
LEMMA NextStep ==
  ASSUME IInv, [Next]_vars
  PROVE  \/ next' = next
         \/ next' = next + 1 /\ Emitted /\ EmitEncode /\ pc["main"] = "emitEncode" /\ config.draw
         \/ next' = next + 1 /\ Emitted /\ EmitTiming /\ pc["main"] = "emitRecycle" /\ ~config.draw
<1>0. Ending
  BY DEF IInv
<1>1. CASE EmitEncode \/ EmitTiming
  BY <1>0, <1>1 DEF EmitEncode, EmitTiming, Enqueue, Abandon, Emitted, Ending, ordering
<1>2. CASE MainNext /\ ~(EmitEncode \/ EmitTiming)
  BY <1>2 DEF MainNext, Create, Order, EmitDetections, JudgePending, Join, Judge, Cleanup, Reap, Close,
     AsyncFail, ordering
<1>3. CASE DecoderNext \/ SchedulerNext \/ EncoderNext \/ MetadataNext
  BY <1>3, DecoderFlow, SchedulerFlow, EncoderFlow, MetadataFlow DEF ordering
<1>4. CASE GpuNext \/ UNCHANGED vars
  BY <1>4, GpuFlow
<1> QED BY <1>1, <1>2, <1>3, <1>4, StepOf

(* A slot on its way to the encoder keeps its frame. *)
LEMMA OutputKept ==
  ASSUME IInv, [Next]_vars, pc'["main"] # "done",
         NEW x \in Slots, NEW g \in Output, NEW h \in Output, x \in Held(g), x \in Held(h)'
  PROVE  frame'[x] = frame[x]
<1>0. g \in Holders /\ h \in Holders /\ NoFrame = -1 /\ next \in Nat /\ next' \in Nat
  BY Kinds, Basics, CountersStep DEF Output, SlotQueues, Threads, Stages, IInv
<1>1. pc["main"] # "done"
  BY Over, GpuFlow
<1>2. frame[x] \in 0 .. next - 1
  BY <1>0, <1>1, HeldIsGood DEF Good
<1>3. CASE Still
  BY <1>3 DEF Still
<1>4. CASE Reap
  BY <1>4 DEF Reap, Goto, IInv, LabelsOK, Threads
<1>5. ASSUME NEW a, NEW s, NEW k, NEW r, NEW j, Carries(a, s, k, r, j) PROVE frame'[x] = frame[x]
  <2>1. CASE x # s
    BY <1>5, <2>1 DEF Carries, Changes
  <2>2. CASE x = s
    <3>1. h = k
      BY <1>0, <1>5, <2>2 DEF Carries, Move
    <3>2. Good(k, s)'
      BY <1>0, <1>5, <3>1 DEF Carries, Changes
    <3>3. frame'[x] \in 0 .. next' - 1
      BY <2>2, <3>1, <3>2 DEF Good, Output
    <3>4. frame'[x] # NoFrame /\ frame[x] # NoFrame
      BY <1>0, <1>2, <3>3
    <3> QED BY <1>5, <2>2, <3>4 DEF Carries, Changes
  <2> QED BY <2>1, <2>2
<1> QED BY <1>3, <1>4, <1>5, SlotsStep

Queued(n) == /\ n + Len(queue["encode"]) = next
             /\ \A i \in 1 .. Len(queue["encode"]) : frame[queue["encode"][i]] = n + i - 1

(* The queue of the encoder keeps the frames behind those taken. *)
LEMMA QueuedStep ==
  ASSUME IInv, [Next]_vars, pc'["main"] # "done", config.draw, NEW n \in Nat, Queued(n)
  PROVE  IF EncoderDraw /\ Pop("encoder", "encode")
         THEN Queued(n + 1)' /\ frame'[hand'["encoder"]] = n /\ hand'["encoder"] \in Slots
         ELSE Queued(n)'
<1> DEFINE q == queue["encode"]
<1>0. /\ q \in Seq(Slots) /\ Len(q) \in Nat /\ next \in Nat /\ hand \in [Threads -> Slots \cup {0}]
      /\ \A i \in 1 .. Len(q) : q[i] \in Slots
      /\ "encoder" \in Threads /\ "encode" \in SlotQueues
  <2>1. q \in Seq(Slots) /\ hand \in [Threads -> Slots \cup {0}]
    BY DEF IInv, DataOK, SlotQueues
  <2>2. \A i \in 1 .. Len(q) : q[i] \in Slots
    BY <2>1, ElementOfSeq
  <2>3. Len(q) \in Nat
    BY <2>1, LenProperties
  <2> QED BY <2>1, <2>2, <2>3, Basics DEF IInv, Threads, Stages, SlotQueues
<1>1. CASE EncoderDraw /\ Pop("encoder", "encode")
  <2>1. q # <<>> /\ queue'["encode"] = Tail(q) /\ hand'["encoder"] = Head(q) /\ frame' = frame /\ next' = next
    <3>1. queue \in [SlotQueues -> Seq(Slots)]
      BY DEF IInv, DataOK
    <3> QED BY <1>0, <1>1, <3>1 DEF Pop, Popped, EncoderDraw, EncoderKeeps, ordering
  <2>2. /\ Len(Tail(q)) = Len(q) - 1 /\ Head(q) = q[1]
        /\ \A i \in 1 .. Len(q) - 1 : Tail(q)[i] = q[i + 1]
    BY <1>0, <2>1, HeadTailProperties
  <2>3. Len(q) >= 1
    BY <1>0, <2>1, EmptySeq
  <2>4. frame[q[1]] = n
    BY <1>0, <2>3 DEF Queued
  <2>5. \A i \in 1 .. Len(q) - 1 : frame[q[i + 1]] = n + i
    <3> SUFFICES ASSUME NEW i \in 1 .. Len(q) - 1 PROVE frame[q[i + 1]] = n + i
      OBVIOUS
    <3>1. i + 1 \in 1 .. Len(q)
      BY <1>0
    <3>2. frame[q[i + 1]] = n + (i + 1) - 1
      BY <3>1 DEF Queued
    <3> QED BY <3>2
  <2>6. (n + 1) + Len(Tail(q)) = next
    <3>1. n + Len(q) = next /\ Len(Tail(q)) = Len(q) - 1
      BY <2>2 DEF Queued
    <3>2. \A a, b, c \in Int : a + b = c => (a + 1) + (b - 1) = c
      OBVIOUS
    <3>3. n \in Int /\ Len(q) \in Int /\ next \in Int
      BY <1>0
    <3>4. n + Len(q) = next
      BY <3>1
    <3>5. (n + 1) + (Len(q) - 1) = next
      BY <3>2, <3>3, <3>4
    <3> QED BY <3>1, <3>5
  <2>7. \A i \in 1 .. Len(Tail(q)) : frame[Tail(q)[i]] = (n + 1) + i - 1
    BY <1>0, <2>2, <2>5
  <2>8. Queued(n + 1)'
    BY <2>1, <2>6, <2>7 DEF Queued
  <2>9. Head(q) \in Slots
    BY <1>0, <2>2, <2>3
  <2> QED BY <1>1, <2>1, <2>2, <2>4, <2>8, <2>9
<1>2. CASE /\ EmitEncode /\ HasRoom("encode") /\ Emitted
           /\ queue'["encode"] = Append(q, hand["main"])
           /\ UNCHANGED <<frame, found>>
  <2>1. hand["main"] \in Slots /\ frame[hand["main"]] = next
    BY <1>2, InMain DEF EmitEncode, Emitting
  <2>2. next' = next + 1 /\ frame' = frame
    BY <1>2 DEF Emitted
  <2>3. /\ Len(Append(q, hand["main"])) = Len(q) + 1 /\ Append(q, hand["main"])[Len(q) + 1] = hand["main"]
        /\ \A i \in 1 .. Len(q) : Append(q, hand["main"])[i] = q[i]
    BY <1>0, <2>1, AppendProperties
  <2>4. \A i \in 1 .. Len(q) + 1 : frame[Append(q, hand["main"])[i]] = n + i - 1
    BY <1>0, <2>1, <2>3 DEF Queued
  <2>5. n + (Len(q) + 1) = next + 1
    BY <1>0 DEF Queued
  <2>6. Queued(n)'
    BY <1>2, <2>2, <2>3, <2>4, <2>5 DEF Queued
  <2>7. ~(EncoderDraw /\ Pop("encoder", "encode"))
    BY <2>2, <1>0 DEF EncoderDraw, EncoderKeeps, ordering
  <2> QED BY <2>6, <2>7
<1>3. CASE queue'["encode"] = q /\ ~Pop("encoder", "encode")
  <2>1. next' = next
    <3>1. ~(EmitEncode /\ Emitted)
      <4>1. ASSUME EmitEncode, next' = next + 1 PROVE FALSE
        <5>1. queue' = Added("encode", hand["main"]) /\ hand["main"] \in Slots
          BY <1>0, <4>1, InMain DEF EmitEncode, Abandon, ordering, Emitting
        <5>2. queue'["encode"] = Append(q, hand["main"])
          BY <1>0, <5>1 DEF Added, IInv, DataOK
        <5>3. Len(Append(q, hand["main"])) = Len(q) + 1
          BY <1>0, <5>1, AppendProperties
        <5>4. Len(q) = Len(q) + 1
          BY <1>3, <5>2, <5>3
        <5> QED BY <1>0, <5>4
      <4> QED BY <4>1 DEF Emitted
    <3> QED BY <3>1, NextStep
  <2>2. \A i \in 1 .. Len(q) : frame'[q[i]] = frame[q[i]]
    <3> SUFFICES ASSUME NEW i \in 1 .. Len(q) PROVE frame'[q[i]] = frame[q[i]]
      OBVIOUS
    <3>1. q[i] \in Slots /\ q[i] \in Elements(q)
      BY <1>0 DEF Elements
    <3>2. q[i] \in Held(<<"encode", 0>>) /\ q[i] \in Held(<<"encode", 0>>)'
      BY <1>0, <1>3, <3>1, WhereIs DEF Where
    <3> QED BY <3>1, <3>2, OutputKept DEF Output
  <2> QED BY <1>3, <2>1, <2>2 DEF Queued
<1> QED BY <1>1, <1>2, <1>3, EncodeStep
(* What the encoder does to what it has written. *)
LEMMA EncoderWrites ==
  ASSUME IInv, [Next]_vars
  PROVE  \/ /\ EncoderEncode /\ pc["encoder"] = "encode" /\ hand' = hand /\ frame' = frame
            /\ encoded' = Append(encoded, frame[hand["encoder"]])
         \/ encoded' = encoded
BY OutputsStep DEF EncoderEncode, slots

(* The encoder, as long as it has skipped no frame. *)
LEMMA EncodesOn ==
  ASSUME IInv, [Next]_vars, Encodes', config.draw, pc'["main"] # "done"
  PROVE  /\ Encodes /\ Queued(Taken)
         /\ \/ /\ EncoderDraw /\ Pop("encoder", "encode")
               /\ pc["encoder"] = "pop" /\ pc'["encoder"] = "encode" /\ encoded' = encoded
            \/ /\ EncoderEncode /\ pc["encoder"] = "encode" /\ pc'["encoder"] = "measure"
               /\ hand' = hand /\ frame' = frame /\ ~Pop("encoder", "encode")
               /\ encoded' = Append(encoded, frame[hand["encoder"]])
            \/ /\ pc'["encoder"] = pc["encoder"] \/ (/\ pc["encoder"] # "encode"
                                                      /\ pc'["encoder"] \notin {"encode", "measure"})
               /\ encoded' = encoded /\ ~(EncoderDraw /\ Pop("encoder", "encode"))
               /\ hand'["encoder"] = hand["encoder"] \/ pc'["encoder"] \notin {"encode", "measure"}
<1>0. /\ LabelsOK /\ Failures /\ DataOK /\ Encoding /\ "encoder" \in Threads /\ "encoder" \in Stages
      /\ (failed => failed')
  BY Onward DEF IInv, Threads, Stages
<1>1. pc["main"] # "done"
  BY Over, GpuFlow
<1>2. CASE EncoderNext
  <2>1. CASE AsyncFail("encoder")
    <3>1. ~Encodes'
      <4>1. pc'["encoder"] = "closing" \/ pc'["encoder"] \in {"pop", "recycle"}
        BY <1>0, <2>1, FailMoves DEF Failures, Inside
      <4>2. failed'
        <5>1. pc["encoder"] = "closing" => failed
          BY <1>0 DEF Failures
        <5> QED BY <1>0, <2>1, <5>1, FailMoves DEF Inside
      <4> QED BY <4>1, <4>2 DEF Encodes
    <3> QED BY <3>1
  <2>2. CASE EncoderDraw
    <3>1. pc["encoder"] = "pop" /\ encoded' = encoded /\ failed' = failed
      BY <2>2 DEF EncoderDraw, EncoderKeeps, shared
    <3>2. CASE Pop("encoder", "encode")
      <4>1. pc'["encoder"] = "encode" /\ ~failed
        BY <1>0, <2>2, <3>1, <3>2 DEF EncoderDraw, NoMore, Pop, Goto, Fail, LabelsOK, Encodes
      <4> QED BY <1>0, <1>1, <2>2, <3>1, <3>2, <4>1 DEF Encodes, Encoding, Queued
    <3>3. CASE ~Pop("encoder", "encode")
      <4>1. pc'["encoder"] = "done" /\ hand' = hand
        BY <1>0, <2>2, <3>3 DEF EncoderDraw, Goto, LabelsOK
      <4>2. ~failed
        BY <3>1, <4>1 DEF Encodes
      <4> QED BY <1>0, <1>1, <3>1, <3>3, <4>1, <4>2 DEF Encodes, Encoding, Queued
    <3> QED BY <3>2, <3>3
  <2>3. CASE EncoderEncode
    <3>1. /\ pc["encoder"] = "encode" /\ failed' = failed /\ hand' = hand /\ frame' = frame
      BY <2>3 DEF EncoderEncode, EncoderKeeps, shared, slots
    <3>2. pc'["encoder"] = "measure" /\ encoded' = Append(encoded, frame[hand["encoder"]])
      BY <1>0, <2>3, <3>1 DEF EncoderEncode, Goto, Fail, LabelsOK, Encodes
    <3>3. ~Pop("encoder", "encode")
      <4>1. queue' = queue
        BY <2>3 DEF EncoderEncode, slots
      <4>2. hand["encoder"] # 0
        BY <3>1 DEF IInv, Holding
      <4>3. ASSUME Pop("encoder", "encode") PROVE FALSE
        <5>1. Takeover("encode") /\ queue["encode"] \in Seq(Slots)
          BY <1>0, <4>3 DEF Pop, Popped, Takeover, DataOK, SlotQueues
        <5>2. Len(Tail(queue["encode"])) = Len(queue["encode"]) - 1 /\ Len(queue["encode"]) \in Nat
          BY <5>1, HeadTailProperties, LenProperties DEF Takeover
        <5>3. Tail(queue["encode"]) = queue["encode"]
          BY <4>1, <5>1 DEF Takeover
        <5>4. Len(queue["encode"]) = Len(queue["encode"]) - 1
          BY <5>2, <5>3
        <5> QED BY <5>2, <5>4
      <4> QED BY <4>3
    <3> QED BY <1>0, <1>1, <2>3, <3>1, <3>2, <3>3 DEF Encodes, Encoding, Queued
  <2>4. CASE EncoderMeasure \/ EncoderRecycle \/ EncoderStart
    <3>1. /\ pc["encoder"] \in {"measure", "recycle", "start"} /\ encoded' = encoded /\ failed' = failed
          /\ ~EncoderDraw
      BY <2>4 DEF EncoderMeasure, EncoderRecycle, EncoderStart, EncoderDraw, EncoderKeeps, shared
    <3>2. pc'["encoder"] \in {"recycle", "pop", "done", "fail"}
      BY <1>0, <2>4 DEF EncoderMeasure, EncoderRecycle, EncoderStart, Enqueue, Goto, Fail, LabelsOK
    <3>3. ~failed
      BY <3>1, <3>2 DEF Encodes
    <3> QED BY <1>0, <1>1, <3>1, <3>2, <3>3 DEF Encodes, Encoding, Queued
  <2> QED BY <1>2, <2>1, <2>2, <2>3, <2>4 DEF EncoderNext
<1>3. CASE ~EncoderNext
  <2>1. /\ hand'["encoder"] = hand["encoder"]
        /\ pc'["encoder"] = pc["encoder"] \/ (pc["encoder"] = "none" /\ pc'["encoder"] = "start")
    <3>1. CASE DecoderNext \/ SchedulerNext \/ MetadataNext \/ (MainNext /\ ~Create)
      BY <3>1, DecoderFlow, SchedulerFlow, MetadataFlow, MainFlow DEF OnlyMoves, Keeps, Threads, Stages
    <3>2. CASE Create
      BY <1>0, <3>2, CreateMoves DEF Starts, FirstPlace
    <3>3. CASE GpuNext \/ UNCHANGED vars
      BY <3>3, GpuFlow
    <3> QED BY <1>3, <3>1, <3>2, <3>3, StepOf
  <2>2. encoded' = encoded /\ ~EncoderDraw /\ ~EncoderEncode
    BY <1>3, OutputsStep DEF EncoderNext
  <2>3. Encodes
    BY <1>0, <2>1 DEF Encodes
  <2> QED BY <1>0, <1>1, <2>1, <2>2, <2>3 DEF Encoding, Queued
<1> QED BY <1>2, <1>3

LEMMA EncodingStep ==
  ASSUME IInv, [Next]_vars
  PROVE  Encoding'
<1>0. /\ Encoding /\ Ending /\ config' = config /\ Total' = Total /\ Total \in Nat
      /\ encoded \in Seq(Nat) /\ Len(encoded) \in Nat /\ encoded' \in Seq(Nat) /\ next \in Nat /\ next <= Total
      /\ "encoder" \in Threads /\ hand \in [Threads -> Slots \cup {0}]
  <2>1. encoded \in Seq(Nat) /\ hand \in [Threads -> Slots \cup {0}]
    BY DEF IInv, DataOK
  <2>2. Len(encoded) \in Nat
    BY <2>1, LenProperties
  <2>3. next \in Nat /\ Total \in Nat /\ next <= Total
    BY Basics DEF IInv
  <2> QED BY <2>1, <2>2, <2>3, Onward, OutputsStep DEF IInv, Threads, Stages
<1>1. ASSUME pc["encoder"] = "encode"
      PROVE  /\ config.draw /\ frame[hand["encoder"]] = Len(encoded) /\ Len(encoded) < Total
             /\ Len(encoded) \in Nat
  <2>1. config.draw /\ pc["main"] # "done" /\ frame[hand["encoder"]] < next
    BY <1>0, <1>1, InEncoder DEF Ending
  <2>2. frame[hand["encoder"]] = Len(encoded)
    BY <1>0, <1>1, <2>1 DEF Encoding, Encodes
  <2> QED BY <1>0, <2>1, <2>2
<1>2. Firsts(encoded)'
  <2>1. CASE encoded' = encoded
    BY <1>0, <2>1 DEF Encoding, Firsts
  <2>2. CASE pc["encoder"] = "encode" /\ encoded' = Append(encoded, frame[hand["encoder"]])
    <3>1. /\ Len(encoded') = Len(encoded) + 1 /\ encoded'[Len(encoded) + 1] = Len(encoded)
          /\ \A i \in 1 .. Len(encoded) : encoded'[i] = encoded[i]
      BY <1>0, <1>1, <2>2, AppendProperties
    <3>2. Len(encoded) < Total /\ \A i \in 1 .. Len(encoded) : encoded[i] = i - 1
      BY <1>0, <1>1, <2>2 DEF Encoding, Firsts
    <3>3. \A i \in 1 .. Len(encoded) + 1 : encoded'[i] = i - 1
      <4> SUFFICES ASSUME NEW i \in 1 .. Len(encoded) + 1 PROVE encoded'[i] = i - 1
        OBVIOUS
      <4>1. i \in 1 .. Len(encoded) \/ i = Len(encoded) + 1
        BY <1>0
      <4> QED BY <1>0, <3>1, <3>2, <4>1
    <3> QED BY <1>0, <3>1, <3>2, <3>3 DEF Firsts
  <2> QED BY <2>1, <2>2, EncoderWrites
<1>3. Len(queue'["encode"]) <= EncodeCapacity
  <2>0. queue["encode"] \in Seq(Slots) /\ Len(queue["encode"]) \in Nat /\ EncodeCapacity \in Nat
    <3>1. queue["encode"] \in Seq(Slots)
      BY DEF IInv, DataOK, SlotQueues
    <3> QED BY <3>1, LenProperties, AsyncAssumption
  <2>1. CASE Takeover("encode")
    <3>1. Len(queue'["encode"]) = Len(queue["encode"]) - 1
      BY <2>0, <2>1, HeadTailProperties DEF Takeover
    <3> QED BY <1>0, <2>0, <3>1 DEF Encoding
  <2>2. CASE PutsIn("encode")
    <3>1. Len(queue'["encode"]) = Len(queue["encode"]) + 1 /\ Len(queue["encode"]) < EncodeCapacity
      BY <2>0, <2>2, AppendProperties DEF PutsIn, HasRoom, Capacity
    <3> QED BY <2>0, <3>1
  <2> QED BY <1>0, <2>1, <2>2, QueueStep DEF Encoding, SlotQueues
<1>4. ~config.draw => encoded' = <<>>
  BY <1>0, <1>1, EncoderWrites DEF Encoding
<1>5. ASSUME config.draw, Encodes', pc'["main"] # "done"
      PROVE  /\ Queued(Taken)'
             /\ pc'["encoder"] = "encode" => frame'[hand'["encoder"]] = Len(encoded')
             /\ pc'["encoder"] = "measure" => frame'[hand'["encoder"]] = Len(encoded') - 1
  <2>0. Queued(Taken) /\ Encodes /\ Taken \in Nat /\ pc["main"] # "done"
    BY <1>0, <1>5, EncodesOn, Over, GpuFlow DEF Taken
  <2>1. PICK n \in Nat : n = Taken
    BY <2>0
  <2>2. Queued(n)
    BY <2>0, <2>1
  <2>3. CASE /\ EncoderDraw /\ Pop("encoder", "encode")
             /\ pc["encoder"] = "pop" /\ pc'["encoder"] = "encode" /\ encoded' = encoded
    <3>1. Queued(n + 1)' /\ frame'[hand'["encoder"]] = n
      BY <1>5, <2>2, <2>3, QueuedStep
    <3>2. n = Len(encoded) /\ Taken' = n + 1
      BY <1>0, <2>1, <2>3 DEF Taken
    <3>3. Queued(Taken)'
      BY <3>1, <3>2
    <3> QED BY <2>3, <3>1, <3>2, <3>3
  <2>4. CASE /\ EncoderEncode /\ pc["encoder"] = "encode" /\ pc'["encoder"] = "measure"
             /\ hand' = hand /\ frame' = frame /\ ~Pop("encoder", "encode")
             /\ encoded' = Append(encoded, frame[hand["encoder"]])
    <3>1. Queued(n)'
      BY <1>5, <2>2, <2>4, QueuedStep
    <3>2. Len(encoded') = Len(encoded) + 1 /\ frame[hand["encoder"]] = Len(encoded)
      BY <1>0, <1>1, <2>4, AppendProperties
    <3>3. Taken' = n
      BY <1>0, <2>1, <2>4, <3>2 DEF Taken
    <3>4. Queued(Taken)'
      BY <3>1, <3>3
    <3> QED BY <1>0, <2>4, <3>2, <3>4
  <2>5. CASE /\ pc'["encoder"] = pc["encoder"] \/ (/\ pc["encoder"] # "encode"
                                                   /\ pc'["encoder"] \notin {"encode", "measure"})
             /\ encoded' = encoded /\ ~(EncoderDraw /\ Pop("encoder", "encode"))
             /\ hand'["encoder"] = hand["encoder"] \/ pc'["encoder"] \notin {"encode", "measure"}
    <3>1. Queued(n)'
      BY <1>5, <2>2, <2>5, QueuedStep
    <3>2. Taken' = n
      BY <1>0, <2>1, <2>5 DEF Taken
    <3>3. Queued(Taken)'
      BY <3>1, <3>2
    <3>4. ASSUME pc'["encoder"] \in {"encode", "measure"}
          PROVE  frame'[hand'["encoder"]] = frame[hand["encoder"]] /\ pc'["encoder"] = pc["encoder"]
      <4>1. pc'["encoder"] = pc["encoder"] /\ hand'["encoder"] = hand["encoder"]
        BY <2>5, <3>4
      <4>2. PICK x \in Slots : x = hand["encoder"]
        BY <3>4, <4>1, InEncoder
      <4>3. x \in Held(<<"encoder", 0>>) /\ x \in Held(<<"encoder", 0>>)'
        BY <1>0, <4>1, <4>2, WhereIs DEF Where
      <4> QED BY <1>5, <4>1, <4>2, <4>3, OutputKept DEF Output
    <3> QED BY <1>0, <1>5, <2>0, <2>5, <3>3, <3>4 DEF Encoding
  <2> QED BY <1>5, <2>3, <2>4, <2>5, EncodesOn
<1> QED BY <1>0, <1>2, <1>3, <1>4, <1>5 DEF Encoding, Queued
-----------------------------------------------------------------------------
(* The records on their way.                                               *)

LEMMA SentSame ==
  ASSUME NEW recs \in Seq(RecordTypes), NEW kind, NEW n \in Nat, NEW m \in Nat, NEW r \in RecordTypes,
         Sent(recs, kind, n, m), r = Record(kind, m)
  PROVE  Sent(Append(recs, r), kind, n, m + 1)
<1> DEFINE a == Append(recs, r)
<1>1. /\ Len(recs) \in Nat /\ Len(a) = Len(recs) + 1 /\ a[Len(recs) + 1] = r
      /\ \A i \in 1 .. Len(recs) : a[i] = recs[i]
      /\ \A i \in 1 .. Len(recs) + 1 : i \in 1 .. Len(recs) \/ i = Len(recs) + 1
  BY AppendProperties, LenProperties
<1>2. r.kind = kind /\ r.frame = m
  BY DEF Record
<1> HIDE DEF a
<1>3. /\ n <= m
      /\ \A i \in 1 .. Len(recs) : recs[i].kind = kind => recs[i].frame \in n .. m - 1
      /\ \A i, j \in 1 .. Len(recs) :
            i < j /\ recs[i].kind = kind /\ recs[j].kind = kind => recs[i].frame < recs[j].frame
      /\ \A f \in n .. m - 1 : \E i \in 1 .. Len(recs) : recs[i] = Record(kind, f)
  BY DEF Sent
<1>4. \A i \in 1 .. Len(a) : a[i].kind = kind => a[i].frame \in n .. m
  <2> SUFFICES ASSUME NEW i \in 1 .. Len(a), a[i].kind = kind PROVE a[i].frame \in n .. m
    OBVIOUS
  <2>1. CASE i \in 1 .. Len(recs)
    <3>1. a[i] = recs[i]
      BY <1>1, <2>1
    <3> QED BY <1>3, <2>1, <3>1
  <2>2. CASE i = Len(recs) + 1
    <3>1. a[i] = r
      BY <1>1, <2>2
    <3> QED BY <1>2, <1>3, <3>1
  <2> QED BY <1>1, <2>1, <2>2
<1>5. ASSUME NEW i \in 1 .. Len(a), NEW j \in 1 .. Len(a), i < j, a[i].kind = kind, a[j].kind = kind
      PROVE  a[i].frame < a[j].frame
  <2>1. i \in 1 .. Len(recs) /\ a[i] = recs[i]
    <3>1. i \in 1 .. Len(recs)
      BY <1>1, <1>5
    <3> QED BY <1>1, <3>1
  <2>2. CASE j \in 1 .. Len(recs)
    <3>1. a[j] = recs[j]
      BY <1>1, <2>2
    <3> QED BY <1>3, <1>5, <2>1, <2>2, <3>1
  <2>3. CASE j = Len(recs) + 1
    <3>1. a[j].frame = m
      BY <1>1, <1>2, <2>3
    <3>2. a[i].frame \in n .. m - 1
      BY <1>3, <1>5, <2>1
    <3> QED BY <3>1, <3>2
  <2> QED BY <1>1, <2>2, <2>3
<1>6. ASSUME NEW f \in n .. m PROVE \E i \in 1 .. Len(a) : a[i] = Record(kind, f)
  <2>1. CASE f = m
    <3>1. Len(recs) + 1 \in 1 .. Len(a)
      BY <1>1
    <3> QED BY <1>1, <2>1, <3>1
  <2>2. CASE f # m
    <3>1. PICK i \in 1 .. Len(recs) : recs[i] = Record(kind, f)
      BY <1>3, <2>2
    <3>2. i \in 1 .. Len(a) /\ a[i] = Record(kind, f)
      BY <1>1, <3>1
    <3> QED BY <3>2
  <2> QED BY <2>1, <2>2
<1>7. n <= m + 1 /\ (m + 1) - 1 = m
  BY <1>3
<1>8. Sent(a, kind, n, m + 1)
  BY <1>4, <1>5, <1>6, <1>7 DEF Sent
<1> QED BY <1>8 DEF a

LEMMA SentOther ==
  ASSUME NEW recs \in Seq(RecordTypes), NEW kind, NEW n \in Nat, NEW m \in Nat, NEW r \in RecordTypes,
         Sent(recs, kind, n, m), r.kind # kind
  PROVE  Sent(Append(recs, r), kind, n, m)
<1> DEFINE a == Append(recs, r)
<1>1. /\ Len(recs) \in Nat /\ Len(a) = Len(recs) + 1 /\ a[Len(recs) + 1] = r
      /\ \A i \in 1 .. Len(recs) : a[i] = recs[i]
      /\ \A i \in 1 .. Len(recs) + 1 : i \in 1 .. Len(recs) \/ i = Len(recs) + 1
  BY AppendProperties, LenProperties
<1> HIDE DEF a
<1>2. \A i \in 1 .. Len(a) : a[i].kind = kind => i \in 1 .. Len(recs) /\ a[i] = recs[i]
  BY <1>1
<1>3. \A i \in 1 .. Len(recs) : i \in 1 .. Len(a) /\ a[i] = recs[i]
  BY <1>1
<1>4. Sent(a, kind, n, m)
  BY <1>2, <1>3 DEF Sent
<1> QED BY <1>4 DEF a

(* What the metadata thread takes from the records. *)
LEMMA TailIs ==
  ASSUME NEW recs \in Seq(RecordTypes), recs # <<>>
  PROVE  /\ Len(recs) \in Nat /\ Len(recs) >= 1 /\ Tail(recs) \in Seq(RecordTypes)
         /\ Len(Tail(recs)) = Len(recs) - 1
         /\ Head(recs) = recs[1] /\ Head(recs) \in RecordTypes
         /\ \A i \in 1 .. Len(Tail(recs)) : i + 1 \in 1 .. Len(recs) /\ Tail(recs)[i] = recs[i + 1]
         /\ \A i \in 1 .. Len(recs) : i # 1 => i - 1 \in 1 .. Len(Tail(recs)) /\ Tail(recs)[i - 1] = recs[i]
<1>1. Len(recs) \in Nat /\ Len(recs) >= 1
  BY LenProperties, EmptySeq
<1>2. /\ Tail(recs) \in Seq(RecordTypes) /\ Len(Tail(recs)) = Len(recs) - 1
      /\ Head(recs) = recs[1] /\ Head(recs) \in RecordTypes
      /\ \A i \in 1 .. Len(recs) - 1 : Tail(recs)[i] = recs[i + 1]
  BY HeadTailProperties
<1>3. \A i \in 1 .. Len(recs) - 1 : i + 1 \in 1 .. Len(recs)
  BY <1>1
<1>4. ASSUME NEW i \in 1 .. Len(recs), i # 1
      PROVE  i - 1 \in 1 .. Len(recs) - 1 /\ Tail(recs)[i - 1] = recs[i]
  <2>1. i - 1 \in 1 .. Len(recs) - 1 /\ (i - 1) + 1 = i
    BY <1>1, <1>4
  <2> QED BY <1>2, <2>1
<1> QED BY <1>1, <1>2, <1>3, <1>4

LEMMA TakenSame ==
  ASSUME NEW recs \in Seq(RecordTypes), NEW n \in Nat, NEW m \in Nat, recs # <<>>,
         Sent(recs, Head(recs).kind, n, m)
  PROVE  Head(recs).frame = n /\ n < m /\ Sent(Tail(recs), Head(recs).kind, n + 1, m)
<1> PICK t : t = Tail(recs)
  OBVIOUS
<1> PICK kind : kind = Head(recs).kind
  OBVIOUS
<1>1. /\ Len(recs) \in Nat /\ Len(recs) >= 1 /\ t \in Seq(RecordTypes) /\ Len(t) = Len(recs) - 1
      /\ recs[1].kind = kind /\ Head(recs) = recs[1]
      /\ \A i \in 1 .. Len(t) : i + 1 \in 1 .. Len(recs) /\ t[i] = recs[i + 1]
      /\ \A i \in 1 .. Len(recs) : i # 1 => i - 1 \in 1 .. Len(t) /\ t[i - 1] = recs[i]
  BY TailIs
<1>2. /\ n <= m
      /\ \A i \in 1 .. Len(recs) : recs[i].kind = kind => recs[i].frame \in n .. m - 1
      /\ \A i, j \in 1 .. Len(recs) :
            i < j /\ recs[i].kind = kind /\ recs[j].kind = kind => recs[i].frame < recs[j].frame
      /\ \A f \in n .. m - 1 : \E i \in 1 .. Len(recs) : recs[i] = Record(kind, f)
  BY DEF Sent
<1>3. 1 \in 1 .. Len(recs) /\ recs[1].frame \in n .. m - 1
  BY <1>1, <1>2
<1>4. n < m /\ n \in n .. m - 1
  BY <1>3
<1>5. recs[1].frame = n
  <2>1. PICK i \in 1 .. Len(recs) : recs[i] = Record(kind, n)
    BY <1>2, <1>4
  <2>2. recs[i].kind = kind /\ recs[i].frame = n
    BY <2>1 DEF Record
  <2>3. CASE i = 1
    BY <2>2, <2>3
  <2>4. CASE i # 1
    <3>1. recs[1].frame < n
      BY <1>1, <1>2, <1>3, <2>2, <2>4
    <3> QED BY <1>3, <3>1
  <2> QED BY <2>3, <2>4
<1>6. ASSUME NEW i \in 1 .. Len(t), t[i].kind = kind PROVE t[i].frame \in n + 1 .. m - 1
  <2>1. i + 1 \in 1 .. Len(recs) /\ t[i] = recs[i + 1] /\ 1 < i + 1
    BY <1>1
  <2>2. t[i].frame \in n .. m - 1 /\ recs[1].frame < t[i].frame
    BY <1>1, <1>2, <1>3, <1>6, <2>1
  <2> QED BY <1>5, <2>2
<1>7. ASSUME NEW i \in 1 .. Len(t), NEW j \in 1 .. Len(t), i < j, t[i].kind = kind, t[j].kind = kind
      PROVE  t[i].frame < t[j].frame
  <2>1. /\ i + 1 \in 1 .. Len(recs) /\ t[i] = recs[i + 1] /\ j + 1 \in 1 .. Len(recs) /\ t[j] = recs[j + 1]
        /\ i + 1 < j + 1
    BY <1>1, <1>7
  <2> QED BY <1>2, <1>7, <2>1
<1>8. ASSUME NEW f \in n + 1 .. m - 1 PROVE \E i \in 1 .. Len(t) : t[i] = Record(kind, f)
  <2>1. f \in n .. m - 1 /\ f # n
    BY <1>8
  <2>2. PICK i \in 1 .. Len(recs) : recs[i] = Record(kind, f)
    BY <1>2, <2>1
  <2>3. i # 1
    <3>1. recs[i].frame = f
      BY <2>2 DEF Record
    <3> QED BY <1>5, <2>1, <3>1
  <2>4. i - 1 \in 1 .. Len(t) /\ t[i - 1] = Record(kind, f)
    BY <1>1, <2>2, <2>3
  <2> QED BY <2>4
<1>9. Sent(t, kind, n + 1, m)
  BY <1>4, <1>6, <1>7, <1>8 DEF Sent
<1> QED BY <1>1, <1>4, <1>5, <1>9

LEMMA TakenOther ==
  ASSUME NEW recs \in Seq(RecordTypes), NEW kind, NEW n \in Nat, NEW m \in Nat, recs # <<>>,
         Sent(recs, kind, n, m), Head(recs).kind # kind
  PROVE  Sent(Tail(recs), kind, n, m)
<1> PICK t : t = Tail(recs)
  OBVIOUS
<1>1. /\ Len(recs) \in Nat /\ Len(recs) >= 1 /\ t \in Seq(RecordTypes) /\ Len(t) = Len(recs) - 1
      /\ recs[1].kind # kind
      /\ \A i \in 1 .. Len(t) : i + 1 \in 1 .. Len(recs) /\ t[i] = recs[i + 1]
      /\ \A i \in 1 .. Len(recs) : i # 1 => i - 1 \in 1 .. Len(t) /\ t[i - 1] = recs[i]
  BY TailIs
<1>2. /\ n <= m
      /\ \A i \in 1 .. Len(recs) : recs[i].kind = kind => recs[i].frame \in n .. m - 1
      /\ \A i, j \in 1 .. Len(recs) :
            i < j /\ recs[i].kind = kind /\ recs[j].kind = kind => recs[i].frame < recs[j].frame
      /\ \A f \in n .. m - 1 : \E i \in 1 .. Len(recs) : recs[i] = Record(kind, f)
  BY DEF Sent
<1>3. \A i \in 1 .. Len(t) : t[i].kind = kind => t[i].frame \in n .. m - 1
  BY <1>1, <1>2
<1>4. ASSUME NEW i \in 1 .. Len(t), NEW j \in 1 .. Len(t), i < j, t[i].kind = kind, t[j].kind = kind
      PROVE  t[i].frame < t[j].frame
  <2>1. /\ i + 1 \in 1 .. Len(recs) /\ t[i] = recs[i + 1] /\ j + 1 \in 1 .. Len(recs) /\ t[j] = recs[j + 1]
        /\ i + 1 < j + 1
    BY <1>1, <1>4
  <2> QED BY <1>2, <1>4, <2>1
<1>5. ASSUME NEW f \in n .. m - 1 PROVE \E i \in 1 .. Len(t) : t[i] = Record(kind, f)
  <2>1. PICK i \in 1 .. Len(recs) : recs[i] = Record(kind, f)
    BY <1>2
  <2>2. i # 1
    <3>1. recs[i].kind = kind
      BY <2>1 DEF Record
    <3> QED BY <1>1, <3>1
  <2>3. i - 1 \in 1 .. Len(t) /\ t[i - 1] = Record(kind, f)
    BY <1>1, <2>1, <2>2
  <2> QED BY <2>3
<1>6. Sent(t, kind, n, m)
  BY <1>2, <1>3, <1>4, <1>5 DEF Sent
<1> QED BY <1>6

(* No records are left: all that was sent is written. *)
LEMMA SentAll ==
  ASSUME NEW kind, NEW n \in Nat, NEW m \in Nat, Sent(<<>>, kind, n, m)
  PROVE  n = m
<1>1. Len(<<>>) = 0
  BY EmptySeq
<1>2. n <= m /\ \A f \in n .. m - 1 : \E i \in 1 .. Len(<<>>) : <<>>[i] = Record(kind, f)
  BY DEF Sent
<1>3. n \notin n .. m - 1
  BY <1>1, <1>2
<1> QED BY <1>2, <1>3
Written(kind) == IF kind = "detections" THEN Len(rows) ELSE Len(measured)
SendsDetections == EmitDetections /\ Sends(Record("detections", next)) /\ pc'["main"] # "fail"
SendsTiming ==
    \/ EmitTiming /\ Sends(Record("timing", next)) /\ pc'["main"] # "fail"
    \/ EncoderMeasure /\ Sends(Record("timing", frame[hand["encoder"]])) /\ pc'["encoder"] # "fail"
Writes == /\ MetadataWrite /\ records # <<>> /\ records' = Tail(records)
          /\ IF Head(records).kind = "detections"
             THEN rows' = Append(rows, Head(records).frame) /\ measured' = measured
             ELSE measured' = Append(measured, Head(records).frame) /\ rows' = rows

(* What the metadata thread has done, when it has skipped no record. *)
LEMMA RecordsOn ==
  ASSUME IInv, [Next]_vars, Records'
  PROVE  Records /\ (Writes \/ (~MetadataWrite /\ rows' = rows /\ measured' = measured))
<1>0. /\ LabelsOK /\ Failures /\ DataOK /\ "metadata" \in Threads /\ "metadata" \in Stages
      /\ (failed => failed')
  BY Onward DEF IInv, Threads, Stages
<1>1. CASE MetadataNext
  <2>1. CASE AsyncFail("metadata")
    <3>1. ~Records'
      <4>1. pc'["metadata"] = "closing" \/ (pc'["metadata"] = "done" /\ failed)
        BY <1>0, <2>1, FailMoves DEF Failures, Inside
      <4> QED BY <1>0, <4>1 DEF Records
    <3> QED BY <3>1
  <2>2. CASE MetadataWrite
    <3>1. pc["metadata"] = "pop" /\ failed' = failed
      BY <2>2 DEF MetadataWrite, MetadataKeeps, shared
    <3>2. ~failed /\ pc'["metadata"] # "fail"
      BY <1>0, <2>2, <3>1 DEF MetadataWrite, Records, Goto, Fail, LabelsOK
    <3>3. Writes
      BY <1>0, <2>2, <3>2 DEF MetadataWrite, Writes, Fail, LabelsOK
    <3> QED BY <3>1, <3>3 DEF Records
  <2>3. CASE MetadataEnd /\ ~MetadataWrite
    BY <2>3 DEF MetadataEnd, Records
  <2> QED BY <1>1, <2>1, <2>2, <2>3 DEF MetadataNext
<1>2. CASE ~MetadataNext
  <2>1. pc'["metadata"] = pc["metadata"] \/ pc["metadata"] = "none"
    <3>1. CASE DecoderNext \/ SchedulerNext \/ EncoderNext \/ (MainNext /\ ~Create)
      BY <3>1, DecoderFlow, SchedulerFlow, EncoderFlow, MainFlow DEF OnlyMoves, Keeps, Threads, Stages
    <3>2. CASE Create
      BY <1>0, <3>2, CreateMoves DEF Starts
    <3>3. CASE GpuNext \/ UNCHANGED vars
      BY <3>3, GpuFlow
    <3> QED BY <1>2, <3>1, <3>2, <3>3, StepOf
  <2>2. rows' = rows /\ measured' = measured /\ ~MetadataWrite
    BY <1>2, OutputsStep DEF MetadataNext
  <2> QED BY <1>0, <2>1, <2>2 DEF Records
<1> QED BY <1>1, <1>2

LEMMA WrittenIs ==
  ASSUME IInv
  PROVE  /\ records \in Seq(RecordTypes) /\ rows \in Seq(Nat) /\ measured \in Seq(Nat)
         /\ Len(rows) \in Nat /\ Len(measured) \in Nat /\ Len(encoded) \in Nat
         /\ Total \in Nat /\ next \in Nat /\ next <= Total
         /\ EmitDetections \/ EmitTiming => next < Total
<1>1. /\ records \in Seq(RecordTypes) /\ rows \in Seq(Nat) /\ measured \in Seq(Nat) /\ encoded \in Seq(Nat)
  BY DEF IInv, DataOK, RecordTypes
<1>2. Len(rows) \in Nat /\ Len(measured) \in Nat /\ Len(encoded) \in Nat
  BY <1>1, LenProperties
<1>3. Total \in Nat /\ next \in Nat /\ decoded \in Nat /\ decoded <= Total /\ next <= decoded
  BY Basics DEF IInv
<1>4. EmitDetections \/ EmitTiming => next < decoded
  BY InMain DEF EmitDetections, EmitTiming, Emitting
<1> QED BY <1>1, <1>2, <1>3, <1>4

(* A record that is sent comes behind those on their way, one that is       *)
(* written is the first of them.                                            *)
LEMMA DetectionsRecords ==
  ASSUME IInv, [Next]_vars, Records', NEW m \in Nat, Sent(records, "detections", Len(rows), m)
  PROVE  IF SendsDetections THEN m = next => Sent(records', "detections", Len(rows'), m + 1)
         ELSE Sent(records', "detections", Len(rows'), m)
<1>0. records \in Seq(RecordTypes) /\ rows \in Seq(Nat) /\ Len(rows) \in Nat /\ next \in Nat
  BY WrittenIs
<1>1. CASE SendsDetections
  <2>1. rows' = rows /\ records' = Append(records, Record("detections", next))
    BY <1>1 DEF SendsDetections, Sends, EmitDetections, MainKeeps, output
  <2>2. next \in Frames
    BY <1>1, InMain DEF SendsDetections, EmitDetections, Emitting
  <2>3. ASSUME m = next PROVE Sent(Append(records, Record("detections", m)), "detections", Len(rows), m + 1)
    <3>1. Record("detections", m) \in RecordTypes
      BY <2>2, <2>3 DEF RecordTypes, Record
    <3> QED BY <1>0, <3>1, SentSame
  <2> QED BY <1>1, <2>1, <2>3
<1>2. CASE ~SendsDetections
  <2>1. CASE Writes
    <3>1. CASE Head(records).kind = "detections"
      <4>1. Head(records).frame = Len(rows) /\ Sent(Tail(records), "detections", Len(rows) + 1, m)
        BY <1>0, <2>1, <3>1, TakenSame DEF Writes
      <4>2. Len(rows') = Len(rows) + 1
        BY <1>0, <2>1, <3>1, <4>1, AppendProperties DEF Writes
      <4> QED BY <1>2, <2>1, <4>1, <4>2 DEF Writes
    <3>2. CASE Head(records).kind # "detections"
      <4>1. Sent(Tail(records), "detections", Len(rows), m)
        BY <1>0, <2>1, <3>2, TakenOther DEF Writes
      <4> QED BY <1>2, <2>1, <3>2, <4>1 DEF Writes
    <3> QED BY <3>1, <3>2
  <2>2. CASE ~MetadataWrite /\ rows' = rows /\ measured' = measured
    <3>1. CASE Refuses
      BY <1>2, <2>2, <3>1 DEF Refuses
    <3>2. ASSUME NEW f \in Frames, records' = Append(records, Record("timing", f))
          PROVE  Sent(records', "detections", Len(rows'), m)
      <4>1. Record("timing", f) \in RecordTypes /\ Record("timing", f).kind # "detections"
        BY DEF RecordTypes, Record
      <4> QED BY <1>0, <2>2, <3>2, <4>1, SentOther
    <3>3. CASE EmitTiming /\ Sends(Record("timing", next))
      BY <1>2, <3>2, <3>3, InMain DEF Sends, EmitTiming, Emitting
    <3>4. CASE EncoderMeasure /\ Sends(Record("timing", frame[hand["encoder"]]))
      BY <1>2, <3>2, <3>4, InEncoder DEF Sends, EncoderMeasure
    <3> QED BY <1>2, <2>2, <3>1, <3>3, <3>4, RecordsMove DEF Takes, SendsDetections
  <2> QED BY <2>1, <2>2, RecordsOn
<1> QED BY <1>1, <1>2
LEMMA TimingRecords ==
  ASSUME IInv, [Next]_vars, Records', NEW m \in Nat, Sent(records, "timing", Len(measured), m)
  PROVE  /\ SendsTiming /\ ~config.draw /\ m = next => Sent(records', "timing", Len(measured'), m + 1)
         /\ SendsTiming /\ config.draw /\ m = frame[hand["encoder"]] =>
               Sent(records', "timing", Len(measured'), m + 1)
         /\ ~SendsTiming => Sent(records', "timing", Len(measured'), m)
<1>0. /\ records \in Seq(RecordTypes) /\ measured \in Seq(Nat) /\ Len(measured) \in Nat /\ next \in Nat
      /\ Ending
  BY WrittenIs DEF IInv
<1>1. ASSUME NEW f \in Frames, m = f, records' = Append(records, Record("timing", f)), measured' = measured
      PROVE  Sent(records', "timing", Len(measured'), m + 1)
  <2>1. Record("timing", f) \in RecordTypes
    BY DEF RecordTypes, Record
  <2>2. Sent(Append(records, Record("timing", f)), "timing", Len(measured), m + 1)
    BY <1>0, <1>1, <2>1, SentSame
  <2> QED BY <1>1, <2>2
<1>2. CASE EmitTiming /\ Sends(Record("timing", next)) /\ pc'["main"] # "fail"
  <2>1. measured' = measured /\ next \in Frames /\ ~config.draw
    BY <1>0, <1>2, InMain DEF EmitTiming, MainKeeps, output, Emitting, Ending
  <2> QED BY <1>1, <1>2, <2>1 DEF Sends, SendsTiming
<1>3. CASE EncoderMeasure /\ Sends(Record("timing", frame[hand["encoder"]])) /\ pc'["encoder"] # "fail"
  <2>1. measured' = measured /\ frame[hand["encoder"]] \in Frames /\ config.draw
    BY <1>0, <1>3, InEncoder DEF EncoderMeasure, EncoderKeeps, Ending
  <2> QED BY <1>1, <1>3, <2>1 DEF Sends, SendsTiming
<1>4. CASE ~SendsTiming
  <2>1. CASE Writes
    <3>1. CASE Head(records).kind = "timing"
      <4>1. Head(records).frame = Len(measured) /\ Sent(Tail(records), "timing", Len(measured) + 1, m)
        BY <1>0, <2>1, <3>1, TakenSame DEF Writes
      <4>2. Len(measured') = Len(measured) + 1
        BY <1>0, <2>1, <3>1, <4>1, AppendProperties DEF Writes
      <4> QED BY <1>4, <2>1, <4>1, <4>2 DEF Writes
    <3>2. CASE Head(records).kind # "timing"
      <4>1. Sent(Tail(records), "timing", Len(measured), m)
        BY <1>0, <2>1, <3>2, TakenOther DEF Writes
      <4>2. Head(records).kind = "detections"
        <5>1. Head(records) \in RecordTypes
          BY <1>0, <2>1, TailIs DEF Writes
        <5> QED BY <3>2, <5>1 DEF RecordTypes
      <4> QED BY <1>4, <2>1, <4>1, <4>2 DEF Writes
    <3> QED BY <3>1, <3>2
  <2>2. CASE ~MetadataWrite /\ rows' = rows /\ measured' = measured
    <3>1. CASE Refuses
      BY <1>4, <2>2, <3>1 DEF Refuses
    <3>2. CASE EmitDetections /\ Sends(Record("detections", next))
      <4>1. next \in Frames
        BY <3>2, InMain DEF EmitDetections, Emitting
      <4>2. Record("detections", next) \in RecordTypes /\ Record("detections", next).kind # "timing"
        BY <4>1 DEF RecordTypes, Record
      <4>3. Sent(Append(records, Record("detections", next)), "timing", Len(measured), m)
        BY <1>0, <4>2, SentOther
      <4> QED BY <1>4, <2>2, <3>2, <4>3 DEF Sends
    <3> QED BY <1>4, <2>2, <3>1, <3>2, RecordsMove DEF Takes, SendsTiming
  <2> QED BY <2>1, <2>2, RecordsOn
<1> QED BY <1>2, <1>3, <1>4 DEF SendsTiming

(* The files grow by one frame, the next. *)
LEMMA FirstsAppend ==
  ASSUME NEW out \in Seq(Nat), Firsts(out), Total \in Nat, Len(out) < Total
  PROVE  Firsts(Append(out, Len(out)))
<1> PICK a : a = Append(out, Len(out))
  OBVIOUS
<1>1. Len(out) \in Nat
  BY LenProperties
<1>2. /\ Len(a) = Len(out) + 1 /\ a[Len(out) + 1] = Len(out)
      /\ \A i \in 1 .. Len(out) : a[i] = out[i]
  BY <1>1, AppendProperties
<1>3. \A i \in 1 .. Len(out) + 1 : a[i] = i - 1
  <2> SUFFICES ASSUME NEW i \in 1 .. Len(out) + 1 PROVE a[i] = i - 1
    OBVIOUS
  <2>1. i \in 1 .. Len(out) \/ i = Len(out) + 1
    BY <1>1
  <2> QED BY <1>1, <1>2, <2>1 DEF Firsts
<1>4. Firsts(a)
  BY <1>1, <1>2, <1>3 DEF Firsts
<1> QED BY <1>4

LEMMA FilesStep ==
  ASSUME IInv, [Next]_vars
  PROVE  Firsts(rows)' /\ Firsts(measured)'
<1>0. /\ Recording /\ Firsts(rows) /\ Firsts(measured) /\ Total' = Total /\ Total \in Nat
      /\ records \in Seq(RecordTypes) /\ rows \in Seq(Nat) /\ measured \in Seq(Nat)
      /\ Len(rows) \in Nat /\ Len(measured) \in Nat
  <2>1. Firsts(rows) /\ Firsts(measured)
    BY DEF IInv, Recording
  <2> QED BY <2>1, WrittenIs, Onward DEF IInv
<1>1. CASE ~MetadataWrite
  <2>1. rows' = rows /\ measured' = measured
    <3>1. CASE MetadataNext
      BY <1>1, <3>1 DEF MetadataNext, MetadataEnd, AsyncFail, output
    <3>2. CASE ~MetadataNext
      BY <3>2, OutputsStep
    <3> QED BY <3>1, <3>2
  <2> QED BY <1>0, <2>1 DEF Recording, Firsts
<1>2. CASE MetadataWrite
  <2>1. Records /\ records # <<>>
    BY <1>2 DEF MetadataWrite, Records
  <2>2. Firsts(rows')
    <3>1. CASE Head(records).kind = "detections"
      <4>1. PICK m \in 0 .. Total : Sent(records, "detections", Len(rows), m)
        BY <1>0, <2>1 DEF Recording
      <4>2. Head(records).frame = Len(rows) /\ Len(rows) < m
        BY <1>0, <2>1, <3>1, <4>1, TakenSame
      <4>3. rows' = rows \/ rows' = Append(rows, Len(rows))
        BY <1>2, <4>2 DEF MetadataWrite
      <4>4. Len(rows) < Total
        BY <1>0, <4>1, <4>2
      <4>5. Firsts(Append(rows, Len(rows)))
        BY <1>0, <4>4, FirstsAppend
      <4>6. CASE rows' = rows
        BY <1>0, <4>6
      <4>7. CASE rows' = Append(rows, Len(rows))
        BY <4>5, <4>7
      <4> QED BY <4>3, <4>6, <4>7
    <3>2. CASE Head(records).kind # "detections"
      <4>1. rows' = rows
        BY <1>2, <3>2 DEF MetadataWrite
      <4> QED BY <1>0, <4>1 DEF Recording
    <3> QED BY <3>1, <3>2
  <2>3. Firsts(measured')
    <3>1. CASE Head(records).kind = "timing"
      <4>1. PICK m \in 0 .. Total : Sent(records, "timing", Len(measured), m)
        BY <1>0, <2>1 DEF Recording
      <4>2. Head(records).frame = Len(measured) /\ Len(measured) < m
        BY <1>0, <2>1, <3>1, <4>1, TakenSame
      <4>3. measured' = measured \/ measured' = Append(measured, Len(measured))
        BY <1>2, <3>1, <4>2 DEF MetadataWrite
      <4>4. Len(measured) < Total
        BY <1>0, <4>1, <4>2
      <4>5. Firsts(Append(measured, Len(measured)))
        BY <1>0, <4>4, FirstsAppend
      <4>6. CASE measured' = measured
        BY <1>0, <4>6
      <4>7. CASE measured' = Append(measured, Len(measured))
        BY <4>5, <4>7
      <4> QED BY <4>3, <4>6, <4>7
    <3>2. CASE Head(records).kind # "timing"
      <4>1. Head(records) \in RecordTypes
        BY <1>0, <2>1, TailIs
      <4>2. measured' = measured
        BY <1>2, <3>2, <4>1 DEF MetadataWrite, RecordTypes
      <4> QED BY <1>0, <4>2 DEF Recording
    <3> QED BY <3>1, <3>2
  <2> QED BY <1>0, <2>2, <2>3 DEF Firsts
<1> QED BY <1>1, <1>2

(* Where the main thread is in the turn of a frame. *)
LEMMA Turns ==
  ASSUME IInv, [Next]_vars
  PROVE  \/ /\ next' = next /\ ~SendsDetections /\ ~(EmitTiming /\ SendsTiming)
            /\ \/ pc'["main"] = pc["main"]
               \/ pc["main"] = "create" /\ pc'["main"] = "pop"
               \/ pc["main"] = "pop" /\ pc'["main"] \in {"emit", "judgePending"}
               \/ pc["main"] \in Leaving /\ pc'["main"] \in Leaving
               \/ pc'["main"] \in {"fail", "closing", "reap", "done"}
               \/ pc'["main"] \in Leaving /\ failed'
         \/ /\ next' = next /\ SendsDetections /\ ~(EmitTiming /\ SendsTiming) /\ pc["main"] = "emit"
            /\ pc'["main"] = IF config.draw THEN "emitEncode" ELSE "emitTiming"
         \/ /\ next' = next /\ ~SendsDetections /\ EmitTiming /\ SendsTiming
            /\ pc["main"] = "emitTiming" /\ pc'["main"] = "emitRecycle"
         \/ /\ next' = next + 1 /\ ~SendsDetections /\ ~(EmitTiming /\ SendsTiming)
            /\ pc["main"] = IF config.draw THEN "emitEncode" ELSE "emitRecycle"
            /\ pc'["main"] \in {"pop", "emit"}
<1>0. /\ LabelsOK /\ Failures /\ DataOK /\ Ending /\ "main" \in Threads
      /\ (failed => failed')
  BY Onward DEF IInv, Threads
<1>1. CASE EmitDetections
  <2>1. pc["main"] = "emit" /\ next' = next /\ ~EmitTiming
    BY <1>1 DEF EmitDetections, EmitTiming, ordering
  <2>2. pc'["main"] = "fail" \/ (/\ pc'["main"] = IF config.draw THEN "emitEncode" ELSE "emitTiming"
                                 /\ freeRecords > 0 /\ "records" \notin closed
                                 /\ freeRecords' = freeRecords - 1
                                 /\ records' = Append(records, Record("detections", found[hand["main"]])))
    BY <1>0, <1>1 DEF EmitDetections, Enqueue, Goto, Fail, LabelsOK
  <2>3. found[hand["main"]] = next
    BY <2>1, InMain DEF Emitting
  <2>4. pc'["main"] = "fail" \/ SendsDetections
    BY <1>1, <2>2, <2>3 DEF SendsDetections, Sends
  <2>5. pc'["main"] = "fail" => ~SendsDetections
    BY DEF SendsDetections
  <2> QED BY <2>1, <2>2, <2>4, <2>5
<1>2. CASE EmitTiming /\ pc["main"] = "emitTiming"
  <2>1. ~SendsDetections
    BY <1>2 DEF SendsDetections, EmitDetections
  <2>2. \/ pc'["main"] = "fail" /\ next' = next
        \/ /\ pc'["main"] = "emitRecycle" /\ next' = next
           /\ freeRecords > 0 /\ "records" \notin closed
           /\ freeRecords' = freeRecords - 1
           /\ records' = Append(records, Record("timing", frame[hand["main"]]))
    BY <1>0, <1>2 DEF EmitTiming, Enqueue, Abandon, Goto, Fail, LabelsOK, Record, ordering
  <2>3. frame[hand["main"]] = next
    BY <1>2, InMain DEF Emitting
  <2>4. pc'["main"] = "fail" \/ (EmitTiming /\ SendsTiming)
    BY <1>2, <2>2, <2>3 DEF SendsTiming, Sends
  <2>5. pc'["main"] = "fail" => ~(EmitTiming /\ SendsTiming)
    BY <1>0, <1>2 DEF SendsTiming, EncoderMeasure, Enqueue, Goto, Fail, LabelsOK, Threads, Stages
  <2> QED BY <1>2, <2>1, <2>2, <2>4, <2>5
<1>3. CASE (EmitTiming /\ pc["main"] = "emitRecycle") \/ EmitEncode
  <2>1. ~SendsDetections
    BY <1>3 DEF SendsDetections, EmitDetections, EmitEncode
  <2>2. ~(EmitTiming /\ SendsTiming)
    <3>1. freeRecords' = freeRecords
      BY <1>3 DEF EmitTiming, EmitEncode, meta
    <3>2. SendsTiming => freeRecords' = freeRecords - 1 /\ freeRecords \in Nat
      BY <1>0 DEF SendsTiming, Sends, DataOK
    <3> QED BY <3>1, <3>2
  <2>3. \/ pc'["main"] = "fail" /\ next' = next
        \/ pc'["main"] \in {"pop", "emit"} /\ next' = next + 1
    BY <1>0, <1>3 DEF EmitTiming, EmitEncode, Emitted, Abandon, Goto, Fail, LabelsOK, ordering
  <2>4. pc["main"] = IF config.draw THEN "emitEncode" ELSE "emitRecycle"
    BY <1>0, <1>3 DEF Ending, EmitEncode
  <2> QED BY <2>1, <2>2, <2>3, <2>4
<1>4. CASE ~EmitDetections /\ ~EmitTiming /\ ~EmitEncode
  <2>1. next' = next /\ ~SendsDetections
    BY <1>4, NextStep DEF SendsDetections
  <2>2. CASE MainNext /\ ~Create
    <3>1. CASE AsyncFail("main")
      BY <1>0, <1>4, <2>1, <3>1, FailMoves DEF Failures, Inside, Leaving
    <3>2. CASE ~AsyncFail("main")
      <4>1. pc["main"] \notin Emitting
        BY <1>4, <2>2, <3>2 DEF MainNext, Order, JudgePending, Join, Judge, Cleanup, Reap, Close, Emitting
      <4> QED BY <1>4, <2>1, <2>2, <3>2, <4>1, MainFlow DEF Leaving, Emitting
    <3> QED BY <3>1, <3>2
  <2>3. CASE Create
    BY <1>4, <2>1, <2>3, CreateMoves
  <2>4. CASE DecoderNext \/ SchedulerNext \/ EncoderNext \/ MetadataNext
    <3>1. pc'["main"] = pc["main"]
      BY <2>4, DecoderFlow, SchedulerFlow, EncoderFlow, MetadataFlow DEF OnlyMoves, Keeps, Threads, Stages
    <3> QED BY <1>4, <2>1, <3>1
  <2>5. CASE GpuNext \/ UNCHANGED vars
    BY <1>4, <2>1, <2>5, GpuFlow
  <2> QED BY <2>2, <2>3, <2>4, <2>5, StepOf
<1>5. EmitTiming => pc["main"] \in {"emitTiming", "emitRecycle"}
  BY DEF EmitTiming
<1> QED BY <1>1, <1>2, <1>3, <1>4, <1>5
(* The detections are sent in the turn of their frame; so is the timing,    *)
(* without an encoder. *)
LEMMA DetectionsOn ==
  ASSUME IInv, [Next]_vars, NEW m \in Nat,
         MainSent(m, {"emitEncode", "emitTiming", "emitRecycle"}, {"create", "pop", "emit"})
  PROVE  IF SendsDetections
         THEN m = next /\ MainSent(m + 1, {"emitEncode", "emitTiming", "emitRecycle"}, {"create", "pop", "emit"})'
         ELSE MainSent(m, {"emitEncode", "emitTiming", "emitRecycle"}, {"create", "pop", "emit"})'
<1>1. (failed => failed') /\ next \in Nat
  BY Onward, WrittenIs
<1>2. \A f \in Nat : MainSent(f, {"emitEncode", "emitTiming", "emitRecycle"}, {"create", "pop", "emit"})' <=>
         /\ pc'["main"] \in {"emitEncode", "emitTiming", "emitRecycle"} => f = next' + 1
         /\ pc'["main"] \in {"create", "pop", "emit"} => f = next'
         /\ pc'["main"] \in Leaving /\ ~failed' => f = next'
  BY DEF MainSent
<1>3. m + 1 \in Nat
  OBVIOUS
<1>4. /\ pc["main"] \in {"emitEncode", "emitTiming", "emitRecycle"} => m = next + 1
      /\ pc["main"] \in {"create", "pop", "emit"} => m = next
      /\ pc["main"] \in Leaving /\ ~failed => m = next
  BY DEF MainSent
<1> QED BY <1>1, <1>2, <1>3, <1>4, Turns DEF Leaving

LEMMA TimingOn ==
  ASSUME IInv, [Next]_vars, ~config.draw, NEW m \in Nat,
         MainSent(m, {"emitRecycle"}, {"create", "pop", "emit", "emitTiming"})
  PROVE  IF EmitTiming /\ SendsTiming
         THEN m = next /\ MainSent(m + 1, {"emitRecycle"}, {"create", "pop", "emit", "emitTiming"})'
         ELSE MainSent(m, {"emitRecycle"}, {"create", "pop", "emit", "emitTiming"})'
<1>1. (failed => failed') /\ next \in Nat
  BY Onward, WrittenIs
<1>2. \A f \in Nat : MainSent(f, {"emitRecycle"}, {"create", "pop", "emit", "emitTiming"})' <=>
         /\ pc'["main"] \in {"emitRecycle"} => f = next' + 1
         /\ pc'["main"] \in {"create", "pop", "emit", "emitTiming"} => f = next'
         /\ pc'["main"] \in Leaving /\ ~failed' => f = next'
  BY DEF MainSent
<1>3. m + 1 \in Nat
  OBVIOUS
<1>4. /\ pc["main"] \in {"emitRecycle"} => m = next + 1
      /\ pc["main"] \in {"create", "pop", "emit", "emitTiming"} => m = next
      /\ pc["main"] \in Leaving /\ ~failed => m = next
  BY DEF MainSent
<1> QED BY <1>1, <1>2, <1>3, <1>4, Turns DEF Leaving

(* With one, the encoder sends the timing of the frame it has encoded. *)
EncoderSent(m, at, again, length) ==
    /\ at \in {"none", "start", "pop", "encode"} => m = length
    /\ at = "measure" => m = length - 1
    /\ at \in Inside /\ again = "pop" => m = length
LEMMA EncoderOn ==
  ASSUME IInv, [Next]_vars, config.draw, NEW m \in Nat, TimingSent(m)
  PROVE  IF SendsTiming
         THEN m = frame[hand["encoder"]] /\ m + 1 <= Total /\ TimingSent(m + 1)'
         ELSE TimingSent(m)'
<1>0. /\ LabelsOK /\ Failures /\ DataOK /\ Ending /\ Encoding /\ "encoder" \in Threads /\ "encoder" \in Stages
      /\ (failed => failed') /\ config' = config /\ Len(encoded) \in Nat /\ Total \in Nat
  BY Onward, WrittenIs DEF IInv, Threads, Stages
<1>1. EncoderSent(m, pc["encoder"], resume["encoder"], Len(encoded))
      /\ (pc["encoder"] \in {"recycle", "done"} /\ ~failed => m = Len(encoded))
  BY DEF EncoderSent, TimingSent
<1>2. \A f \in Nat : TimingSent(f)' <=>
         /\ EncoderSent(f, pc'["encoder"], resume'["encoder"], Len(encoded'))
         /\ pc'["encoder"] \in {"recycle", "done"} /\ ~failed' => f = Len(encoded')
  BY <1>0 DEF EncoderSent, TimingSent
<1>3. EmitTiming => ~(pc["main"] \in {"emitTiming", "emitRecycle"} /\ config.draw)
  BY <1>0 DEF Ending
<1>4. SendsTiming => EncoderMeasure /\ pc["encoder"] = "measure" /\ pc'["encoder"] # "fail"
  BY <1>3 DEF SendsTiming, EmitTiming, EncoderMeasure
<1> USE DEF EncoderSent
<1>5. CASE EncoderMeasure
  <2>1. pc["encoder"] = "measure" /\ encoded' = encoded /\ failed' = failed
    BY <1>5 DEF EncoderMeasure, EncoderKeeps, shared
  <2>2. pc["main"] # "done"
    BY <2>1, InEncoder
  <2>3. frame[hand["encoder"]] = Len(encoded) - 1 /\ Len(encoded) <= Total
    BY <1>0, <2>1, <2>2 DEF Encoding, Encodes, Firsts
  <2>4. m = Len(encoded) - 1
    BY <1>1, <2>1
  <2>5. CASE pc'["encoder"] = "fail"
    <3>1. resume'["encoder"] = "recycle"
      BY <1>0, <1>5, <2>5 DEF EncoderMeasure, Enqueue, Goto, Fail, LabelsOK
    <3> QED BY <1>2, <1>4, <2>5, <3>1 DEF Inside
  <2>6. CASE pc'["encoder"] # "fail"
    <3>1. pc'["encoder"] = "recycle" /\ SendsTiming
      BY <1>0, <1>5, <2>6 DEF EncoderMeasure, Enqueue, Goto, Fail, LabelsOK, SendsTiming, Sends
    <3>2. m + 1 = Len(encoded) /\ m + 1 \in Nat
      BY <1>0, <2>4
    <3> QED BY <1>0, <1>2, <2>1, <2>3, <2>4, <3>1, <3>2 DEF Inside
  <2> QED BY <2>5, <2>6
<1>6. CASE EncoderEncode
  <2>1. pc["encoder"] = "encode" /\ failed' = failed /\ ~SendsTiming
    BY <1>4, <1>6 DEF EncoderEncode, EncoderKeeps, shared
  <2>2. pc'["encoder"] = "measure" => Len(encoded') = Len(encoded) + 1
    <3>1. frame[hand["encoder"]] \in Nat /\ encoded \in Seq(Nat)
      BY <1>0, <2>1, InEncoder DEF DataOK, Frames
    <3>2. pc'["encoder"] = "measure" => encoded' = Append(encoded, frame[hand["encoder"]])
      BY <1>0, <1>6 DEF EncoderEncode, Goto, Fail, LabelsOK
    <3> QED BY <3>1, <3>2, AppendProperties
  <2>3. \/ pc'["encoder"] = "measure" \/ (pc'["encoder"] = "recycle" /\ failed)
        \/ pc'["encoder"] = "fail" /\ resume'["encoder"] = "recycle"
    BY <1>0, <1>6 DEF EncoderEncode, Goto, Fail, LabelsOK
  <2>4. m = Len(encoded)
    BY <1>1, <2>1
  <2> QED BY <1>0, <1>2, <2>1, <2>2, <2>3, <2>4 DEF Inside
<1>7. CASE EncoderNext /\ ~EncoderMeasure /\ ~EncoderEncode
  <2>1. encoded' = encoded /\ ~SendsTiming
    BY <1>4, <1>7, OutputsStep
  <2>2. CASE AsyncFail("encoder")
    <3>1. /\ pc["encoder"] \in Inside
          /\ \/ pc'["encoder"] = "closing" /\ resume' = resume
             \/ pc'["encoder"] = resume["encoder"] /\ failed /\ failed'
      BY <1>0, <2>2, FailMoves DEF Failures, Inside
    <3>2. resume["encoder"] \in {"pop", "recycle"}
      BY <1>0, <3>1 DEF Failures
    <3> QED BY <1>1, <1>2, <2>1, <3>1, <3>2 DEF Inside
  <2>3. CASE ~AsyncFail("encoder")
    <3>1. pc["encoder"] \in {"start", "pop", "recycle"}
      BY <1>7, <2>3 DEF EncoderNext, EncoderStart, EncoderDraw, EncoderRecycle
    <3> QED BY <1>0, <1>1, <1>2, <1>7, <2>1, <2>3, <3>1, EncoderFlow DEF Inside
  <2> QED BY <2>2, <2>3
<1>8. CASE ~EncoderNext
  <2>1. encoded' = encoded /\ ~SendsTiming
    BY <1>4, <1>8, OutputsStep DEF EncoderNext
  <2>2. resume'["encoder"] = resume["encoder"]
        /\ (pc'["encoder"] = pc["encoder"] \/ (pc["encoder"] = "none" /\ pc'["encoder"] = "start"))
    <3>1. CASE DecoderNext \/ SchedulerNext \/ MetadataNext \/ (MainNext /\ ~Create)
      BY <3>1, DecoderFlow, SchedulerFlow, MetadataFlow, MainFlow DEF OnlyMoves, Keeps, Threads, Stages
    <3>2. CASE Create
      BY <1>0, <3>2, CreateMoves DEF Starts, FirstPlace
    <3>3. CASE GpuNext \/ UNCHANGED vars
      BY <3>3, GpuFlow
    <3> QED BY <1>8, <3>1, <3>2, <3>3, StepOf
  <2> QED BY <1>0, <1>1, <1>2, <2>1, <2>2
<1> QED BY <1>5, <1>6, <1>7, <1>8

LEMMA RecordingStep ==
  ASSUME IInv, [Next]_vars
  PROVE  Recording'
<1>0. /\ Recording /\ Ending /\ Total' = Total /\ Total \in Nat /\ next \in Nat /\ next <= Total
      /\ EmitDetections \/ EmitTiming => next < Total
      /\ config' = config
  BY WrittenIs, Onward DEF IInv
<1>1. ASSUME Records'
      PROVE  \E m \in 0 .. Total :
                /\ MainSent(m, {"emitEncode", "emitTiming", "emitRecycle"}, {"create", "pop", "emit"})'
                /\ Sent(records', "detections", Len(rows'), m)
  <2>1. PICK m \in 0 .. Total :
                /\ MainSent(m, {"emitEncode", "emitTiming", "emitRecycle"}, {"create", "pop", "emit"})
                /\ Sent(records, "detections", Len(rows), m)
    BY <1>0, <1>1, RecordsOn DEF Recording
  <2>2. m \in Nat /\ m <= Total
    BY <1>0
  <2>3. CASE SendsDetections
    <3>1. /\ m = next /\ Sent(records', "detections", Len(rows'), m + 1)
          /\ MainSent(m + 1, {"emitEncode", "emitTiming", "emitRecycle"}, {"create", "pop", "emit"})'
      BY <1>1, <2>1, <2>2, <2>3, DetectionsOn, DetectionsRecords
    <3>2. m + 1 \in 0 .. Total
      BY <1>0, <2>3, <3>1 DEF SendsDetections
    <3> QED BY <3>1, <3>2
  <2>4. CASE ~SendsDetections
    <3>1. /\ Sent(records', "detections", Len(rows'), m)
          /\ MainSent(m, {"emitEncode", "emitTiming", "emitRecycle"}, {"create", "pop", "emit"})'
      BY <1>1, <2>1, <2>2, <2>4, DetectionsOn, DetectionsRecords
    <3> QED BY <3>1
  <2> QED BY <2>3, <2>4
<1>2. ASSUME Records'
      PROVE  \E m \in 0 .. Total : TimingSent(m)' /\ Sent(records', "timing", Len(measured'), m)
  <2>1. PICK m \in 0 .. Total : TimingSent(m) /\ Sent(records, "timing", Len(measured), m)
    BY <1>0, <1>2, RecordsOn DEF Recording
  <2>2. m \in Nat /\ m <= Total
    BY <1>0
  <2>3. CASE config.draw
    <3>1. CASE SendsTiming
      <4>1. m + 1 \in 0 .. Total /\ m = frame[hand["encoder"]] /\ TimingSent(m + 1)'
        BY <1>0, <2>1, <2>2, <2>3, <3>1, EncoderOn
      <4>2. Sent(records', "timing", Len(measured'), m + 1)
        BY <1>2, <2>1, <2>2, <2>3, <3>1, <4>1, TimingRecords
      <4> QED BY <4>1, <4>2
    <3>2. CASE ~SendsTiming
      <4>1. TimingSent(m)' /\ Sent(records', "timing", Len(measured'), m)
        BY <1>2, <2>1, <2>2, <2>3, <3>2, EncoderOn, TimingRecords
      <4> QED BY <4>1
    <3> QED BY <3>1, <3>2
  <2>4. CASE ~config.draw
    <3>0. MainSent(m, {"emitRecycle"}, {"create", "pop", "emit", "emitTiming"})
      BY <2>1, <2>4 DEF TimingSent
    <3>1. \A f \in Nat : MainSent(f, {"emitRecycle"}, {"create", "pop", "emit", "emitTiming"})' => TimingSent(f)'
      BY <1>0, <2>4 DEF TimingSent
    <3>2. SendsTiming => EmitTiming
      BY <1>0, <2>4 DEF SendsTiming, EncoderMeasure, Ending
    <3>3. CASE SendsTiming
      <4>1. m = next /\ MainSent(m + 1, {"emitRecycle"}, {"create", "pop", "emit", "emitTiming"})'
        BY <2>2, <2>4, <3>0, <3>2, <3>3, TimingOn
      <4>2. m + 1 \in 0 .. Total /\ m + 1 \in Nat
        BY <1>0, <3>2, <3>3, <4>1
      <4>3. Sent(records', "timing", Len(measured'), m + 1)
        BY <1>2, <2>1, <2>2, <2>4, <3>3, <4>1, TimingRecords
      <4> QED BY <3>1, <4>1, <4>2, <4>3
    <3>4. CASE ~SendsTiming
      <4>1. MainSent(m, {"emitRecycle"}, {"create", "pop", "emit", "emitTiming"})'
        BY <2>2, <2>4, <3>0, <3>4, TimingOn
      <4>2. Sent(records', "timing", Len(measured'), m)
        BY <1>2, <2>1, <2>2, <3>4, TimingRecords
      <4> QED BY <2>2, <3>1, <4>1, <4>2
    <3> QED BY <3>3, <3>4
  <2> QED BY <2>3, <2>4
<1> QED BY <1>0, <1>1, <1>2, FilesStep DEF Recording
-----------------------------------------------------------------------------
(* The end of the run.                                                     *)

(* At the verdict on a run in which nothing has failed, every stage has     *)
(* ended ...                                                                *)
AtVerdict == pc["main"] = "joinMetadata" /\ ~failed /\ Returned({"metadata"})
LEMMA AllHaveEnded ==
  ASSUME IInv, AtVerdict
  PROVE  /\ \A t \in Stages : pc[t] = "done" \/ (t = "encoder" /\ ~config.draw /\ pc[t] = "none")
         /\ ~Failing /\ decoded = Total
         /\ Occupied = {} /\ queue["decoded"] = <<>> /\ queue["completed"] = <<>> /\ records = <<>>
         /\ config.draw => queue["encode"] = <<>>
         /\ hand["main"] = 0 /\ hand["scheduler"] = 0 /\ hand["metadata"] = 0
<1>0. /\ Ending /\ LabelsOK /\ Scheduling /\ Holding /\ pc["main"] = "joinMetadata" /\ ~failed
      /\ Stages = {"metadata", "encoder", "decoder", "scheduler"} /\ Threads = Stages \cup {"main"}
  BY DEF IInv, AtVerdict, Stages, Threads
<1>1. pc["metadata"] # "none"
  BY <1>0 DEF Ending, Leaving
<1>2. pc["metadata"] = "done"
  BY <1>0, <1>1 DEF AtVerdict, Returned, Started
<1>3. /\ pc["decoder"] = "done" /\ pc["scheduler"] = "done"
      /\ pc["encoder"] = "done" \/ ~config.draw
      /\ ~config.draw => pc["encoder"] = "none"
  BY <1>0 DEF Ending, Stopped
<1>4. \A t \in Stages : pc[t] = "done" \/ (t = "encoder" /\ ~config.draw /\ pc[t] = "none")
  BY <1>0, <1>2, <1>3
<1>5. ~Failing
  BY <1>0, <1>4 DEF Failing
<1>6. decoded = Total /\ decodedClosed /\ Occupied = {} /\ queue["completed"] = <<>> /\ records = <<>>
      /\ (config.draw => queue["encode"] = <<>>)
  BY <1>0, <1>2, <1>3 DEF Ending, Leaving
<1>7. queue["decoded"] = <<>>
  BY <1>0, <1>6 DEF Scheduling
<1>8. hand["main"] = 0 /\ hand["scheduler"] = 0 /\ hand["metadata"] = 0
  BY <1>0 DEF Holding, Emitting
<1> QED BY <1>4, <1>5, <1>6, <1>7, <1>8

(* ... and no frame is left between them: the one whose turn it is would be *)
(* with somebody ...                                                        *)
Emptied == /\ ~Failing /\ pc["main"] # "done" /\ Occupied = {}
           /\ queue["decoded"] = <<>> /\ queue["completed"] = <<>>
           /\ hand["main"] = 0 /\ hand["scheduler"] = 0 /\ hand["metadata"] = 0
LEMMA NoneIsLeft ==
  ASSUME IInv, Emptied
  PROVE  next = decoded
<1>0. next \in Nat /\ decoded \in Nat /\ next <= decoded /\ NoFrame = -1 /\ pc["main"] # "done"
  BY Basics DEF IInv, Emptied
<1>1. SUFFICES ASSUME next < decoded PROVE FALSE
  BY <1>0
<1>2. PICK x \in Slots : frame[x] = next
  BY <1>0, <1>1 DEF IInv, Covered, Emptied
<1>3. PICK h \in Holders : x \in Held(h)
  BY <1>0, <1>2 DEF IInv, Covered, Emptied
<1>4. Good(h, x)
  BY <1>0, <1>3, HeldIsGood
<1>5. h \notin Unread /\ h \notin Output /\ h # <<"pending", 0>>
  BY <1>0, <1>2, <1>4 DEF Good
<1>6. x # 0 /\ \A l \in Lanes : laneSlots[l] # x
  BY DEF Slots, Occupied, Emptied
<1>7. Elements(queue["decoded"]) = {} /\ Elements(queue["completed"]) = {}
  <2>1. Len(<<>>) = 0 /\ 1 .. 0 = {}
    BY EmptySeq
  <2> QED BY <2>1 DEF Elements, Emptied
<1>8. ASSUME NEW q \in SlotQueues, h = <<q, 0>> PROVE FALSE
  <2>1. x \in Elements(queue[q])
    BY <1>3, <1>8, WhereIs DEF Where
  <2>2. q \in {"decoded", "completed"}
    BY <1>5, <1>8 DEF SlotQueues, Unread, Output
  <2> QED BY <1>7, <2>1, <2>2
<1>9. ASSUME NEW t \in Threads, h = <<t, 0>> PROVE FALSE
  <2>1. hand[t] = x
    BY <1>3, <1>9, WhereIs DEF Where
  <2>2. t \in {"main", "scheduler", "metadata"}
    BY <1>5, <1>9 DEF Threads, Stages, Unread, Output
  <2> QED BY <1>6, <2>1, <2>2 DEF Emptied
<1>10. ASSUME NEW l \in Lanes, h = <<"lane", l>> PROVE FALSE
  BY <1>3, <1>6, <1>10, WhereIs DEF Where
<1> QED BY <1>3, <1>5, <1>8, <1>9, <1>10, WhereIs DEF OneOf

LEMMA AllAreOutput ==
  ASSUME IInv, AtVerdict
  PROVE  next = Total
<1>1. Emptied /\ decoded = Total
  BY AllHaveEnded DEF Emptied, AtVerdict
<1> QED BY <1>1, NoneIsLeft

(* ... so all that was asked for is written. *)
LEMMA AllIsWritten ==
  ASSUME IInv, AtVerdict
  PROVE  /\ Len(rows) = Total
         /\ config.benchmark => Len(measured) = Total
         /\ config.draw => Len(encoded) = Total
<1>0. /\ Recording /\ Encoding /\ next = Total /\ pc["main"] \in Leaving /\ pc["main"] # "done" /\ ~failed
      /\ Len(rows) \in Nat /\ Len(measured) \in Nat /\ Len(encoded) \in Nat /\ Total \in Nat
      /\ records = <<>>
  BY AllAreOutput, AllHaveEnded, WrittenIs DEF IInv, AtVerdict, Leaving
<1>1. Records
  BY AllHaveEnded DEF AtVerdict, Records, Stages
<1>2. Len(rows) = Total
  <2>1. PICK m \in 0 .. Total :
           /\ MainSent(m, {"emitEncode", "emitTiming", "emitRecycle"}, {"create", "pop", "emit"})
           /\ Sent(records, "detections", Len(rows), m)
    BY <1>0, <1>1 DEF Recording
  <2>2. m = Total
    BY <1>0, <2>1 DEF MainSent
  <2>3. Sent(<<>>, "detections", Len(rows), m) /\ m \in Nat
    BY <1>0, <2>1
  <2> QED BY <1>0, <2>2, <2>3, SentAll
<1>3. config.draw => Len(encoded) = Total /\ pc["encoder"] = "done"
  <2>1. ASSUME config.draw PROVE Len(encoded) = Total /\ pc["encoder"] = "done"
    <3>1. pc["encoder"] = "done" /\ queue["encode"] = <<>>
      BY <2>1, AllHaveEnded DEF Stages
    <3>2. Taken + Len(queue["encode"]) = next
      BY <1>0, <2>1, <3>1 DEF Encoding, Encodes
    <3>3. Taken = Len(encoded) /\ Len(queue["encode"]) = 0
      BY <1>0, <3>1, EmptySeq DEF Taken
    <3> QED BY <1>0, <3>1, <3>2, <3>3
  <2> QED BY <2>1
<1>4. Len(measured) = Total
  <2>1. PICK m \in 0 .. Total : TimingSent(m) /\ Sent(records, "timing", Len(measured), m)
    BY <1>0, <1>1 DEF Recording
  <2>2. m = Total
    BY <1>0, <1>3, <2>1 DEF TimingSent, MainSent
  <2>3. Sent(<<>>, "timing", Len(measured), m) /\ m \in Nat
    BY <1>0, <2>1
  <2> QED BY <1>0, <2>2, <2>3, SentAll
<1> QED BY <1>2, <1>3, <1>4

(* When every stage has ended, the main thread goes on alone. *)
LEMMA Alone ==
  ASSUME IInv, [Next]_vars, pc["main"] # "create", \A t \in Stages : pc[t] \in {"none", "done"}
  PROVE  /\ (MainNext /\ ~Create) \/ GpuNext \/ UNCHANGED vars
         /\ \A t \in Stages : pc'[t] = pc[t]
         /\ rows' = rows /\ measured' = measured /\ encoded' = encoded
<1>1. ~DecoderNext
  BY DecoderFlow, FailMoves DEF IInv, Stages, Threads, Inside
<1>2. ~SchedulerNext
  BY SchedulerFlow, FailMoves DEF IInv, Stages, Threads, Inside
<1>3. ~EncoderNext
  BY EncoderFlow, FailMoves DEF IInv, Stages, Threads, Inside
<1>4. ~MetadataNext
  BY MetadataFlow, FailMoves DEF IInv, Stages, Threads, Inside
<1>5. ~Create
  BY DEF Create
<1>6. (MainNext /\ ~Create) \/ GpuNext \/ UNCHANGED vars
  BY <1>1, <1>2, <1>3, <1>4, <1>5, StepOf
<1>7. \A t \in Stages : pc'[t] = pc[t]
  BY <1>6, MainFlow, GpuFlow DEF Keeps, Threads, Stages
<1>8. rows' = rows /\ measured' = measured /\ encoded' = encoded
  BY <1>6, MainFlow, GpuFlow DEF output
<1> QED BY <1>6, <1>7, <1>8

LEMMA JudgedStep ==
  ASSUME IInv, [Next]_vars
  PROVE  Judged'
<1>0. /\ LabelsOK /\ Failures /\ DataOK /\ Judged /\ config' = config /\ Total' = Total /\ "main" \in Threads
      /\ "main" \notin Stages
  BY Onward DEF IInv, Threads, Stages
<1>9. Returning' => result' # "none"
  <2>1. CASE MainNext /\ ~Create
    <3>1. Returning' => Returning \/ Cleanup
      <4>1. CASE AsyncFail("main")
        BY <1>0, <4>1, FailMoves DEF Returning, Inside, Failures
      <4>2. CASE ~AsyncFail("main")
        <5>1. pc["main"] = "cleanup" => Cleanup
          BY <2>1, <4>2 DEF MainNext, Order, EmitDetections, EmitEncode, EmitTiming, JudgePending, Join, Judge,
             Reap, Close
        <5>2. pc["main"] \notin Inside
          BY <2>1, <4>2 DEF MainNext, Order, EmitDetections, EmitEncode, EmitTiming, JudgePending, Join, Judge,
             Cleanup, Reap, Close, Inside
        <5> QED BY <2>1, <4>2, <5>1, <5>2, MainFlow DEF Returning, Inside, Ordering, Emitting
      <4> QED BY <4>1, <4>2
    <3>2. result # "none" => result' # "none"
      BY <2>1, MainFlow DEF Judge, Cleanup
    <3>3. Cleanup => result' # "none"
      BY DEF Cleanup
    <3> QED BY <1>0, <3>1, <3>2, <3>3 DEF Judged
  <2>2. CASE Create
    BY <1>0, <2>2, CreateMoves DEF Returning, Inside, Threads
  <2>3. CASE DecoderNext \/ SchedulerNext \/ EncoderNext \/ MetadataNext
    <3>1. pc'["main"] = pc["main"] /\ resume'["main"] = resume["main"] /\ result' = result
      BY <1>0, <2>3, DecoderFlow, SchedulerFlow, EncoderFlow, MetadataFlow DEF OnlyMoves, Keeps, Threads, Stages
    <3> QED BY <1>0, <3>1 DEF Judged, Returning
  <2>4. CASE GpuNext \/ UNCHANGED vars
    BY <1>0, <2>4, GpuFlow DEF Judged, Returning
  <2> QED BY <2>1, <2>2, <2>3, <2>4, StepOf
<1>1. CASE result' = "ok" /\ result = "ok"
  <2>1. /\ Len(rows) = Total
        /\ config.benchmark => Len(measured) = Total
        /\ config.draw => Len(encoded) = Total
        /\ \A t \in Stages : pc[t] \in {"none", "done"}
        /\ \/ pc["main"] \in {"cleanup", "reap", "done"}
           \/ pc["main"] \in Inside /\ resume["main"] = "reap"
    BY <1>0, <1>1 DEF Judged, Returning
  <2>2. /\ (MainNext /\ ~Create) \/ GpuNext \/ UNCHANGED vars
        /\ \A t \in Stages : pc'[t] = pc[t]
        /\ rows' = rows /\ measured' = measured /\ encoded' = encoded
    BY <2>1, Alone DEF Inside
  <2>3. \/ pc'["main"] \in {"cleanup", "reap", "done"}
        \/ pc'["main"] \in Inside /\ resume'["main"] = "reap"
    <3>1. CASE AsyncFail("main")
      BY <1>0, <2>1, <3>1, FailMoves DEF Inside
    <3>2. CASE MainNext /\ ~Create /\ ~AsyncFail("main")
      <4>1. pc["main"] \notin Inside
        BY <3>2 DEF MainNext, Order, EmitDetections, EmitEncode, EmitTiming, JudgePending, Join, Judge, Cleanup,
           Reap, Close, Inside
      <4> QED BY <2>1, <3>2, <4>1, MainFlow DEF Ordering, Emitting, Inside
    <3>3. CASE GpuNext \/ UNCHANGED vars
      BY <2>1, <3>3, GpuFlow
    <3> QED BY <2>2, <3>1, <3>2, <3>3
  <2>4. pc'["main"] = "done" => pending' = {}
    <3>1. CASE Reap
      BY <3>1 DEF Reap
    <3>2. CASE ~Reap
      <4>1. pc'["main"] = "done" => pc["main"] = "done"
        BY <3>2, Finishes
      <4> QED BY <1>0, <4>1, Over, GpuFlow DEF Judged, vars, ordering
    <3> QED BY <3>1, <3>2
  <2> QED BY <1>0, <1>9, <2>1, <2>2, <2>3, <2>4 DEF Judged, Returning
<1>2. CASE result' = "ok" /\ result # "ok"
  <2>1. Judge
    <3>1. CASE Create
      BY <1>2, <3>1 DEF Create
    <3>2. CASE MainNext /\ ~Create
      BY <1>2, <3>2, MainFlow DEF Cleanup
    <3>3. CASE DecoderNext \/ SchedulerNext \/ EncoderNext \/ MetadataNext
      BY <1>2, <3>3, DecoderFlow, SchedulerFlow, EncoderFlow, MetadataFlow
    <3>4. CASE GpuNext \/ UNCHANGED vars
      BY <1>2, <3>4, GpuFlow
    <3> QED BY <3>1, <3>2, <3>3, <3>4, StepOf
  <2>2. AtVerdict /\ pc'["main"] = "cleanup"
    BY <1>0, <1>2, <2>1 DEF Judge, AtVerdict, Goto, LabelsOK
  <2>3. /\ \A t \in Stages : pc[t] \in {"none", "done"}
        /\ Len(rows) = Total
        /\ config.benchmark => Len(measured) = Total
        /\ config.draw => Len(encoded) = Total
    BY <2>2, AllHaveEnded, AllIsWritten
  <2>4. /\ \A t \in Stages : pc'[t] = pc[t]
        /\ rows' = rows /\ measured' = measured /\ encoded' = encoded
    BY <2>2, <2>3, Alone DEF AtVerdict
  <2> QED BY <1>0, <1>9, <2>2, <2>3, <2>4 DEF Judged
<1>3. CASE result' # "ok"
  <2>1. pc'["main"] = "done" => (\A t \in Stages : pc'[t] \in {"none", "done"}) /\ pending' = {}
    <3>1. CASE pc["main"] = "done"
      BY <1>0, <3>1, Over, GpuFlow DEF Judged
    <3>2. CASE Reap
      <4>1. \A t \in Stages : pc[t] \in {"none", "done"}
        BY <3>2 DEF Reap, Returned, Started
      <4>2. \A t \in Stages : pc'[t] = pc[t]
        BY <1>0, <3>2 DEF Reap, Goto, LabelsOK
      <4> QED BY <3>2, <4>1, <4>2 DEF Reap
    <3> QED BY <3>1, <3>2, Finishes
  <2> QED BY <1>3, <1>9, <2>1 DEF Judged
<1> QED BY <1>1, <1>2, <1>3
-----------------------------------------------------------------------------
(* The beginning, and the invariant.                                       *)

LEMMA Begin == Init => IInv
<1> SUFFICES ASSUME Init PROVE IInv
  OBVIOUS
<1>1. /\ \A t \in Stages : pc[t] = "none"
      /\ pc["main"] = "create" /\ \A t \in Threads : hand[t] = 0
      /\ config \in Configs /\ video \in 0 .. LongestVideo
      /\ failed = FALSE /\ closed = {} /\ records = <<>> /\ freeRecords = RecordCount
      /\ decoded = 0 /\ decodedClosed = FALSE /\ pending = {} /\ next = 0
      /\ rows = <<>> /\ measured = <<>> /\ encoded = <<>> /\ result = "none"
      /\ \A s \in Slots : frame[s] = NoFrame
      /\ lanes = [l \in Lanes |-> IdleLane] /\ laneSlots = [l \in Lanes |-> 0]
      /\ \A q \in SlotQueues : queue[q] = IF q = "free" THEN [i \in Slots |-> i] ELSE <<>>
      /\ Stages = {"metadata", "encoder", "decoder", "scheduler"} /\ Threads = Stages \cup {"main"}
      /\ SlotQueues = {"free", "decoded", "completed", "encode"}
  BY DEF Init, InitLanes, Stages, Threads, SlotQueues
<1>2. SlotCount \in Nat /\ RecordCount \in Nat /\ video \in Nat /\ Total \in Nat /\ MaxFrames \in Nat
      /\ EncodeCapacity \in Nat
  BY <1>1, AsyncAssumption DEF RecordCount, Total
<1>3. [i \in Slots |-> i] \in Seq(Slots) /\ Len([i \in Slots |-> i]) = SlotCount
  BY <1>2 DEF Slots
<1>4. Len(<<>>) = 0 /\ 1 .. 0 = {} /\ Elements(<<>>) = {} /\ \A S : <<>> \in Seq(S)
  BY EmptySeq DEF Elements
<1>5. LabelsOK
  BY DEF Init, LabelsOK, Threads, Stages, Places, DecoderLabels, SchedulerLabels, EncoderLabels, MetadataLabels,
     MainLabels, Ordering
<1>6. DataOK
  <2>1. queue \in [SlotQueues -> Seq(Slots)] /\ hand \in [Threads -> Slots \cup {0}]
    BY <1>3, <1>4 DEF Init
  <2>2. frame \in [Slots -> Frames \cup {NoFrame}] /\ found \in [Slots -> Frames \cup {NoFrame}]
    BY DEF Init
  <2>3. lanes \in [Lanes -> LaneStates(Frames)] /\ laneSlots \in [Lanes -> Slots \cup {0}]
    BY <1>1 DEF LaneStates, IdleLane
  <2>4. video \in Frames /\ decoded \in 0 .. Total /\ next \in 0 .. decoded
    BY <1>1, <1>2 DEF Frames
  <2>5. freeRecords \in Nat /\ freeRecords + Len(records) <= RecordCount
    BY <1>1, <1>2, <1>4
  <2> QED BY <1>1, <1>4, <2>1, <2>2, <2>3, <2>4, <2>5 DEF DataOK
<1>7. Failures /\ Holding
  BY <1>1 DEF Failures, Holding, Inside, Emitting
<1>8. \A h \in Holders : h # <<"free", 0>> => Held(h) = {}
  <2>1. \A t \in Threads : t \notin SlotQueues /\ t # "lane"
    BY <1>1
  <2>2. \A l \in Lanes : laneSlots[l] = 0
    BY <1>1
  <2> QED BY <1>1, <1>4, <2>1, <2>2 DEF Holders, Held
<1>9. Owned
  <2>1. \A q \in SlotQueues : Distinct(queue[q])
    <3>1. Distinct([i \in Slots |-> i])
      BY <1>2, <1>3 DEF Distinct, Slots
    <3>2. Distinct(<<>>)
      BY <1>4 DEF Distinct
    <3> QED BY <1>1, <3>1, <3>2
  <2> QED BY <1>8, <2>1 DEF Owned
<1>10. Filled
  <2>1. /\ \A h \in Output \cup Coming \cup Collected : h # <<"free", 0>> /\ h \in Holders
        /\ Unread \subseteq Holders
    BY <1>1 DEF Output, Coming, Collected, Unread, Holders
  <2>2. \A h \in Unread : \A s \in Held(h) : frame[s] = NoFrame
    <3>1. \A h \in Holders : Held(h) \subseteq Slots
      BY <1>6, HeldSlots DEF AllSlots, Typed, DataOK
    <3> QED BY <1>1, <2>1, <3>1
  <2>3. \A h \in Output \cup Coming \cup Collected : Held(h) = {}
    BY <1>8, <2>1
  <2> QED BY <1>1, <2>2, <2>3 DEF Filled, Emitting
<1>11. Covered
  BY <1>1 DEF Covered
<1>12. Scheduling
  BY <1>1 DEF Scheduling, Occupied, Inside
<1>13. Ending
  <2>1. MaxFrames = 0 \/ decoded < MaxFrames
    BY <1>1, <1>2
  <2> QED BY <1>1, <2>1 DEF Ending, Leaving, Ordering, Emitting
<1>14. Firsts(<<>>)
  BY <1>2, <1>4 DEF Firsts
<1>15. Encoding
  <2>1. queue["encode"] = <<>> /\ Len(queue["encode"]) = 0 /\ pc["encoder"] = "none" /\ Len(encoded) = 0
    BY <1>1, <1>4
  <2>2. Taken = 0 /\ Taken + Len(queue["encode"]) = next
    BY <1>1, <2>1 DEF Taken
  <2>3. \A i \in 1 .. Len(queue["encode"]) : frame[queue["encode"][i]] = Taken + i - 1
    BY <2>1
  <2>4. Firsts(encoded) /\ Len(queue["encode"]) <= EncodeCapacity
    BY <1>1, <1>2, <1>14, <2>1
  <2> QED BY <1>1, <2>1, <2>2, <2>3, <2>4 DEF Encoding
<1>16. Recording
  <2>1. \A k : Sent(<<>>, k, 0, 0)
    BY <1>4 DEF Sent
  <2>2. MainSent(0, {"emitEncode", "emitTiming", "emitRecycle"}, {"create", "pop", "emit"}) /\ TimingSent(0)
    BY <1>1, <1>4 DEF MainSent, TimingSent, Leaving
  <2>3. 0 \in 0 .. Total /\ Len(rows) = 0 /\ Len(measured) = 0
    BY <1>1, <1>2, <1>4
  <2> QED BY <1>1, <1>14, <2>1, <2>2, <2>3 DEF Recording
<1>17. Judged
  BY <1>1 DEF Judged, Returning, Inside
<1> QED BY <1>5, <1>6, <1>7, <1>9, <1>10, <1>11, <1>12, <1>13, <1>15, <1>16, <1>17 DEF IInv

LEMMA Step == IInv /\ [Next]_vars => IInv'
<1> SUFFICES ASSUME IInv, [Next]_vars PROVE IInv'
  OBVIOUS
<1>1. LabelsOK' /\ DataOK' /\ Failures' /\ Holding'
  BY LabelsStep, DataStep, FailuresStep, HoldingStep
<1>2. Owned' /\ Filled' /\ Covered' /\ Scheduling'
  BY OwnedStep, FilledStep, CoveredStep, SchedulingStep
<1>3. Ending' /\ Encoding' /\ Recording' /\ Judged'
  BY EndingStep, EncodingStep, RecordingStep, JudgedStep
<1> QED BY <1>1, <1>2, <1>3 DEF IInv

(* The inductive invariant: who holds which slot of the asynchronous pipeline and    *)
(* what is in it, which records are on their way, and how far its threads have got.  *)
THEOREM Inductive == Spec => []IInv
BY Begin, Step, PTL DEF Spec

-----------------------------------------------------------------------------
(* What the invariant says to the caller.                                  *)

LEMMA Bounded ==
  ASSUME IInv, NEW q \in SlotQueues
  PROVE  /\ Len(queue[q]) <= Capacity(q)
         /\ DOMAIN queue[q] = 1 .. Len(queue[q]) /\ 1 .. Len(queue[q]) \subseteq Slots
<1>1. queue[q] \in Seq(1 .. SlotCount) /\ Distinct(queue[q]) /\ SlotCount \in Nat
  BY AsyncAssumption DEF IInv, DataOK, Owned, Slots
<1>2. Len(queue[q]) <= SlotCount /\ Len(queue[q]) \in Nat /\ DOMAIN queue[q] = 1 .. Len(queue[q])
  BY <1>1, DistinctIsShort, LenProperties
<1>3. Len(queue["encode"]) <= EncodeCapacity
  BY DEF IInv, Encoding
<1> QED BY <1>1, <1>2, <1>3 DEF Capacity, Slots

(* The types, and the bounds of the queues of run_detection_pipeline_nvdec_cuda_async: *)
(* a push waits for room, and no more records are lent than there are.               *)
THEOREM TypesAreKept == Spec => []TypeOK
<1>1. IInv => TypeOK
  BY Bounded DEF IInv, LabelsOK, DataOK, TypeOK
<1> QED BY <1>1, Inductive, PTL

(* Two places of a slot are one. *)
LEMMA OnePlace ==
  ASSUME IInv, NEW s \in Slots, NEW x \in PlacesOf(s), NEW y \in PlacesOf(s)
  PROVE  x = y
<1>0. /\ s # 0 /\ \A q \in SlotQueues : Distinct(queue[q]) /\ DOMAIN queue[q] = 1 .. Len(queue[q])
      /\ \A t \in Threads : t \notin SlotQueues \cup {"lane", "pending"}
      /\ "lane" \notin SlotQueues /\ "pending" \notin SlotQueues
  BY Bounded DEF IInv, Owned, Slots, Threads, Stages, SlotQueues
<1> DEFINE InSlot(p) == p \in SlotQueues \X Slots /\ p[2] \in DOMAIN queue[p[1]] /\ queue[p[1]][p[2]] = s
           InHandOf(p) == \E t \in Threads : hand[t] = s /\ p = <<t, 0>>
           InLaneOf(p) == \E l \in Lanes : laneSlots[l] = s /\ p = <<"lane", l>>
           Waits(p) == s \in pending /\ p = <<"pending", s>>
<1>1. \A p \in PlacesOf(s) : InSlot(p) \/ InHandOf(p) \/ InLaneOf(p) \/ Waits(p)
  BY DEF PlacesOf
<1>2. \A p : InSlot(p) => s \in Held(<<p[1], 0>>) /\ <<p[1], 0>> \in Holders
  BY <1>0, WhereIs DEF Where, Elements
<1>3. \A p : InHandOf(p) \/ InLaneOf(p) => s \in Held(p) /\ p \in Holders
  BY WhereIs DEF Where
<1>4. \A p : Waits(p) => s \in Held(<<"pending", 0>>) /\ <<"pending", 0>> \in Holders
  BY WhereIs DEF Where
<1>5. \A h, k \in Holders : s \in Held(h) /\ s \in Held(k) => h = k
  BY DEF IInv, Owned
<1>6. CASE InSlot(x) /\ InSlot(y)
  <2>1. x[1] = y[1]
    <3>1. /\ s \in Held(<<x[1], 0>>) /\ <<x[1], 0>> \in Holders
          /\ s \in Held(<<y[1], 0>>) /\ <<y[1], 0>> \in Holders
      BY <1>2, <1>6
    <3>2. <<x[1], 0>> = <<y[1], 0>>
      BY <1>5, <3>1
    <3> QED BY <3>2
  <2>2. x[2] = y[2]
    <3>1. /\ x[1] \in SlotQueues /\ x[2] \in 1 .. Len(queue[x[1]]) /\ y[2] \in 1 .. Len(queue[x[1]])
          /\ queue[x[1]][x[2]] = queue[x[1]][y[2]]
      BY <1>0, <1>6, <2>1
    <3> QED BY <1>0, <3>1 DEF Distinct
  <2> QED BY <1>6, <2>1, <2>2
<1>7. CASE (InHandOf(x) \/ InLaneOf(x)) /\ (InHandOf(y) \/ InLaneOf(y))
  BY <1>3, <1>5, <1>7
<1>8. CASE Waits(x) /\ Waits(y)
  BY <1>8
<1>9. ASSUME NEW p, NEW r, InSlot(p), InHandOf(r) \/ InLaneOf(r) \/ Waits(r) PROVE FALSE
  <2>1. p[1] \in SlotQueues
    BY <1>9
  <2>2. CASE InHandOf(r) \/ InLaneOf(r)
    <3>1. r = <<p[1], 0>>
      BY <1>2, <1>3, <1>5, <1>9, <2>2
    <3> QED BY <1>0, <2>1, <2>2, <3>1
  <2>3. CASE Waits(r)
    <3>1. <<p[1], 0>> = <<"pending", 0>>
      BY <1>2, <1>4, <1>5, <1>9, <2>3
    <3> QED BY <1>0, <2>1, <3>1
  <2> QED BY <1>9, <2>2, <2>3
<1>10. ASSUME NEW p, NEW r, Waits(p), InHandOf(r) \/ InLaneOf(r) PROVE FALSE
  <2>1. r = <<"pending", 0>>
    BY <1>3, <1>4, <1>5, <1>10
  <2> QED BY <1>0, <1>10, <2>1
<1> QED BY <1>1, <1>6, <1>7, <1>8, <1>9, <1>10

(* A slot is in one place at most; one with a surface is dropped nowhere but in a    *)
(* run that has failed; and one comes back to the decoder without a surface.         *)
THEOREM SlotsHaveOneOwner == Spec => []EverySlotOwned
<1>1. ASSUME IInv, NEW s \in Slots PROVE Cardinality(PlacesOf(s)) <= 1
  <2>1. CASE PlacesOf(s) = {}
    BY <2>1, FS_EmptySet
  <2>2. CASE PlacesOf(s) # {}
    <3>1. PICK x : x \in PlacesOf(s)
      BY <2>2
    <3>2. PlacesOf(s) = {x}
      BY <1>1, <3>1, OnePlace
    <3> QED BY <3>2, FS_Singleton
  <2> QED BY <2>1, <2>2
<1>2. ASSUME IInv, NEW s \in Slots, frame[s] # NoFrame, ~Failing PROVE PlacesOf(s) # {}
  <2>1. PICK h \in Holders : s \in Held(h)
    BY <1>2 DEF IInv, Covered
  <2>2. ASSUME NEW q \in SlotQueues, h = <<q, 0>> PROVE PlacesOf(s) # {}
    <3>1. PICK i \in 1 .. Len(queue[q]) : queue[q][i] = s
      BY <2>1, <2>2, WhereIs DEF Where, Elements
    <3>2. i \in Slots /\ i \in DOMAIN queue[q]
      BY <1>2, <3>1, Bounded
    <3>3. <<q, i>> \in PlacesOf(s)
      BY <3>1, <3>2 DEF PlacesOf
    <3> QED BY <3>3
  <2>3. ASSUME NEW t \in Threads, h = <<t, 0>> PROVE PlacesOf(s) # {}
    <3>1. hand[t] = s
      BY <2>1, <2>3, WhereIs DEF Where
    <3>2. <<t, 0>> \in PlacesOf(s)
      BY <3>1 DEF PlacesOf
    <3> QED BY <3>2
  <2>4. ASSUME NEW l \in Lanes, h = <<"lane", l>> PROVE PlacesOf(s) # {}
    <3>1. laneSlots[l] = s
      BY <2>1, <2>4, WhereIs DEF Where
    <3>2. <<"lane", l>> \in PlacesOf(s)
      BY <3>1 DEF PlacesOf
    <3> QED BY <3>2
  <2>5. CASE h = <<"pending", 0>>
    <3>1. s \in pending
      BY <2>1, <2>5, WhereIs DEF Where
    <3>2. <<"pending", s>> \in PlacesOf(s)
      BY <3>1 DEF PlacesOf
    <3> QED BY <3>2
  <2> QED BY <2>2, <2>3, <2>4, <2>5, WhereIs DEF OneOf
<1>3. ASSUME IInv, NEW s \in Slots,
             s = hand["decoder"] \/ \E i \in DOMAIN queue["free"] : queue["free"][i] = s
      PROVE  frame[s] = NoFrame
  <2>1. CASE pc["main"] = "done"
    BY <2>1, <1>3 DEF IInv, Filled
  <2>2. CASE pc["main"] # "done"
    <3>1. "free" \in SlotQueues /\ "decoder" \in Threads
      BY DEF SlotQueues, Threads, Stages
    <3>2. DOMAIN queue["free"] = 1 .. Len(queue["free"])
      BY <1>3, <3>1, Bounded
    <3>3. s \in Held(<<"decoder", 0>>) \/ s \in Held(<<"free", 0>>)
      BY <1>3, <3>1, <3>2, WhereIs DEF Where, Elements
    <3> QED BY <1>3, <2>2, <3>3 DEF IInv, Filled, Unread
  <2> QED BY <2>1, <2>2
<1>4. IInv => EverySlotOwned
  BY <1>1, <1>2, <1>3 DEF EverySlotOwned
<1> QED BY <1>4, Inductive, PTL

(* While the GPU works on a frame its surface stays with the slot of the lane, in    *)
(* every run in which no thread has failed.                                          *)
THEOREM SurfacesStay == Spec => []SurfaceStaysUnderGpu
<1>1. IInv => SurfaceStaysUnderGpu
  BY DEF IInv, Scheduling, SurfaceStaysUnderGpu, IdleLane
<1> QED BY <1>1, Inductive, PTL

LEMMA FirstsAreInOrder ==
  ASSUME NEW out \in Seq(Nat), Firsts(out), Total \in Nat
  PROVE  InOrder(out) /\ (Len(out) = Total => out = AllFrames)
<1>1. Len(out) \in Nat /\ Len(out) <= Total /\ \A i \in 1 .. Len(out) : out[i] = i - 1
  BY LenProperties DEF Firsts
<1>2. out = [i \in 1 .. Len(out) |-> i - 1]
  BY <1>1
<1>3. AllFrames \in Seq(Int) /\ Len(AllFrames) = Total /\ \A i \in 1 .. Total : AllFrames[i] = i - 1
  BY DEF AllFrames
<1>4. SubSeq(AllFrames, 1, Len(out)) = [i \in 1 .. Len(out) |-> i - 1]
  BY <1>1, <1>3
<1>5. InOrder(out)
  BY <1>1, <1>2, <1>4 DEF InOrder
<1>6. Len(out) = Total => out = AllFrames
  BY <1>2 DEF AllFrames
<1> QED BY <1>5, <1>6

(* However the threads and the GPU are timed and whatever fails, the detections, the *)
(* benchmark rows and the video have the first frames in order; a run that returns 0 *)
(* has every output the options ask for to the last frame.                           *)
THEOREM OutputsAreInOrder == Spec => []OutputsInOrder
<1>1. ASSUME IInv PROVE OutputsInOrder
  <2>1. /\ rows \in Seq(Nat) /\ measured \in Seq(Nat) /\ encoded \in Seq(Nat) /\ Total \in Nat
        /\ Firsts(rows) /\ Firsts(measured) /\ Firsts(encoded)
    BY <1>1, WrittenIs DEF IInv, DataOK, Recording, Encoding
  <2>2. InOrder(rows) /\ InOrder(measured) /\ InOrder(encoded)
    BY <2>1, FirstsAreInOrder
  <2>3. result = "ok" => /\ Len(rows) = Total
                         /\ config.benchmark => Len(measured) = Total
                         /\ config.draw => Len(encoded) = Total
    BY <1>1 DEF IInv, Judged
  <2>4. result = "ok" => /\ rows = AllFrames
                         /\ config.benchmark => measured = AllFrames
                         /\ config.draw => encoded = AllFrames
    BY <2>1, <2>3, FirstsAreInOrder
  <2> QED BY <2>2, <2>4 DEF OutputsInOrder
<1> QED BY <1>1, Inductive, PTL
-----------------------------------------------------------------------------
(* The promise to the caller, as of every pipeline: the detections.        *)

Run == INSTANCE InOrderRun WITH total <- Total, delivered <- rows,
          outcome <- IF pc["main"] = "done" THEN result ELSE "none"

(* Every step of the pipeline is a step of the promise or leaves it alone. *)
LEMMA RunStep == IInv /\ [Next]_vars => [Run!Next]_Run!vars
<1> SUFFICES ASSUME IInv, [Next]_vars PROVE [Run!Next]_Run!vars
  OBVIOUS
<1>0. /\ LabelsOK /\ Recording /\ Judged /\ Total' = Total /\ Total \in Nat /\ Len(rows) \in Nat
      /\ records \in Seq(RecordTypes) /\ result \in {"none", "ok", "error"} /\ "main" \in Threads
  BY WrittenIs, Onward DEF IInv, DataOK, Threads
<1>1. CASE pc["main"] = "done"
  BY <1>0, <1>1, Over, GpuFlow DEF Run!vars
<1>2. CASE pc["main"] # "done" /\ Reap
  <2>1. /\ pc["main"] = "reap" /\ pc'["main"] = "done" /\ rows' = rows /\ result' = result
    BY <1>0, <1>2 DEF Reap, Goto, MainKeeps, output, LabelsOK
  <2>2. result \in {"ok", "error"} /\ (result = "ok" => Len(rows) = Total)
    BY <1>0, <2>1 DEF Judged, Returning
  <2> QED BY <1>0, <2>1, <2>2 DEF Run!Next, Run!Succeed, Run!Break
<1>3. CASE pc["main"] # "done" /\ ~Reap
  <2>1. pc'["main"] # "done"
    BY <1>3, Finishes
  <2>2. CASE rows' = rows
    BY <1>0, <1>3, <2>1, <2>2 DEF Run!vars
  <2>3. CASE rows' # rows
    <3>1. MetadataWrite /\ Head(records).kind = "detections" /\ rows' = Append(rows, Head(records).frame)
      BY <2>3, OutputsStep DEF MetadataNext, MetadataWrite, MetadataEnd, AsyncFail, output
    <3>2. Records /\ records # <<>>
      BY <3>1 DEF MetadataWrite, Records
    <3>3. PICK m \in 0 .. Total : Sent(records, "detections", Len(rows), m)
      BY <1>0, <3>2 DEF Recording
    <3>4. Head(records).frame = Len(rows) /\ Len(rows) < m
      BY <1>0, <3>1, <3>2, <3>3, TakenSame
    <3>5. rows' = Append(rows, Len(rows)) /\ Len(rows) < Total
      BY <1>0, <3>1, <3>3, <3>4
    <3> QED BY <1>0, <1>3, <2>1, <3>5 DEF Run!Next, Run!Deliver
  <2> QED BY <2>2, <2>3
<1> QED BY <1>1, <1>2, <1>3

(* run_detection_pipeline_nvdec_cuda_async keeps the promise of InOrderRun: the      *)
(* detections of the frames are written in order and without a gap, none after the   *)
(* return, and 0 is returned only when all up to max_frames were.                    *)
THEOREM AsyncImplementsRun == Spec => Run!Spec
<1>1. Init => Run!Init
  <2>1. Init => Total \in Nat
    BY Begin, WrittenIs
  <2>2. Init => pc["main"] = "create" /\ rows = <<>>
    BY DEF Init, Threads
  <2> QED BY <2>1, <2>2 DEF Run!Init
<1> QED BY <1>1, Begin, Step, RunStep, PTL DEF Spec, Run!Spec
-----------------------------------------------------------------------------
(* Runs in which no call fails.                                            *)

(* No queue is closed, but by the stage before it that has ended. *)
Shut ==
    ~failed =>
       /\ "completed" \in closed => pc["scheduler"] = "done"
       /\ "encode" \in closed =>
             pc["main"] \in {"join", "closeRecords", "joinMetadata", "cleanup"} \/ Returning
       /\ "records" \in closed => pc["main"] \in {"joinMetadata", "cleanup"} \/ Returning

LEMMA ShutStep ==
  ASSUME IInv, Shut, [Next]_vars
  PROVE  Shut'
<1> SUFFICES ASSUME ~failed' PROVE Shut'
  BY DEF Shut
<1>0. /\ LabelsOK /\ Failures /\ ~failed /\ \A t \in Threads : ~AsyncFail(t)
      /\ Threads = Stages \cup {"main"} /\ "main" \in Threads /\ "main" \notin Stages
  BY Unfailed DEF IInv, Threads, Stages
<1> USE DEF OnlyMoves, Keeps, Shut, Returning, Inside
<1>1. CASE DecoderNext \/ EncoderNext \/ MetadataNext
  <2>1. closed' \subseteq closed \cup {"decoded"} /\ UNCHANGED <<pc["main"], resume["main"], pc["scheduler"]>>
    BY <1>0, <1>1, DecoderFlow, EncoderFlow, MetadataFlow DEF Threads, Stages
  <2> QED BY <1>0, <2>1
<1>2. CASE SchedulerNext
  <2>1. UNCHANGED <<pc["main"], resume["main"]>>
    BY <1>0, <1>2, SchedulerFlow DEF Threads, Stages
  <2>2. \/ closed' = closed /\ pc["scheduler"] # "done"
        \/ closed' = closed \cup {"completed"} /\ pc'["scheduler"] = "done"
    BY <1>0, <1>2, SchedulerFlow DEF Threads, Stages
  <2> QED BY <1>0, <2>1, <2>2
<1>3. CASE MainNext /\ ~Create
  <2>1. UNCHANGED pc["scheduler"]
    BY <1>0, <1>3, MainFlow DEF Stages
  <2>2. pc["main"] # "reap" /\ pc["main"] # "done"
    BY <1>0 DEF Failures
  <2> QED BY <1>0, <1>3, <2>1, <2>2, MainFlow DEF Ordering, Emitting
<1>4. CASE Create
  <2>1. closed' = closed /\ pc["main"] = "create" /\ (pc["scheduler"] = "done" => pc'["scheduler"] = "done")
    BY <1>4, CreateMoves DEF Starts, Stages
  <2> QED BY <1>0, <2>1
<1>5. CASE GpuNext \/ UNCHANGED vars
  BY <1>0, <1>5, GpuFlow
<1> QED BY <1>1, <1>2, <1>3, <1>4, <1>5, StepOf

(* No thread is on its way into detection_async_fail, nor has been there.  *)
Quiet == ~failed /\ \A t \in Threads : pc[t] \notin Inside

(* The frames that came early have all been output when the loop is left. *)
LEMMA NoneIsPending ==
  ASSUME IInv, Shut, Quiet, pc["main"] = "judgePending"
  PROVE  pending = {}
<1>0. /\ LabelsOK /\ DataOK /\ Ending /\ Holding /\ Scheduling /\ Filled /\ ~failed
      /\ next \in Nat /\ decoded \in Nat /\ NoFrame = -1
  BY Basics DEF IInv, Quiet
<1>1. ~Failing
  BY DEF Failing, Quiet, Inside
<1>2. "completed" \in closed /\ queue["completed"] = <<>>
  BY <1>0 DEF Ending, Leaving
<1>3. decodedClosed /\ Occupied = {}
  BY <1>0, <1>2 DEF Ending, Shut
<1>4. queue["decoded"] = <<>> /\ hand["main"] = 0 /\ hand["scheduler"] = 0 /\ hand["metadata"] = 0
  BY <1>0, <1>3 DEF Scheduling, Holding, Emitting
<1>5. next = decoded
  BY <1>1, <1>2, <1>3, <1>4, NoneIsLeft DEF Emptied
<1>6. ASSUME NEW s \in pending PROVE FALSE
  <2>1. s \in Slots /\ frame[s] > next
    BY <1>0 DEF DataOK, Filled
  <2>2. frame[s] # NoFrame
    BY <1>0, <2>1
  <2>3. frame[s] \in 0 .. decoded - 1
    BY <1>0, <2>1, <2>2 DEF Filled
  <2> QED BY <1>0, <1>5, <2>1, <2>3
<1> QED BY <1>6

(* No call fails, and the benchmark is written. *)
Ideal == Faults = {} /\ config.benchmark

LEMMA StagesStayQuiet ==
  ASSUME IInv, Shut, Quiet, Ideal, DecoderNext \/ SchedulerNext \/ EncoderNext \/ MetadataNext,
         pc["main"] # "cleanup"
  PROVE  Quiet' /\ pc'["main"] = pc["main"] /\ result' = result
<1>0. /\ LabelsOK /\ Failures /\ Ending /\ ~failed /\ Faults = {} /\ config.benchmark = TRUE
      /\ pc \in [Threads -> Places] /\ Threads = Stages \cup {"main"} /\ "main" \notin Stages
      /\ Stages = {"metadata", "encoder", "decoder", "scheduler"}
  BY DEF IInv, DataOK, LabelsOK, Quiet, Ideal, Threads, Stages
<1>1. \A t \in Threads : ~AsyncFail(t)
  BY FailMoves DEF IInv, Quiet
<1>2. \A kind : ~MayFail(kind)
  BY <1>0 DEF MayFail
<1>3. ~Returning
  BY <1>0 DEF Returning, Failures, Quiet
<1> USE DEF OnlyMoves, Keeps
<1>4. CASE DecoderNext
  <2>1. pc'["decoder"] \notin Inside
    BY <1>0, <1>1, <1>2, <1>4 DEF DecoderNext, DecoderPop, DecoderRead, Close, Goto, Inside
  <2> QED BY <1>0, <1>1, <1>4, <2>1, DecoderFlow DEF Quiet
<1>5. CASE SchedulerNext
  <2>1. pc'["scheduler"] \notin Inside
    <3>1. CASE SchedulerCollect
      <4>1. "completed" \notin closed
        BY <1>0, <3>1 DEF Shut, SchedulerCollect
      <4> QED BY <1>0, <1>2, <3>1, <4>1 DEF SchedulerCollect, Collect, AfterLane, Goto, Inside, control
    <3>2. CASE SchedulerStart \/ SchedulerFill \/ SchedulerDrain
      BY <1>0, <1>2, <3>2 DEF SchedulerStart, SchedulerFill, SchedulerDrain, Submit, Round, Goto, Inside, control
    <3>3. CASE Close("scheduler", "close", "completed", "done")
      BY <1>0, <3>3 DEF Close, Goto, Inside
    <3> QED BY <1>0, <1>1, <1>5, <3>1, <3>2, <3>3 DEF SchedulerNext
  <2> QED BY <1>0, <1>1, <1>5, <2>1, SchedulerFlow DEF Quiet
<1>6. CASE EncoderNext
  <2>1. pc'["encoder"] \notin Inside
    <3>1. CASE EncoderMeasure
      <4>1. "freeMetadata" \notin closed
        BY <1>0 DEF Failures
      <4>2. "records" \notin closed
        BY <1>0, <1>3, <3>1 DEF Shut, Ending, Stopped, EncoderMeasure
      <4> QED BY <1>0, <1>2, <3>1, <4>1, <4>2 DEF EncoderMeasure, Enqueue, Goto, Inside
    <3>2. CASE EncoderStart \/ EncoderDraw \/ EncoderEncode \/ EncoderRecycle
      BY <1>0, <1>2, <3>2 DEF EncoderStart, EncoderDraw, EncoderEncode, EncoderRecycle, Goto, Inside
    <3> QED BY <1>0, <1>1, <1>6, <3>1, <3>2 DEF EncoderNext
  <2> QED BY <1>0, <1>1, <1>6, <2>1, EncoderFlow DEF Quiet
<1>7. CASE MetadataNext
  <2>1. pc'["metadata"] \notin Inside
    BY <1>0, <1>1, <1>2, <1>7 DEF MetadataNext, MetadataWrite, MetadataEnd, Goto, Inside
  <2> QED BY <1>0, <1>1, <1>7, <2>1, MetadataFlow DEF Quiet
<1> QED BY <1>4, <1>5, <1>6, <1>7

LEMMA MainStaysQuiet ==
  ASSUME IInv, Shut, Quiet, Ideal, MainNext, pc["main"] # "cleanup"
  PROVE  /\ Quiet' /\ pc'["main"] \notin {"reap", "done"}
         /\ pc'["main"] = "cleanup" => result' = "ok"
<1>0. /\ LabelsOK /\ Failures /\ Ending /\ ~failed /\ Faults = {} /\ config.benchmark = TRUE
      /\ pc \in [Threads -> Places] /\ Threads = Stages \cup {"main"} /\ "main" \in Threads
      /\ pc["main"] \notin {"reap", "done", "cleanup"} \cup Inside
  BY DEF IInv, DataOK, LabelsOK, Quiet, Ideal, Threads, Failures
<1>1. ~AsyncFail("main")
  BY <1>0, FailMoves DEF IInv
<1>2. \A kind : ~MayFail(kind)
  BY <1>0 DEF MayFail
<1>3. "freeMetadata" \notin closed /\ ~Returning
  BY <1>0 DEF Failures, Returning
<1>4. CASE Create
  <2>1. pc'["main"] \in {"create", "pop"}
    BY <1>0, <1>2, <1>4 DEF Create, Goto, CreateOrder, First, Stages
  <2>2. \A t \in Stages : pc'[t] \notin Inside
    BY <1>0, <1>4, CreateMoves DEF Starts, FirstPlace, Inside, Quiet
  <2>3. ~failed'
    BY <1>0, <1>4, CreateMoves
  <2> QED BY <1>0, <2>1, <2>2, <2>3 DEF Quiet, Inside
<1>5. CASE MainNext /\ ~Create
  <2>1. ~failed' /\ \A t \in Threads \ {"main"} : pc'[t] = pc[t]
    BY <1>0, <1>1, <1>5, MainFlow DEF Keeps
  <2>2. SUFFICES /\ pc'["main"] \notin {"reap", "done"} \cup Inside
                 /\ pc'["main"] = "cleanup" => result' = "ok"
    BY <1>0, <2>1 DEF Quiet
  <2>3. CASE Order
    BY <1>0, <1>2, <2>3 DEF Order, Goto, Inside, control
  <2>4. CASE EmitDetections
    <3>1. "records" \notin closed
      BY <1>0, <1>3, <2>4 DEF Shut, EmitDetections
    <3> QED BY <1>0, <1>2, <1>3, <2>4, <3>1 DEF EmitDetections, Enqueue, Goto, Inside
  <2>5. CASE EmitEncode
    <3>1. "encode" \notin closed
      BY <1>0, <1>3, <2>5 DEF Shut, EmitEncode
    <3> QED BY <1>0, <2>5, <3>1 DEF EmitEncode, Emitted, Goto, Inside
  <2>6. CASE EmitTiming
    <3>1. "records" \notin closed
      BY <1>0, <1>3, <2>6 DEF Shut, EmitTiming
    <3> QED BY <1>0, <1>2, <1>3, <2>6, <3>1 DEF EmitTiming, Enqueue, Emitted, Goto, Inside
  <2>7. CASE JudgePending
    <3>1. pending = {}
      BY <2>7, NoneIsPending DEF JudgePending
    <3> QED BY <1>0, <2>7, <3>1 DEF JudgePending, Goto, Inside
  <2>8. CASE Close("main", "closeEncode", "encode", "join")
    BY <1>0, <2>8 DEF Close, Goto, Inside
  <2>9. CASE Join
    BY <1>0, <2>9 DEF Join, Goto, Inside
  <2>10. CASE Close("main", "closeRecords", "records", "joinMetadata")
    BY <1>0, <2>10 DEF Close, Goto, Inside
  <2>11. CASE Judge
    BY <1>0, <1>2, <2>11 DEF Judge, Goto, Inside
  <2> QED BY <1>0, <1>1, <1>5, <2>3, <2>4, <2>5, <2>6, <2>7, <2>8, <2>9, <2>10, <2>11
          DEF MainNext, Cleanup, Reap
<1> QED BY <1>4, <1>5

(* Such a run is quiet up to the verdict, which is a success. *)
Smooth == \/ Quiet /\ pc["main"] \notin {"cleanup", "reap", "done"}
          \/ result = "ok"

LEMMA SmoothStep ==
  ASSUME IInv, Shut, Ideal, Smooth, [Next]_vars
  PROVE  Smooth'
<1>1. CASE result = "ok"
  <2>1. /\ \A t \in Stages : pc[t] \in {"none", "done"}
        /\ pc["main"] \notin {"create", "joinMetadata"}
    BY <1>1 DEF IInv, Judged, Returning, Inside
  <2>2. (MainNext /\ ~Create) \/ GpuNext \/ UNCHANGED vars
    BY <2>1, Alone
  <2>3. result' = "ok"
    BY <1>1, <2>1, <2>2, MainFlow, GpuFlow DEF Judge, Cleanup
  <2> QED BY <2>3 DEF Smooth
<1>2. CASE Quiet /\ pc["main"] \notin {"cleanup", "reap", "done"}
  <2>1. CASE DecoderNext \/ SchedulerNext \/ EncoderNext \/ MetadataNext
    BY <1>2, <2>1, StagesStayQuiet DEF Smooth
  <2>2. CASE MainNext
    BY <1>2, <2>2, MainStaysQuiet DEF Smooth
  <2>3. CASE GpuNext \/ UNCHANGED vars
    BY <1>2, <2>3, GpuFlow DEF Smooth, Quiet
  <2> QED BY <2>1, <2>2, <2>3, StepOf
<1> QED BY <1>1, <1>2 DEF Smooth

(* When the benchmark is written, run_detection_pipeline_nvdec_cuda_async returns 0  *)
(* whenever no call it makes fails: no order of the threads makes it refuse its own  *)
(* records or slots.  With --no-benchmark it does not (finding FaultlessRunSucceeds).*)
THEOREM BenchmarkedRunsSucceed == Spec => [](config.benchmark => FaultlessRunSucceeds)
<1> DEFINE Inv == IInv /\ Shut /\ (Ideal => Smooth)
<1>1. Init => Inv
  <2> SUFFICES ASSUME Init PROVE Inv
    OBVIOUS
  <2>1. pc["main"] = "create" /\ ~failed /\ closed = {} /\ \A t \in Threads : pc[t] \notin Inside
    BY DEF Init, Threads, Inside
  <2> QED BY <2>1, Begin DEF Shut, Smooth, Quiet
<1>2. Inv /\ [Next]_vars => Inv'
  <2> SUFFICES ASSUME Inv, [Next]_vars PROVE Inv'
    OBVIOUS
  <2>1. Ideal' => Ideal
    BY Onward DEF Ideal
  <2> QED BY <2>1, Step, ShutStep, SmoothStep
<1>3. Inv => (config.benchmark => FaultlessRunSucceeds)
  BY DEF Ideal, Smooth, FaultlessRunSucceeds
<1> QED BY <1>1, <1>2, <1>3, PTL DEF Spec
=============================================================================

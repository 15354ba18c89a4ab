-------------------------- MODULE DetectionAsyncInv --------------------------
(***************************************************************************)
(* The inductive invariant of DetectionAsyncPipeline: who holds a slot and *)
(* which frame is in it, what the lanes work on, which records are on      *)
(* their way to the files, and in which order the stages end when nothing  *)
(* fails.  DetectionAsyncProofs proves it; the runs check it first.        *)
(***************************************************************************)
EXTENDS DetectionAsyncPipeline, QueueContents

Inside == {"fail", "closing"}           (* inside detection_async_fail       *)
DecoderLabels == {"none", "pop", "read", "close", "done"} \cup Inside
SchedulerLabels == {"none", "start", "collect", "fill", "drain", "close", "done"} \cup Inside
EncoderLabels == {"none", "start", "pop", "encode", "measure", "recycle", "done"} \cup Inside
MetadataLabels == {"none", "pop", "done"} \cup Inside
Emitting == {"emit", "emitEncode", "emitTiming", "emitRecycle"}
Ordering == {"create", "pop"} \cup Emitting
Leaving == {"judgePending", "closeEncode", "join", "closeRecords", "joinMetadata", "cleanup"}
MainLabels == Ordering \cup Leaving \cup {"reap", "done"} \cup Inside

LabelsOK ==
    /\ pc \in [Threads -> Places]
    /\ resume \in [Threads -> Places]
    /\ pc["decoder"] \in DecoderLabels
    /\ pc["scheduler"] \in SchedulerLabels
    /\ pc["encoder"] \in EncoderLabels
    /\ pc["metadata"] \in MetadataLabels
    /\ pc["main"] \in MainLabels

DataOK ==
    /\ config \in Configs
    /\ video \in Frames
    /\ failed \in BOOLEAN
    /\ queue \in [SlotQueues -> Seq(Slots)]
    /\ records \in Seq([kind : {"detections", "timing"}, frame : Frames])
    /\ freeRecords \in Nat
    /\ freeRecords + Len(records) <= RecordCount
    /\ hand \in [Threads -> Slots \cup {0}]
    /\ frame \in [Slots -> Frames \cup {NoFrame}]
    /\ found \in [Slots -> Frames \cup {NoFrame}]
    /\ decoded \in 0 .. Total
    /\ lanes \in [Lanes -> LaneStates(Frames)]
    /\ laneSlots \in [Lanes -> Slots \cup {0}]
    /\ decodedClosed \in BOOLEAN
    /\ pending \subseteq Slots
    /\ next \in 0 .. decoded
    /\ rows \in Seq(Nat) /\ measured \in Seq(Nat) /\ encoded \in Seq(Nat)
    /\ result \in {"none", "ok", "error"}

(* The closes of detection_async_fail come after the flag; where each       *)
(* thread goes on after it, and what it has in its hand until then.         *)
Failures ==
    /\ \A t \in Threads : pc[t] = "closing" => failed
    /\ closed \cap {"free", "freeMetadata"} # {} => failed
    /\ pc["decoder"] \in Inside => resume["decoder"] = "close"
    /\ pc["scheduler"] \in Inside => resume["scheduler"] \in {"drain", "close"}
    /\ pc["encoder"] \in Inside => resume["encoder"] \in {"pop", "recycle"}
    /\ pc["metadata"] \in Inside => resume["metadata"] = "done"
    /\ pc["main"] \in Inside =>
          resume["main"] \in {"judgePending", "closeEncode", "cleanup", "reap"}
    /\ pc["main"] \in {"reap", "done"} => failed
Holding ==
    /\ hand["decoder"] # 0 <=> pc["decoder"] = "read"
    /\ hand["encoder"] # 0 <=> \/ pc["encoder"] \in {"encode", "measure", "recycle"}
                               \/ pc["encoder"] \in Inside /\ resume["encoder"] = "recycle"
    /\ hand["main"] # 0 <=> pc["main"] \in Emitting
    /\ hand["scheduler"] = 0 /\ hand["metadata"] = 0

(* A slot is in one queue, hand, lane or the pending list, and there once.  *)
Holders == {<<h, 0>> : h \in SlotQueues \cup Threads \cup {"pending"}}
              \cup {<<"lane", l>> : l \in Lanes}
Held(h) == IF h[1] \in SlotQueues THEN Elements(queue[h[1]])
           ELSE IF h[1] = "pending" THEN pending
           ELSE IF h[1] = "lane" THEN {laneSlots[h[2]]} \ {0}
           ELSE {hand[h[1]]} \ {0}
Owned == /\ \A q \in SlotQueues : Distinct(queue[q])
         /\ \A h \in Holders : \A s \in Held(h) : \A k \in Holders :
               s \in Held(k) => h = k

(* Which frame a slot has, by who holds it: none on its way to the decoder, *)
(* one not yet output between decoder and main thread, one already output   *)
(* on its way to the encoder.  No frame is in two slots.                    *)
Unread == {<<"free", 0>>, <<"decoder", 0>>}
Output == {<<"encode", 0>>, <<"encoder", 0>>}
Coming == {<<"decoded", 0>>, <<"completed", 0>>} \cup {<<"lane", l>> : l \in Lanes}
Collected == {<<"completed", 0>>, <<"pending", 0>>, <<"main", 0>>}
Filled ==
    /\ \A s \in Slots : frame[s] # NoFrame => frame[s] \in 0 .. decoded - 1
    /\ \A s, r \in Slots : s # r /\ frame[s] # NoFrame => frame[s] # frame[r]
    /\ pc["main"] # "done" =>
       /\ \A h \in Unread : \A s \in Held(h) : frame[s] = NoFrame
       /\ \A h \in Output : \A s \in Held(h) : frame[s] \in 0 .. next - 1
       /\ \A h \in Coming : \A s \in Held(h) : frame[s] >= next
       /\ \A s \in pending : frame[s] > next
       /\ pc["main"] \in Emitting => frame[hand["main"]] = next
       /\ \A h \in Collected : \A s \in Held(h) : found[s] = frame[s]
    /\ pc["main"] = "done" => \A s \in Slots : frame[s] = NoFrame

(* Until a thread fails, no frame that is not output is lost.               *)
Covered ==
    ~Failing =>
       /\ \A s \in Slots : frame[s] # NoFrame => \E h \in Holders : s \in Held(h)
       /\ \A f \in next .. decoded - 1 : \E s \in Slots : frame[s] = f

(* A lane works on the frame of its slot.                                   *)
Scheduling ==
    /\ pc["scheduler"] \in {"none", "start", "collect", "fill"} \/ ~Failing =>
          \A l \in Lanes :
             IF laneSlots[l] = 0 THEN lanes[l] = IdleLane
             ELSE /\ lanes[l].active /\ lanes[l].gpu # "idle"
                  /\ lanes[l].frame = frame[laneSlots[l]]
    /\ pc["scheduler"] \in {"none", "start", "close", "done"} => Occupied = {}
    /\ pc["scheduler"] = "none" => ~decodedClosed
    /\ decodedClosed => "decoded" \in closed /\ queue["decoded"] = <<>>
    /\ pc["scheduler"] \in Inside /\ resume["scheduler"] = "close" => Occupied = {}

(* Without a failure the stages end one after the other.                    *)
Stopped(t) == pc[t] = "done" \/ (t = "encoder" /\ ~config.draw)
Ending ==
    /\ pc["decoder"] \in {"none", "pop", "read"} => MaxFrames = 0 \/ decoded < MaxFrames
    /\ ~config.draw => pc["encoder"] = "none" /\ queue["encode"] = <<>>
    /\ pc["main"] = "emitEncode" => config.draw
    /\ pc["main"] \in {"emitTiming", "emitRecycle"} => ~config.draw
    /\ pc["main"] = "emitRecycle" => config.benchmark
    /\ ~failed =>
       /\ pc["decoder"] \in {"close", "done"} => decoded = Total
       /\ "decoded" \in closed => pc["decoder"] = "done"
       /\ pc["scheduler"] \in {"drain", "close", "done"} => decodedClosed /\ Occupied = {}
       /\ pc["main"] \in Leaving => "completed" \in closed /\ queue["completed"] = <<>>
       /\ pc["main"] \in (Ordering \cup Leaving) \ {"create"} =>
             \A t \in Stages : pc[t] # "none" \/ (t = "encoder" /\ ~config.draw)
       /\ pc["encoder"] = "done" => "encode" \in closed /\ queue["encode"] = <<>>
       /\ pc["main"] \in {"closeRecords", "joinMetadata", "cleanup"} =>
             Stopped("decoder") /\ Stopped("scheduler") /\ Stopped("encoder")
       /\ pc["metadata"] = "done" => "records" \in closed /\ records = <<>>
       /\ pc["main"] = "cleanup" => Stopped("metadata")

(* The first frames, in order.                                              *)
Firsts(out) == Len(out) <= Total /\ \A i \in 1 .. Len(out) : out[i] = i - 1

(* As long as the encoder has skipped no frame, what it has encoded, what   *)
(* it holds and what is in its queue are the frames up to next.             *)
Encodes == \/ pc["encoder"] \in {"encode", "measure"}
           \/ pc["encoder"] \in {"none", "start", "pop", "recycle", "done"} /\ ~failed
Taken == Len(encoded) + (IF pc["encoder"] = "encode" THEN 1 ELSE 0)
Encoding ==
    /\ Firsts(encoded)
    /\ Len(queue["encode"]) <= EncodeCapacity
    /\ config.draw /\ Encodes /\ pc["main"] # "done" =>
       /\ Taken + Len(queue["encode"]) = next
       /\ \A i \in 1 .. Len(queue["encode"]) : frame[queue["encode"][i]] = Taken + i - 1
       /\ pc["encoder"] = "encode" => frame[hand["encoder"]] = Len(encoded)
       /\ pc["encoder"] = "measure" => frame[hand["encoder"]] = Len(encoded) - 1
    /\ ~config.draw => encoded = <<>>

(* The records of a kind hold the frames from n up to m, in order.          *)
Sent(recs, kind, n, m) ==
    /\ n <= m
    /\ \A i \in 1 .. Len(recs) : recs[i].kind = kind => recs[i].frame \in n .. m - 1
    /\ \A i, j \in 1 .. Len(recs) :
          i < j /\ recs[i].kind = kind /\ recs[j].kind = kind => recs[i].frame < recs[j].frame
    /\ \A f \in n .. m - 1 : \E i \in 1 .. Len(recs) : recs[i] = Record(kind, f)

(* As long as the metadata thread has skipped no record, the records on     *)
(* their way follow what is written, up to what has been sent: by the main  *)
(* thread the detections, and the timing by it or the encoder.              *)
Records == \/ pc["metadata"] \in {"none", "pop"}
           \/ pc["metadata"] = "done" /\ ~failed
MainSent(m, past, before) ==
    /\ pc["main"] \in past => m = next + 1
    /\ pc["main"] \in before => m = next
    /\ pc["main"] \in Leaving /\ ~failed => m = next
TimingSent(m) ==
    IF config.draw
    THEN /\ pc["encoder"] \in {"none", "start", "pop", "encode"} => m = Len(encoded)
         /\ pc["encoder"] = "measure" => m = Len(encoded) - 1
         /\ pc["encoder"] \in Inside /\ resume["encoder"] = "pop" => m = Len(encoded)
         /\ pc["encoder"] \in {"recycle", "done"} /\ ~failed => m = Len(encoded)
    ELSE MainSent(m, {"emitRecycle"}, {"create", "pop", "emit", "emitTiming"})
Recording ==
    /\ Firsts(rows) /\ Firsts(measured)
    /\ Records => \E m \in 0 .. Total :
          /\ MainSent(m, {"emitEncode", "emitTiming", "emitRecycle"}, {"create", "pop", "emit"})
          /\ Sent(records, "detections", Len(rows), m)
    /\ Records => \E m \in 0 .. Total : TimingSent(m) /\ Sent(records, "timing", Len(measured), m)

(* A success is returned with everything written, and the pipeline is left  *)
(* with a verdict, when every thread it has started has ended.              *)
Returning == \/ pc["main"] \in {"reap", "done"}
             \/ pc["main"] \in Inside /\ resume["main"] = "reap"
Judged ==
    /\ result = "ok" => /\ Len(rows) = Total
                        /\ config.benchmark => Len(measured) = Total
                        /\ config.draw => Len(encoded) = Total
                        /\ \A t \in Stages : pc[t] \in {"none", "done"}
                        /\ pc["main"] = "cleanup" \/ Returning
    /\ Returning => result # "none"
    /\ pc["main"] = "done" => /\ \A t \in Stages : pc[t] \in {"none", "done"}
                              /\ pending = {}

IInv == /\ LabelsOK /\ DataOK
        /\ Failures
        /\ Holding
        /\ Owned
        /\ Filled
        /\ Covered
        /\ Scheduling
        /\ Ending
        /\ Encoding
        /\ Recording
        /\ Judged
=============================================================================

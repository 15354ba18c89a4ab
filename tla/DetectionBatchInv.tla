------------------------- MODULE DetectionBatchInv --------------------------
(***************************************************************************)
(* The inductive invariant of DetectionBatchPipeline: who holds a batch    *)
(* and what is in it, how the batches cut the video into consecutive       *)
(* blocks, and in which order the stages end when nothing fails.           *)
(* DetectionBatchProofs proves it; the runs check it first.                *)
(***************************************************************************)
EXTENDS DetectionBatchPipeline, QueueContents

CloseLabels == {"closeFree", "closeDecoded", "closeCompleted"}
FailLabels == CloseLabels \cup {"fail"}
DecoderLabels == {"none", "pop", "check", "fill", "giveBack", "push", "close", "done"}
                   \cup FailLabels
WorkerLabels == {"none", "pop", "check", "infer", "push", "refused", "finish", "closing",
                 "done"} \cup FailLabels
MainLabels == {"createDecoder", "createWorkers", "pop", "order", "output", "recycle", "free",
               "take", "recycleBroken", "judge", "join", "cleanup", "reap", "done"}
                \cup FailLabels
Labels == DecoderLabels \cup WorkerLabels \cup MainLabels

LabelsOK ==
    /\ pc \in [Threads -> Labels]
    /\ pc[Decoder] \in DecoderLabels
    /\ \A w \in Workers : pc[w] \in WorkerLabels
    /\ pc[Main] \in MainLabels
    /\ resume \in [Threads -> {"close", "finish", "cleanup", "recycleBroken", "reap", "done"}]

DataOK ==
    /\ video \in Nat
    /\ failed \in BOOLEAN
    /\ closed \subseteq QueueNames
    /\ queue \in [QueueNames -> Seq(Batches)]
    /\ hand \in [Threads -> Batches \cup {0}]
    /\ frames \in [Batches -> Seq(Nat)]
    /\ decoded \in 0 .. Total
    /\ atEnd \in BOOLEAN
    /\ active \in Nat
    /\ pending \subseteq Batches
    /\ next \in 0 .. decoded
    /\ slot \in Nat \ {0}
    /\ rows \in Seq(Nat)
    /\ result \in {"none", "ok", "error"}

TypeOK == LabelsOK /\ DataOK

(* The closes of detection_hw_fail come after the flag, and where each      *)
(* thread goes on after it.                                                 *)
Failing ==
    /\ \A t \in Threads : pc[t] \in CloseLabels => failed
    /\ "free" \in closed => failed
    /\ \A w \in Workers : pc[w] = "refused" => failed
    /\ pc[Main] = "recycleBroken" => failed
    /\ pc[Decoder] \in FailLabels => resume[Decoder] = "close"
    /\ \A w \in Workers : pc[w] \in FailLabels => resume[w] = "finish"
    /\ pc[Main] \in FailLabels => resume[Main] \in {"cleanup", "recycleBroken", "reap"}

(* Who has a batch in its hand.                                             *)
Holding ==
    /\ hand[Decoder] # 0 <=> pc[Decoder] \in {"check", "fill", "giveBack", "push"}
    /\ \A w \in Workers : hand[w] # 0 <=> pc[w] \in {"check", "infer", "push"}
    /\ hand[Main] # 0 <=> \/ pc[Main] \in {"order", "output", "recycle", "free",
                                           "recycleBroken"}
                          \/ pc[Main] \in FailLabels /\ resume[Main] = "recycleBroken"

(* No batch is in two slots of a queue, in two queues, in two hands, or in  *)
(* two of a queue, a hand and the pending list.                             *)
InQueue(q) == Elements(queue[q])
Owned ==
    /\ \A q \in QueueNames : Distinct(queue[q])
    /\ \A q, r \in QueueNames : q # r => InQueue(q) \cap InQueue(r) = {}
    /\ \A t, u \in Threads : hand[t] # 0 /\ hand[t] = hand[u] => t = u
    /\ \A t \in Threads : \A q \in QueueNames : hand[t] \notin InQueue(q)
    /\ \A t \in Threads : hand[t] \notin pending
    /\ \A q \in QueueNames : InQueue(q) \cap pending = {}

(* A batch has frames from the decoder's fill to its recycling, and is      *)
(* somewhere as long as it has.                                             *)
Filled ==
    /\ \A b \in InQueue("free") : frames[b] = <<>>
    /\ \A b \in InQueue("decoded") \cup InQueue("completed") \cup pending : frames[b] # <<>>
    /\ pc[Decoder] \in {"check", "fill", "giveBack"} => frames[hand[Decoder]] = <<>>
    /\ pc[Decoder] = "push" => frames[hand[Decoder]] # <<>>
    /\ \A w \in Workers : hand[w] # 0 => frames[hand[w]] # <<>>
    /\ pc[Main] \in {"order", "output", "recycle"} => frames[hand[Main]] # <<>>
    /\ pc[Main] = "free" => frames[hand[Main]] = <<>>
Placed ==
    \A b \in Batches : frames[b] # <<>> =>
        \/ b \in InQueue("decoded") \cup InQueue("completed") \cup pending
        \/ \E t \in Threads : hand[t] = b

(* active_workers, and the one worker that closes the completed queue.      *)
Counted ==
    /\ active = Cardinality({w \in Workers : pc[w] \notin {"closing", "done"}})
    /\ \A w \in Workers : pc[w] = "closing" => \A v \in Workers \ {w} : pc[v] = "done"

(* Without a failure the stages end one after the other: the decoder at the *)
(* end of the video, the workers once the decoded queue is closed and       *)
(* empty, the main thread once the completed queue is.                      *)
Ending ==
    /\ pc[Decoder] = "giveBack" => decoded = Total
    /\ pc[Decoder] = "push" /\ atEnd => decoded = Total
    /\ ~failed =>
       /\ pc[Decoder] \in {"close", "done"} => decoded = Total
       /\ "decoded" \in closed => pc[Decoder] = "done"
       /\ \A w \in Workers : pc[w] \in {"finish", "closing", "done"} =>
             "decoded" \in closed /\ queue["decoded"] = <<>>
       /\ "completed" \in closed => \A w \in Workers : pc[w] = "done"
       /\ pc[Main] = "judge" => "completed" \in closed /\ queue["completed"] = <<>>

(* A batch is a block of consecutive frames, and no two blocks overlap.     *)
FirstOf(b) == Head(frames[b])
After(b) == FirstOf(b) + Len(frames[b])
Blocks ==
    /\ \A b \in Batches : frames[b] # <<>> =>
          /\ After(b) <= decoded
          /\ \A i \in 1 .. Len(frames[b]) : frames[b][i] = FirstOf(b) + i - 1
    /\ \A b, c \in Batches : b # c /\ frames[b] # <<>> /\ frames[c] # <<>> =>
          After(b) <= FirstOf(c) \/ After(c) <= FirstOf(b)

(* The batches with frames still to be written, which are those from        *)
(* next_frame_id on.                                                        *)
Live == {b \in Batches : frames[b] # <<>> /\ ~(pc[Main] = "recycle" /\ hand[Main] = b)}
StillToCome == \A b \in Live : FirstOf(b) >= next

(* Until a stage fails the blocks leave no gap: where one ends, and where   *)
(* the output has got to, another one starts or the decoder goes on.        *)
Unfailed == ~failed /\ \A s \in Stages : pc[s] # "fail"
FollowedAt(n) == n = decoded \/ \E c \in Live : FirstOf(c) = n
NoGap == Unfailed /\ pc[Main] # "done" => /\ FollowedAt(next)
                                         /\ \A b \in Live : FollowedAt(After(b))

(* When the main thread asks for a batch, none in the pending list could be *)
(* written.                                                                 *)
NoneMissed == pc[Main] \in {"createDecoder", "createWorkers", "pop", "order", "judge"} =>
                  \A b \in pending : ~Turn(b)

(* The rows are the frames 0, 1, 2, ... up to next_frame_id and, within a   *)
(* batch, its first ones.                                                   *)
RowsInOrder ==
    /\ \A i \in 1 .. Len(rows) : rows[i] = i - 1
    /\ pc[Main] = "output" => /\ FirstOf(hand[Main]) = next
                              /\ slot <= Len(frames[hand[Main]])
                              /\ Len(rows) = next + slot - 1
    /\ pc[Main] \in {"createDecoder", "createWorkers", "pop", "order", "recycle", "free",
                     "take", "judge", "join"} => slot = 1 /\ Len(rows) = next

(* The main thread succeeds only with everything written, and leaves only   *)
(* when every thread it has started has ended.                              *)
Judged ==
    /\ pc[Main] = "join" \/ result = "ok" =>
          ~failed /\ Len(rows) = Total /\ \A s \in Stages : pc[s] = "done"
    /\ result = "ok" => pc[Main] \in {"reap", "done"}
    /\ pc[Main] \in {"reap", "done"} => result # "none"
    /\ pc[Main] \in FailLabels /\ resume[Main] = "reap" => result = "error"
    /\ pc[Main] = "createDecoder" => \A s \in Stages : pc[s] = "none"
    /\ pc[Main] = "done" => /\ \A s \in Stages : pc[s] \in {"none", "done"}
                            /\ \A b \in Batches : frames[b] = <<>>

IInv == /\ TypeOK
        /\ Failing
        /\ Holding
        /\ Owned
        /\ Filled
        /\ Placed
        /\ Counted
        /\ Ending
        /\ Blocks
        /\ StillToCome
        /\ NoGap
        /\ NoneMissed
        /\ RowsInOrder
        /\ Judged
=============================================================================

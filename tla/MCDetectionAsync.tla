-------------------------- MODULE MCDetectionAsync --------------------------
(***************************************************************************)
(* DetectionAsyncPipeline on small instances.                              *)
(***************************************************************************)
EXTENDS DetectionAsyncInv

(* The options: with and without boxes, and the benchmark switched off. *)
Options == [draw : BOOLEAN, benchmark : {TRUE}]
               \cup {[draw |-> FALSE, benchmark |-> FALSE]}
(* The longest videos in which a call fails, with and without boxes. *)
FailingVideos == [draw \in BOOLEAN |-> IF draw THEN 2 ELSE 1]
NoFailing == [draw \in BOOLEAN |-> 0]
NoBenchmark == [draw : {FALSE}, benchmark : {FALSE}]
=============================================================================
